--------------------------- MODULE AuditWriterProofs ---------------------------
(***************************************************************************)
(* The audit pipeline for any number of calls and any limits of the queue  *)
(* and the batch: acknowledged numbers name their records, flush is a      *)
(* barrier, and losses are counted.  Proofs about AuditWriter.             *)
(***************************************************************************)
EXTENDS AuditWriter, SequenceTheorems, FiniteSetTheorems, TLAPS

USE WriterAssumption DEF WriterAssumption
-------------------------------------------------------------------------------
(***************************************************************************)
(* What holds of the commands on their way                                 *)
(***************************************************************************)
States == {"new"} \cup Pending \cup Final
Entering == [cmd : {"append"}, call : Calls, ack : BOOLEAN]
Records == [call : Calls] \cup [lost : Nat]
Phases == {"recv", "collect", "collected", "append", "ok", "failed", "after", "panicked"}

Typed ==
    /\ up \in BOOLEAN /\ panicked \in BOOLEAN /\ fail_closed \in BOOLEAN
    /\ call \in [Calls -> [st : States, seq : Nat]]
    /\ queue \in Seq(Command) /\ Len(queue) <= Capacity
    /\ batch \in Seq(Entering) /\ Len(batch) <= MaxBatch
    /\ trail \in Seq(Records)
    /\ after \in {<< >>, <<Prune>>, <<Flush>>}
    /\ phase \in Phases
    /\ count \in Nat /\ in_flight \in Nat /\ saved \in Nat /\ file \in Nat /\ known \in Nat
    /\ reporting \in Nat /\ reported \in Nat
    /\ restarts \in 0 .. MaxRestarts /\ crashes \in 0 .. MaxCrashes
    /\ retention \in {"asleep", "waiting", "ended"}
    /\ flush \in {"idle", "waiting", "done"}

\* Where the writer thread is says what it holds.
PhaseOK ==
    /\ phase \in {"recv", "after", "panicked"} => batch = << >>
    /\ ~Locked => reporting = 0 /\ (phase # "panicked" => in_flight = 0)
    /\ Locked => in_flight = reporting + Unacked(batch)
    /\ crashes = 0 => up

\* A command is in the queue or the batch for a call that waits for it, or that returned.
WaitsFor(c) == c.cmd = "append" =>
    call[c.call].st \in IF c.ack THEN {"waiting", "dropped"} ELSE {"returned"}

NotSent == {e \in Calls : call[e].st \in {"new", "offering", "sending"}}

\* Each entry is on its way once, and nothing that is on its way is stored.
HeldOK ==
    /\ \A c \in Commands(queue) \cup Commands(batch) : WaitsFor(c)
    /\ \A i, j \in DOMAIN queue :
         (i # j /\ queue[i].cmd = "append" /\ queue[j].cmd = "append") => queue[i].call # queue[j].call
    /\ Entries(queue) \cap Entries(batch) = {}
    /\ \A e \in NotSent \cup Entries(queue) : ~Stored(e)
    /\ phase # "ok" => \A e \in Entries(batch) : ~Stored(e)

\* After append, the end of the trail is the batch.
WrittenOK ==
    phase = "ok" =>
        /\ Len(trail) >= Len(BatchEntries)
        /\ \A i \in DOMAIN batch : trail[Len(trail) - Len(BatchEntries) + i] = Entry(batch[i].call)

WriterInv == Typed /\ PhaseOK /\ HeldOK /\ WrittenOK

\* Whatever stands behind a Flush in the queue came after it.
FlushOK ==
    /\ flush = "idle" => Flush \notin Commands(queue) /\ after # <<Flush>>
    /\ \A i, j \in DOMAIN queue :
         (queue[i] = Flush /\ i < j /\ queue[j].cmd = "append") => queue[j].call \notin flushed
    /\ after = <<Flush>> => flushed \cap Entries(queue) = {}
    /\ flushed \cap NotSent = {}

\* What the file and the trail know of is never more than what they or the counters hold.
SavedOK ==
    /\ ~up => phase = "recv"
    /\ ~panicked =>
         /\ phase # "panicked"
         /\ known <= reported + file
         /\ up => known <= reported + count + Owed

\* The losses are finitely many, and counted.
LossOK ==
    (crashes = 0 /\ \A e \in Calls : call[e].st # "dropped") =>
        IsFiniteSet(Missing) /\ Cardinality(Missing) = reported + count + Owed
-------------------------------------------------------------------------------
\* Commands and entries of a queue that gets one more, or gives one up.
LEMMA CommandsGrow ==
    ASSUME NEW S, NEW s \in Seq(S), NEW c \in S, NEW t, t = Append(s, c)
    PROVE  /\ t \in Seq(S) /\ Len(t) = Len(s) + 1 /\ DOMAIN t = 1 .. Len(s) + 1
           /\ t[Len(s) + 1] = c /\ \A i \in 1 .. Len(s) : t[i] = s[i]
           /\ Commands(t) = Commands(s) \cup {c}
<1>1. Len(s) \in Nat /\ DOMAIN s = 1 .. Len(s)
  BY LenProperties
<1>2. /\ t \in Seq(S) /\ Len(t) = Len(s) + 1 /\ DOMAIN t = 1 .. Len(s) + 1
      /\ t[Len(s) + 1] = c /\ \A i \in 1 .. Len(s) : t[i] = s[i]
  BY AppendProperties, LenProperties
<1>3. \A x : x \in Commands(t) <=> x \in Commands(s) \cup {c}
  BY <1>1, <1>2 DEF Commands
<1> QED
  BY <1>2, <1>3

LEMMA CommandsShrink ==
    ASSUME NEW S, NEW s \in Seq(S), s # << >>, NEW t, t = Tail(s)
    PROVE  /\ t \in Seq(S) /\ Len(s) \in Nat \ {0} /\ Len(t) = Len(s) - 1
           /\ Head(s) \in S /\ Head(s) = s[1]
           /\ \A i \in 1 .. Len(t) : t[i] = s[i + 1]
<1>1. Len(s) \in Nat \ {0} /\ DOMAIN s = 1 .. Len(s)
  BY LenProperties, EmptySeq
<1> QED
  BY <1>1, HeadTailProperties, LenProperties

LEMMA EntriesGrow ==
    ASSUME NEW s, NEW t, NEW c, Commands(t) = Commands(s) \cup {c}
    PROVE  /\ c.cmd = "append" => Entries(t) = Entries(s) \cup {c.call}
           /\ c.cmd # "append" => Entries(t) = Entries(s)
           /\ (c.cmd = "append" /\ c.ack) => Acked(t) = Acked(s) \cup {c.call}
           /\ ~(c.cmd = "append" /\ c.ack) => Acked(t) = Acked(s)
BY DEF Entries, Acked

LEMMA NothingHeld == Commands(<< >>) = {} /\ Entries(<< >>) = {} /\ Acked(<< >>) = {}
<1>1. Commands(<< >>) = {}
  BY DEF Commands
<1> QED
  BY <1>1 DEF Entries, Acked

\* Entries of a sequence of commands are calls, and finitely many.
LEMMA EntriesFinite ==
    ASSUME NEW s \in Seq(Command)
    PROVE  /\ IsFiniteSet(Entries(s)) /\ Entries(s) \subseteq Calls /\ Acked(s) \subseteq Entries(s)
           /\ Unacked(s) \in Nat
<1>1. Len(s) \in Nat /\ DOMAIN s = 1 .. Len(s) /\ \A i \in 1 .. Len(s) : s[i] \in Command
  BY LenProperties, ElementOfSeq
<1>2. \A c \in Command : c.cmd = "append" => c.call \in Calls
  BY DEF Command, Prune, Flush
<1>3. Entries(s) \subseteq Calls /\ Acked(s) \subseteq Entries(s)
  BY <1>1, <1>2 DEF Entries, Acked, Commands
<1>4. PICK D : D = {i \in 1 .. Len(s) : s[i].cmd = "append"}
  OBVIOUS
<1>5. IsFiniteSet(D)
  <2>1. IsFiniteSet(1 .. Len(s))
    BY <1>1, FS_Interval
  <2> QED
    BY <1>4, <2>1, FS_Subset
<1>6. PICK f : f = [i \in D |-> s[i].call]
  OBVIOUS
<1>7. f \in [D -> Entries(s)] /\ \A e \in Entries(s) : \E i \in D : f[i] = e
  BY <1>1, <1>4, <1>6 DEF Entries, Commands
<1>8. f \in Surjection(D, Entries(s))
  BY <1>7 DEF Surjection
<1>9. IsFiniteSet(Entries(s))
  BY <1>5, <1>8, FS_Surjection
<1>10. IsFiniteSet(Entries(s) \ Acked(s))
  BY <1>9, FS_Difference
<1> QED
  BY <1>3, <1>9, <1>10, FS_CardinalityType DEF Unacked
\* The types are kept, step by step.
LEMMA CallMoves ==
    ASSUME Typed, NEW e \in Calls, NEW to \in States, call' = [call EXCEPT ![e].st = to]
    PROVE  /\ call' \in [Calls -> [st : States, seq : Nat]]
           /\ call'[e].st = to /\ call'[e].seq = call[e].seq
           /\ \A d \in Calls : d # e => call'[d] = call[d]
<1>1. call \in [Calls -> [st : States, seq : Nat]]
  BY DEF Typed
<1>2. PICK r : r = [call[e] EXCEPT !.st = to]
  OBVIOUS
<1>3. r \in [st : States, seq : Nat] /\ r.st = to /\ r.seq = call[e].seq
  BY <1>1, <1>2
<1>4. call' = [call EXCEPT ![e] = r]
  BY <1>2
<1> QED
  BY <1>1, <1>3, <1>4

LEMMA CommandTypes ==
    /\ Entering \subseteq Command /\ Prune \in Command /\ Flush \in Command
    /\ Prune.cmd # "append" /\ Flush.cmd # "append" /\ Prune # Flush
    /\ <<Prune>> # <<Flush>> /\ <<Prune>> # << >> /\ <<Flush>> # << >>
    /\ \A e \in Calls, ack \in BOOLEAN :
         /\ Append1(e, ack) \in Entering
         /\ Append1(e, ack).cmd = "append" /\ Append1(e, ack).call = e /\ Append1(e, ack).ack = ack
         /\ Append1(e, ack) # Flush
    /\ \A c \in Command : c.cmd = "append" => c \in Entering
    /\ \A c \in Command : c.cmd # "append" => c \in {Prune, Flush}
    /\ \A c \in Entering : c.cmd = "append" /\ c.call \in Calls /\ c.ack \in BOOLEAN
<1>1. Entering \subseteq Command /\ Prune \in Command /\ Flush \in Command
  BY DEF Entering, Command
<1>2. Prune.cmd # "append" /\ Flush.cmd # "append" /\ Prune # Flush
  BY DEF Prune, Flush
<1>3. <<Prune>> # <<Flush>> /\ <<Prune>> # << >> /\ <<Flush>> # << >>
  BY <1>2
<1>4. ASSUME NEW e \in Calls, NEW ack \in BOOLEAN
      PROVE  /\ Append1(e, ack) \in Entering
             /\ Append1(e, ack).cmd = "append" /\ Append1(e, ack).call = e
             /\ Append1(e, ack).ack = ack
  BY DEF Append1, Entering
<1>5. \A e \in Calls, ack \in BOOLEAN : Append1(e, ack) # Flush
  BY <1>2, <1>4
<1>6. /\ \A c \in Command : c.cmd = "append" => c \in Entering
      /\ \A c \in Command : c.cmd # "append" => c \in {Prune, Flush}
  BY <1>2 DEF Command, Entering
<1>7. \A c \in Entering : c.cmd = "append" /\ c.call \in Calls /\ c.ack \in BOOLEAN
  BY DEF Entering
<1> QED
  BY <1>1, <1>2, <1>3, <1>4, <1>5, <1>6, <1>7

LEMMA QueueGrows ==
    ASSUME Typed, NEW c \in Command, queue' = Append(queue, c), Room
    PROVE  queue' \in Seq(Command) /\ Len(queue') <= Capacity
<1>1. queue \in Seq(Command) /\ Len(queue) \in Nat
  BY LenProperties DEF Typed
<1> QED
  BY <1>1, CommandsGrow DEF Room

LEMMA QueueGets ==
    ASSUME queue \in Seq(Command), NEW c \in Command, queue' = Append(queue, c)
    PROVE  /\ Len(queue) \in Nat /\ DOMAIN queue' = 1 .. Len(queue) + 1 /\ queue'[Len(queue) + 1] = c
           /\ \A i \in 1 .. Len(queue) : queue'[i] = queue[i]
           /\ Commands(queue') = Commands(queue) \cup {c}
<1>1. Len(queue) \in Nat
  BY LenProperties
<1>2. /\ DOMAIN queue' = 1 .. Len(queue) + 1 /\ queue'[Len(queue) + 1] = c
      /\ \A i \in 1 .. Len(queue) : queue'[i] = queue[i]
  BY CommandsGrow
<1>3. Commands(queue') = Commands(queue) \cup {c}
  BY CommandsGrow DEF Commands
<1> QED
  BY <1>1, <1>2, <1>3

LEMMA CallersTyped ==
    ASSUME Typed, NEW e \in Calls, CallerSteps(e)
    PROVE  Typed'
<1> USE CommandTypes
<1>1. \A from, to : Caller(e, from, to) =>
        /\ call' = [call EXCEPT ![e].st = to]
        /\ UNCHANGED <<up, fail_closed, retention, flush, flushed, thread, trail, reported, crashes, panicked>>
  BY DEF Caller
<1>2. {"returned", "offering", "lost", "sending", "waiting", "stored", "refused", "dropped"} \subseteq States
  BY DEF States, Pending, Final
<1>3. /\ \E to \in States : call' = [call EXCEPT ![e].st = to]
      /\ UNCHANGED <<up, fail_closed, retention, flush, flushed, thread, trail, reported, crashes, panicked>>
  BY <1>1, <1>2 DEF CallerSteps, record, Offered, QueueWaitOver, record_committed, Sent, Committed,
       NotCommitted, Cancel
<1>4. call' \in [Calls -> [st : States, seq : Nat]]
  BY <1>3, CallMoves
<1>5. queue' = queue \/ (Room /\ \E ack \in BOOLEAN : queue' = Append(queue, Append1(e, ack)))
  BY DEF CallerSteps, record, Offered, QueueWaitOver, record_committed, Sent, Committed,
       NotCommitted, Cancel
<1>6. queue' \in Seq(Command) /\ Len(queue') <= Capacity
  <2>1. CASE queue' = queue
    BY <2>1 DEF Typed
  <2>2. ASSUME Room, NEW ack \in BOOLEAN, queue' = Append(queue, Append1(e, ack))
        PROVE  queue' \in Seq(Command) /\ Len(queue') <= Capacity
    BY <2>2, QueueGrows
  <2> QED
    BY <1>5, <2>1, <2>2
<1>7. count' \in {count, count + 1} /\ UNCHANGED <<in_flight, saved, file, known>>
  <2>1. CASE NotCommitted(e)
    BY <2>1 DEF NotCommitted
  <2>2. CASE QueueWaitOver(e)
    BY <2>2 DEF QueueWaitOver
  <2>3. CASE \/ record(e) \/ Offered(e) \/ record_committed(e) \/ Sent(e) \/ Committed(e) \/ Cancel(e)
    BY <2>3 DEF lost, record, Offered, record_committed, Sent, Committed, Cancel
  <2> QED
    BY <2>1, <2>2, <2>3 DEF CallerSteps
<1>8. count' \in Nat
  BY <1>7 DEF Typed
<1>9. UNCHANGED <<phase, batch, after, reporting, restarts>>
  BY <1>3 DEF thread
<1> QED
  BY <1>3, <1>4, <1>6, <1>7, <1>8, <1>9 DEF Typed

LEMMA ReceiveTyped ==
    ASSUME Typed, Receive
    PROVE  Typed'
<1> USE CommandTypes
<1>1. queue \in Seq(Command) /\ queue # << >> /\ queue' = Tail(queue) /\ Len(queue) \in Nat
      /\ Len(queue) <= Capacity
  BY LenProperties DEF Typed, Receive
<1>2. queue' \in Seq(Command) /\ Len(queue') <= Capacity /\ Head(queue) \in Command
  BY <1>1, CommandsShrink
<1>3. batch \in Seq(Entering) /\ Len(batch) < MaxBatch /\ Len(batch) \in Nat
  BY LenProperties DEF Typed, Receive
<1>4. panicked' \in BOOLEAN
  BY Zenon DEF Receive, Thread
<1>5. CASE Head(queue).cmd = "append"
  <2>1. Head(queue) \in Entering /\ batch' = Append(batch, Head(queue)) /\ after' = after
    BY <1>2, <1>5 DEF Receive
  <2>2. batch' \in Seq(Entering) /\ Len(batch') <= MaxBatch
    BY <1>3, <2>1, CommandsGrow
  <2>3. phase' = "collect"
    BY <1>5 DEF Receive, Thread
  <2> QED
    BY <1>2, <1>4, <2>1, <2>2, <2>3 DEF Typed, Receive, Thread, lost, Phases
<1>6. CASE Head(queue).cmd # "append"
  <2>1. after' = <<Head(queue)>> /\ Head(queue) \in {Prune, Flush} /\ batch' = batch
    BY <1>2, <1>6 DEF Receive
  <2>2. after' \in {<< >>, <<Prune>>, <<Flush>>}
    BY <2>1
  <2>3. phase' = "collected"
    BY <1>6 DEF Receive, Thread
  <2> QED
    BY <1>2, <1>4, <2>1, <2>2, <2>3 DEF Typed, Receive, Thread, lost, Phases
<1> QED
  BY <1>5, <1>6
\* The records of a batch: its entries in their order, and perhaps a report behind them.
LEMMA BatchIs ==
    ASSUME Typed, NEW b, b = BatchEntries
    PROVE  /\ b \in Seq(Records) /\ Len(b) \in Nat /\ Len(batch) \in Nat /\ Len(batch) <= Len(b)
           /\ \A i \in 1 .. Len(batch) : b[i] = Entry(batch[i].call)
           /\ \A i \in Len(batch) + 1 .. Len(b) : b[i] = EventsLost(reporting)
<1>1. batch \in Seq(Entering) /\ reporting \in Nat
  BY DEF Typed
<1>2. Len(batch) \in Nat /\ DOMAIN batch = 1 .. Len(batch) /\ \A i \in 1 .. Len(batch) : batch[i].call \in Calls
  BY <1>1, LenProperties, ElementOfSeq, CommandTypes
<1>3. PICK a : a = [i \in DOMAIN batch |-> Entry(batch[i].call)]
  OBVIOUS
<1>4. PICK c : c = IF reporting > 0 THEN <<EventsLost(reporting)>> ELSE << >>
  OBVIOUS
<1>5. /\ a \in Seq(Records) /\ Len(a) = Len(batch)
      /\ \A i \in 1 .. Len(batch) : a[i] = Entry(batch[i].call)
  <2>1. \A i \in 1 .. Len(batch) : Entry(batch[i].call) \in Records
    BY <1>2 DEF Entry, Records
  <2>2. a \in [1 .. Len(batch) -> Records]
    BY <1>2, <1>3, <2>1
  <2>3. a \in Seq(Records)
    BY <1>2, <2>2, SeqDef
  <2>4. Len(a) = Len(batch)
    BY <1>2, <2>2, <2>3, LenProperties
  <2> QED
    BY <1>2, <1>3, <2>3, <2>4
<1>6. /\ c \in Seq(Records) /\ Len(c) \in 0 .. 1
      /\ \A i \in 1 .. Len(c) : c[i] = EventsLost(reporting)
  <2>1. EventsLost(reporting) \in Records
    BY <1>1 DEF EventsLost, Records
  <2>2. CASE reporting > 0
    <3>1. c = <<EventsLost(reporting)>>
      BY <1>4, <2>2
    <3>2. c \in Seq(Records) /\ Len(c) = 1 /\ c[1] = EventsLost(reporting)
      BY <2>1, <3>1
    <3> QED
      BY <3>2
  <2>3. CASE ~(reporting > 0)
    <3>1. c = << >>
      BY <1>4, <2>3
    <3> QED
      BY <3>1, EmptySeq
  <2> QED
    BY <2>2, <2>3
<1>7. b = a \o c
  BY <1>3, <1>4 DEF BatchEntries
<1>8. /\ b \in Seq(Records) /\ Len(b) = Len(batch) + Len(c)
      /\ \A i \in 1 .. Len(batch) + Len(c) : b[i] = IF i <= Len(batch) THEN a[i] ELSE c[i - Len(batch)]
  BY <1>5, <1>6, <1>7, ConcatProperties
<1>9. \A i \in 1 .. Len(batch) : b[i] = Entry(batch[i].call)
  BY <1>2, <1>5, <1>6, <1>8
<1>10. ASSUME NEW i \in Len(batch) + 1 .. Len(b)
       PROVE  b[i] = EventsLost(reporting)
  <2>1. i - Len(batch) \in 1 .. Len(c) /\ i \in 1 .. Len(batch) + Len(c) /\ ~(i <= Len(batch))
    BY <1>2, <1>6, <1>8, <1>10
  <2> QED
    BY <1>6, <1>8, <2>1
<1>11. Len(b) \in Nat /\ Len(batch) <= Len(b)
  BY <1>2, <1>6, <1>8
<1> QED
  BY <1>2, <1>8, <1>9, <1>10, <1>11

\* The callers that wait for this batch are told; a number they are told is that of their record.
LEMMA ToldIs ==
    ASSUME Typed, WrittenOK, NEW to \in {"acked", "nacked"}, to = "acked" => phase = "ok",
           NEW t, t = Told(to, Numbers)
    PROVE  /\ t \in [Calls -> [st : States, seq : Nat]]
           /\ \A e \in Calls :
                IF e \in Acked(batch) /\ call[e].st = "waiting"
                THEN /\ t[e].st = to
                     /\ to = "acked" => t[e].seq \in DOMAIN trail /\ trail[t[e].seq] = Entry(e)
                ELSE t[e] = call[e]
<1>0. /\ trail \in Seq(Records) /\ batch \in Seq(Entering) /\ Len(trail) \in Nat /\ Len(batch) \in Nat
      /\ DOMAIN batch = 1 .. Len(batch) /\ DOMAIN trail = 1 .. Len(trail)
      /\ call \in [Calls -> [st : States, seq : Nat]]
  BY LenProperties DEF Typed
<1>1. PICK n : n = Numbers
  OBVIOUS
<1>2. ASSUME to = "acked", NEW e \in Acked(batch)
      PROVE  n[e] \in DOMAIN trail /\ trail[n[e]] = Entry(e) /\ n[e] \in Nat
  <2>1. PICK b, k : b = BatchEntries /\ k = Len(trail) - Len(b)
    OBVIOUS
  <2>2. Len(b) \in Nat /\ Len(batch) <= Len(b) /\ k \in Nat
    BY <1>0, <1>2, <2>1, BatchIs DEF WrittenOK
  <2>3. e \in Entries(batch) /\ \E i \in DOMAIN batch : batch[i].call = e
    BY <1>2 DEF Entries, Acked, Commands
  <2>4. PICK i : i = CHOOSE j \in DOMAIN batch : batch[j].call = e
    OBVIOUS
  <2>5. i \in 1 .. Len(batch) /\ batch[i].call = e
    BY <1>0, <2>3, <2>4
  <2>6. n[e] = k + i
    BY <1>1, <2>1, <2>3, <2>4 DEF Numbers
  <2>7. trail[k + i] = Entry(e)
    BY <1>0, <1>2, <2>1, <2>5 DEF WrittenOK
  <2>8. k + i \in 1 .. Len(trail)
    BY <1>0, <2>1, <2>2, <2>5
  <2> QED
    BY <1>0, <2>6, <2>7, <2>8
<1>3. ASSUME NEW e \in Calls
      PROVE  /\ t[e] \in [st : States, seq : Nat]
             /\ IF e \in Acked(batch) /\ call[e].st = "waiting"
                THEN /\ t[e].st = to
                     /\ to = "acked" => t[e].seq \in DOMAIN trail /\ trail[t[e].seq] = Entry(e)
                ELSE t[e] = call[e]
  <2>1. CASE e \in Acked(batch) /\ call[e].st = "waiting"
    <3>1. PICK k : k = IF to = "acked" THEN n[e] ELSE 0
      OBVIOUS
    <3>2. t[e] = [st |-> to, seq |-> k]
      BY <1>1, <2>1, <3>1 DEF Told
    <3>3. k \in Nat /\ (to = "acked" => k \in DOMAIN trail /\ trail[k] = Entry(e))
      BY <1>2, <2>1, <3>1
    <3>4. to \in States
      BY DEF States, Pending
    <3> QED
      BY <2>1, <3>2, <3>3, <3>4
  <2>2. CASE ~(e \in Acked(batch) /\ call[e].st = "waiting")
    BY <1>0, <2>2 DEF Told
  <2> QED
    BY <2>1, <2>2
<1>4. DOMAIN t = Calls /\ t = [e \in Calls |-> t[e]]
  BY DEF Told
<1> QED
  BY <1>3, <1>4
\* Steps of the writer thread that write nothing and answer nobody.
LEMMA QuietTyped ==
    ASSUME Typed, Collected \/ Begin \/ AppendFailed \/ Reopen
    PROVE  Typed'
<1>1. panicked' \in BOOLEAN
  BY Zenon DEF Collected, Begin, AppendFailed, Reopen, Thread
<1>2. CASE Collected \/ AppendFailed
  BY <1>1, <1>2 DEF Typed, Collected, AppendFailed, Thread, lost, Phases
<1>3. CASE Begin
  <2>1. batch \in Seq(Command)
    BY CommandTypes, SeqMonotonic DEF Typed
  <2>2. Unacked(batch) \in Nat
    BY <2>1, EntriesFinite
  <2> QED
    BY <1>1, <1>3, <2>2 DEF Typed, Begin, Thread, Phases
<1>4. CASE Reopen
  <2>1. restarts' \in 0 .. MaxRestarts
    BY <1>4 DEF Reopen, Typed
  <2>2. count' \in Nat /\ in_flight' \in Nat
    BY <1>4 DEF Reopen, Typed
  <2> QED
    BY <1>1, <1>4, <2>1, <2>2 DEF Typed, Reopen, Thread, Phases
<1> QED
  BY <1>2, <1>3, <1>4

LEMMA AppendOkTyped ==
    ASSUME Typed, AppendOk
    PROVE  Typed'
<1>1. panicked' \in BOOLEAN
  BY Zenon DEF AppendOk, Thread
<1>2. PICK b : b = BatchEntries
  OBVIOUS
<1>3. trail' \in Seq(Records)
  BY <1>2, BatchIs, ConcatProperties DEF Typed, AppendOk
<1>4. reported' \in Nat
  BY DEF Typed, AppendOk
<1> QED
  BY <1>1, <1>3, <1>4 DEF Typed, AppendOk, Thread, lost, Phases

LEMMA SaveTyped ==
    ASSUME Typed, NEW now \in Nat, save_locked(now)
    PROVE  saved' \in Nat /\ file' \in Nat /\ known' \in Nat
<1>1. CASE UNCHANGED <<saved, file, known>>
  BY <1>1 DEF Typed
<1>2. CASE saved' = now /\ file' = now /\ known' = IF reported + now > known THEN reported + now ELSE known
  BY <1>2 DEF Typed
<1> QED
  BY <1>1, <1>2 DEF save_locked

LEMMA FinishTyped ==
    ASSUME Typed, WrittenOK, FinishOk \/ FinishFailed
    PROVE  Typed'
<1>0. batch \in Seq(Command) /\ Unacked(batch) \in Nat
  BY CommandTypes, SeqMonotonic, EntriesFinite DEF Typed
<1>1. PICK from \in {"ok", "failed"}, to \in {"acked", "nacked"}, now \in Nat :
        Finish(from, to, now) /\ (to = "acked" => from = "ok")
  <2>1. count + reporting + Unacked(batch) \in Nat /\ count \in Nat
    BY <1>0 DEF Typed
  <2>2. CASE FinishOk
    BY <2>1, <2>2 DEF FinishOk
  <2>3. CASE FinishFailed
    BY <2>1, <2>3 DEF FinishFailed
  <2> QED
    BY <2>2, <2>3
<1>2. panicked' \in BOOLEAN
  BY <1>1, Zenon DEF Finish, Thread
<1>3. call' \in [Calls -> [st : States, seq : Nat]]
  BY <1>1, ToldIs DEF Finish, Thread
<1>4. saved' \in Nat /\ file' \in Nat /\ known' \in Nat
  BY <1>1, SaveTyped DEF Finish
<1>5. batch' \in Seq(Entering) /\ Len(batch') <= MaxBatch
  BY <1>1, EmptySeq DEF Finish
<1> QED
  BY <1>1, <1>2, <1>3, <1>4, <1>5 DEF Typed, Finish, Thread, Phases

LEMMA AnswerTyped ==
    ASSUME Typed, NEW status \in {"asleep", "ended"}, Answered(status)
    PROVE  /\ retention' \in {"asleep", "waiting", "ended"} /\ flush' \in {"idle", "waiting", "done"}
           /\ after' \in {<< >>, <<Prune>>, <<Flush>>}
BY DEF Typed, Answered

LEMMA AfterTyped ==
    ASSUME Typed, After
    PROVE  Typed'
<1>1. panicked' \in BOOLEAN
  BY Zenon DEF After, Thread
<1>2. /\ retention' \in {"asleep", "waiting", "ended"} /\ flush' \in {"idle", "waiting", "done"}
      /\ after' \in {<< >>, <<Prune>>, <<Flush>>}
  BY AnswerTyped DEF After
<1> QED
  BY <1>1, <1>2 DEF Typed, After, Thread, lost, Phases

LEMMA PanicTyped ==
    ASSUME Typed, WrittenOK, Panic
    PROVE  Typed'
<1>1. panicked' \in BOOLEAN
  BY Zenon DEF Panic, Thread
<1>2. /\ retention' \in {"asleep", "waiting", "ended"} /\ flush' \in {"idle", "waiting", "done"}
      /\ after' \in {<< >>, <<Prune>>, <<Flush>>}
  BY AnswerTyped DEF Panic
<1>3. call' \in [Calls -> [st : States, seq : Nat]]
  BY ToldIs DEF Panic
<1>4. batch' \in Seq(Entering) /\ Len(batch') <= MaxBatch
  BY EmptySeq DEF Panic
<1> QED
  BY <1>1, <1>2, <1>3, <1>4 DEF Typed, Panic, Thread, lost, Phases

LEMMA EndTyped ==
    ASSUME Typed, End, crashes < MaxCrashes
    PROVE  Typed'
<1>1. call' \in [Calls -> [st : States, seq : Nat]]
  <2>1. ASSUME NEW e \in Calls
        PROVE  call'[e] \in [st : States, seq : Nat]
    <3>1. call[e] \in [st : States, seq : Nat] /\ "cut" \in States
      BY DEF Typed, States, Final
    <3>2. [call[e] EXCEPT !.st = "cut"] \in [st : States, seq : Nat]
      BY <3>1
    <3> QED
      BY <3>1, <3>2 DEF End
  <2> QED
    BY <2>1 DEF End
<1>2. /\ queue' \in Seq(Command) /\ Len(queue') <= Capacity
      /\ batch' \in Seq(Entering) /\ Len(batch') <= MaxBatch
  BY EmptySeq DEF End
<1>3. crashes' \in 0 .. MaxCrashes /\ restarts' \in 0 .. MaxRestarts
  <2>1. crashes' = crashes + 1 /\ restarts' = 0
    BY DEF End
  <2>2. crashes \in 0 .. MaxCrashes /\ restarts \in 0 .. MaxRestarts
    BY DEF Typed
  <2>3. MaxCrashes \in Nat /\ MaxRestarts \in Nat
    BY WriterAssumption DEF WriterAssumption
  <2> QED
    BY ONLY <2>1, <2>2, <2>3, crashes < MaxCrashes
<1> QED
  BY <1>1, <1>2, <1>3 DEF Typed, End, Phases

LEMMA OthersTyped ==
    ASSUME Typed,
           \/ FlushSent \/ run_retention \/ (\E closed \in FailModes : apply(closed))
           \/ save \/ start
    PROVE  Typed'
<1>1. CASE FlushSent
  <2>1. queue' \in Seq(Command) /\ Len(queue') <= Capacity
    BY <1>1, QueueGrows, CommandTypes DEF FlushSent
  <2> QED
    BY <1>1, <2>1 DEF Typed, FlushSent, thread, lost
<1>2. CASE run_retention
  <2>1. queue' \in Seq(Command) /\ Len(queue') <= Capacity
    BY <1>2, QueueGrows, CommandTypes DEF run_retention
  <2> QED
    BY <1>2, <2>1 DEF Typed, run_retention, thread, lost
<1>3. CASE \E closed \in FailModes : apply(closed)
  BY <1>3 DEF Typed, apply, thread, lost
<1>4. CASE save
  <2>1. saved' \in Nat /\ file' \in Nat /\ known' \in Nat
    BY <1>4, SaveTyped DEF save, Typed
  <2> QED
    BY <1>4, <2>1 DEF Typed, save, thread, clients
<1>5. CASE start
  BY <1>5 DEF Typed, start, thread, clients
<1> QED
  BY <1>1, <1>2, <1>3, <1>4, <1>5

LEMMA NextTyped ==
    ASSUME Typed, WrittenOK, Next
    PROVE  Typed'
BY CallersTyped, ReceiveTyped, QuietTyped, AppendOkTyped, FinishTyped, AfterTyped, PanicTyped,
   EndTyped, OthersTyped DEF Next, WriterSteps, GiveUp, Crash
-------------------------------------------------------------------------------
\* What the writer thread holds
LEMMA NextPhases ==
    ASSUME Typed, PhaseOK, Next
    PROVE  PhaseOK'
<1>0. batch \in Seq(Command) /\ Unacked(batch) \in Nat /\ crashes \in Nat
  BY CommandTypes, SeqMonotonic, EntriesFinite DEF Typed
<1>1. ASSUME UNCHANGED <<up, thread, in_flight, crashes>>
      PROVE  PhaseOK'
  BY <1>1 DEF PhaseOK, Locked, thread
<1>2. ASSUME NEW e \in Calls, CallerSteps(e)
      PROVE  UNCHANGED <<up, thread, in_flight, crashes>>
  <2>1. UNCHANGED <<up, thread, crashes>>
    BY <1>2 DEF CallerSteps, record, Offered, QueueWaitOver, record_committed, Sent, Committed,
         NotCommitted, Cancel, Caller
  <2>2. in_flight' = in_flight
    BY <1>2 DEF lost, CallerSteps, record, Offered, QueueWaitOver, record_committed, Sent, Committed,
         NotCommitted, Cancel
  <2> QED
    BY <2>1, <2>2
<1>3. CASE FlushSent \/ run_retention \/ (\E closed \in FailModes : apply(closed)) \/ save
  <2>1. UNCHANGED <<up, thread, in_flight, crashes>>
    BY <1>3 DEF FlushSent, run_retention, apply, save, lost
  <2> QED
    BY <1>1, <2>1
<1>4. CASE Receive
  <2>1. phase \in {"recv", "collect"} /\ phase' \in {"collect", "collected"}
    BY <1>4 DEF Receive, Thread
  <2> QED
    BY <1>4, <2>1 DEF PhaseOK, Locked, Receive, Thread, lost
<1>5. CASE Collected
  BY <1>5 DEF PhaseOK, Locked, Collected, Thread, lost
<1>6. CASE Begin
  BY <1>6 DEF PhaseOK, Locked, Begin, Thread
<1>7. CASE AppendOk \/ AppendFailed
  BY <1>7 DEF PhaseOK, Locked, AppendOk, AppendFailed, Thread, lost
<1>8. CASE FinishOk \/ FinishFailed
  <2>1. /\ phase' = "after" /\ batch' = << >> /\ reporting' = 0 /\ in_flight' = 0
        /\ up' = up /\ crashes' = crashes
    BY <1>8 DEF FinishOk, FinishFailed, Finish, Thread
  <2> QED
    BY <2>1 DEF PhaseOK, Locked
<1>9. CASE After
  <2>1. phase \in {"after", "collected"} /\ batch = << >> /\ phase' = "recv"
    BY <1>9 DEF After, Thread, PhaseOK
  <2> QED
    BY <1>9, <2>1 DEF PhaseOK, Locked, After, Thread, lost
<1>10. CASE Panic
  BY <1>10 DEF PhaseOK, Locked, Panic, Thread
<1>11. CASE Reopen
  BY <1>11 DEF PhaseOK, Locked, Reopen, Thread
<1>12. CASE GiveUp \/ Crash
  <2>1. End
    BY <1>12 DEF GiveUp, Crash
  <2>2. crashes' # 0
    BY <1>0, <2>1 DEF End
  <2> QED
    BY <2>1, <2>2 DEF PhaseOK, Locked, End
<1>13. CASE start
  BY <1>13 DEF PhaseOK, Locked, start, thread
<1> QED
  BY <1>1, <1>2, <1>3, <1>4, <1>5, <1>6, <1>7, <1>8, <1>9, <1>10, <1>11, <1>12, <1>13
     DEF Next, WriterSteps

\* Held entries belong to calls that were sent.
LEMMA HeldSent ==
    ASSUME Typed, HeldOK
    PROVE  NotSent \cap Held = {} /\ Held \subseteq Calls
<1>1. batch \in Seq(Command) /\ queue \in Seq(Command)
  BY CommandTypes, SeqMonotonic DEF Typed
<1>2. Held \subseteq Calls
  BY <1>1, EntriesFinite DEF Held
<1>3. ASSUME NEW e \in Held
      PROVE  e \notin NotSent
  <2>1. PICK c \in Commands(queue) \cup Commands(batch) : c.cmd = "append" /\ c.call = e
    BY DEF Held, Entries
  <2>2. call[e].st \in {"waiting", "dropped", "returned"}
    BY <2>1 DEF HeldOK, WaitsFor
  <2> QED
    BY <2>2 DEF NotSent
<1> QED
  BY <1>2, <1>3

\* Nothing is taken from or put on the way.
LEMMA HeldFrame ==
    ASSUME Typed, HeldOK, UNCHANGED <<queue, batch, trail>>, phase = "ok" => phase' = "ok",
           \A e \in Calls : e \in NotSent' => e \in NotSent,
           \A c \in Commands(queue) \cup Commands(batch) : WaitsFor(c)'
    PROVE  HeldOK'
<1>1. /\ Commands(queue)' = Commands(queue) /\ Commands(batch)' = Commands(batch)
      /\ Entries(queue)' = Entries(queue) /\ Entries(batch)' = Entries(batch)
  OBVIOUS
<1>2. (\A c \in Commands(queue) \cup Commands(batch) : WaitsFor(c))'
  BY <1>1 DEF WaitsFor
<1>3. \A e \in NotSent' \cup Entries(queue) : ~Stored(e)'
  <2>1. \A e : Stored(e)' <=> Stored(e)
    BY DEF Stored
  <2>2. NotSent' \subseteq NotSent
    BY DEF NotSent
  <2> QED
    BY <2>1, <2>2 DEF HeldOK
<1>4. phase' # "ok" => \A e \in Entries(batch) : ~Stored(e)'
  BY DEF HeldOK, Stored
<1>5. (\A i, j \in DOMAIN queue :
         (i # j /\ queue[i].cmd = "append" /\ queue[j].cmd = "append") => queue[i].call # queue[j].call)'
  BY DEF HeldOK
<1>6. (Entries(queue) \cap Entries(batch) = {})'
  BY <1>1 DEF HeldOK
<1>7. (\A e \in NotSent \cup Entries(queue) : ~Stored(e))'
  BY <1>1, <1>3
<1>8. (phase # "ok" => \A e \in Entries(batch) : ~Stored(e))'
  BY <1>1, <1>4
<1> QED
  BY <1>2, <1>5, <1>6, <1>7, <1>8 DEF HeldOK

\* A call is sent: its entry is the last of the queue.
LEMMA EnterKeeps ==
    ASSUME Typed, HeldOK, NEW e \in NotSent, NEW ack \in BOOLEAN,
           queue' = Append(queue, Append1(e, ack)),
           call' = [call EXCEPT ![e].st = IF ack THEN "waiting" ELSE "returned"],
           UNCHANGED <<batch, trail, phase>>
    PROVE  HeldOK'
<1>0. e \in Calls /\ queue \in Seq(Command) /\ Len(queue) \in Nat /\ DOMAIN queue = 1 .. Len(queue)
      /\ call \in [Calls -> [st : States, seq : Nat]]
  BY LenProperties DEF NotSent, Typed
<1>1. PICK c : c = Append1(e, ack)
  OBVIOUS
<1>2. c \in Command /\ c.cmd = "append" /\ c.call = e /\ c.ack = ack
  BY <1>0, <1>1, CommandTypes
<1>3. /\ DOMAIN queue' = 1 .. Len(queue) + 1 /\ queue'[Len(queue) + 1] = c
      /\ \A i \in 1 .. Len(queue) : queue'[i] = queue[i]
      /\ Commands(queue') = Commands(queue) \cup {c}
  <2>1. queue' = Append(queue, c)
    BY <1>1
  <2> QED
    BY <1>0, <1>2, <2>1, QueueGets
<1>4. Entries(queue') = Entries(queue) \cup {e}
  <2>1. Commands(queue') = Commands(queue) \cup {c} /\ c.cmd = "append" /\ c.call = e
    BY <1>2, <1>3
  <2> QED
    BY ONLY <2>1, EntriesGrow
<1>5. PICK to \in {"waiting", "returned"} : to = IF ack THEN "waiting" ELSE "returned"
  OBVIOUS
<1>6. call'[e].st = to /\ \A d \in Calls : d # e => call'[d] = call[d]
  <2>1. to \in States
    BY <1>5 DEF States, Pending, Final
  <2> QED
    BY <1>0, <1>5, <2>1, CallMoves
<1>7. e \notin Entries(queue) \cup Entries(batch) /\ Entries(queue) \cup Entries(batch) \subseteq Calls
  BY HeldSent DEF Held
<1>8. ASSUME NEW d \in Commands(queue') \cup Commands(batch')
      PROVE  WaitsFor(d)'
  <2>1. CASE d = c
    <3>0. d.call = e /\ d.ack = ack
      BY <1>2, <2>1
    <3>1. CASE ack = TRUE
      <4>1. call'[d.call].st = "waiting" /\ d.ack = TRUE
        BY <1>5, <1>6, <3>0, <3>1
      <4> QED
        BY <4>1 DEF WaitsFor
    <3>2. CASE ack = FALSE
      <4>1. call'[d.call].st = "returned" /\ d.ack = FALSE
        BY <1>5, <1>6, <3>0, <3>2
      <4> QED
        BY <4>1 DEF WaitsFor
    <3> QED
      BY <3>1, <3>2
  <2>2. CASE d \in Commands(queue) \cup Commands(batch) /\ d.cmd = "append"
    <3>1. d.call \in Entries(queue) \cup Entries(batch)
      BY <2>2 DEF Entries
    <3>2. call'[d.call] = call[d.call]
      BY <1>6, <1>7, <3>1
    <3> QED
      BY <2>2, <3>2 DEF WaitsFor, HeldOK
  <2>3. CASE d.cmd # "append"
    BY <2>3 DEF WaitsFor
  <2> QED
    BY <1>3, <2>1, <2>2, <2>3
<1>9. ASSUME NEW i \in DOMAIN queue', NEW j \in DOMAIN queue', i # j,
             queue'[i].cmd = "append", queue'[j].cmd = "append"
      PROVE  queue'[i].call # queue'[j].call
  <2>1. \A k \in 1 .. Len(queue) : queue[k].cmd = "append" => queue[k].call # e
    BY <1>0, <1>7 DEF Entries, Commands
  <2>2. CASE i \in 1 .. Len(queue) /\ j \in 1 .. Len(queue)
    BY <1>0, <1>3, <1>9, <2>2 DEF HeldOK
  <2>3. CASE i = Len(queue) + 1
    <3>1. j \in 1 .. Len(queue)
      BY <1>0, <1>3, <1>9, <2>3
    <3> QED
      BY <1>2, <1>3, <1>9, <2>1, <2>3, <3>1
  <2>4. CASE j = Len(queue) + 1
    <3>1. i \in 1 .. Len(queue)
      BY <1>0, <1>3, <1>9, <2>4
    <3> QED
      BY <1>2, <1>3, <1>9, <2>1, <2>4, <3>1
  <2> QED
    BY <1>0, <1>3, <2>2, <2>3, <2>4
<1>10. \A d : Stored(d)' <=> Stored(d)
  BY DEF Stored
<1>11. NotSent' \subseteq NotSent
  <2>1. ASSUME NEW d \in NotSent'
        PROVE  d \in NotSent
    BY <1>0, <1>5, <1>6 DEF NotSent
  <2> QED
    BY <2>1
<1>12. (\A d \in Commands(queue) \cup Commands(batch) : WaitsFor(d))'
  BY <1>8
<1>13. (\A d \in NotSent \cup Entries(queue) : ~Stored(d))'
  BY <1>4, <1>10, <1>11 DEF HeldOK
<1>14. (Entries(queue) \cap Entries(batch) = {})'
  BY <1>4, <1>7 DEF HeldOK
<1>15. (phase # "ok" => \A d \in Entries(batch) : ~Stored(d))'
  BY <1>10 DEF HeldOK
<1>16. (\A i, j \in DOMAIN queue :
         (i # j /\ queue[i].cmd = "append" /\ queue[j].cmd = "append") => queue[i].call # queue[j].call)'
  BY <1>9
<1> QED
  BY <1>12, <1>13, <1>14, <1>15, <1>16 DEF HeldOK
LEMMA QueueGives ==
    ASSUME Typed, queue # << >>, queue' = Tail(queue)
    PROVE  /\ Len(queue) \in Nat \ {0} /\ DOMAIN queue = 1 .. Len(queue)
           /\ DOMAIN queue' = 1 .. Len(queue) - 1
           /\ Head(queue) \in Command /\ Head(queue) = queue[1]
           /\ \A i \in 1 .. Len(queue) - 1 : queue'[i] = queue[i + 1]
           /\ Commands(queue) = {Head(queue)} \cup Commands(queue')
<1>1. queue \in Seq(Command)
  BY DEF Typed
<1>2. Len(queue) \in Nat \ {0} /\ DOMAIN queue = 1 .. Len(queue)
  BY <1>1, LenProperties, EmptySeq
<1>3. /\ queue' \in Seq(Command) /\ Len(queue') = Len(queue) - 1
      /\ Head(queue) \in Command /\ Head(queue) = queue[1]
      /\ \A i \in 1 .. Len(queue') : queue'[i] = queue[i + 1]
  BY <1>1, CommandsShrink
<1>4. DOMAIN queue' = 1 .. Len(queue) - 1
  BY <1>3, LenProperties
<1>5. ASSUME NEW x \in Commands(queue)
      PROVE  x \in {Head(queue)} \cup Commands(queue')
  <2>1. PICK i \in 1 .. Len(queue) : x = queue[i]
    BY <1>2 DEF Commands
  <2>2. CASE i = 1
    BY <1>3, <2>1, <2>2
  <2>3. CASE i # 1
    <3>1. i - 1 \in 1 .. Len(queue) - 1 /\ queue'[i - 1] = queue[(i - 1) + 1] /\ (i - 1) + 1 = i
      BY <1>2, <1>3, <2>1, <2>3
    <3> QED
      BY <1>4, <2>1, <3>1 DEF Commands
  <2> QED
    BY <2>2, <2>3
<1>6. ASSUME NEW x \in {Head(queue)} \cup Commands(queue')
      PROVE  x \in Commands(queue)
  <2>1. CASE x = Head(queue)
    BY <1>2, <1>3, <2>1 DEF Commands
  <2>2. CASE x \in Commands(queue')
    <3>1. PICK i \in 1 .. Len(queue) - 1 : x = queue'[i]
      BY <1>4, <2>2 DEF Commands
    <3>2. i + 1 \in 1 .. Len(queue) /\ x = queue[i + 1]
      BY <1>2, <1>3, <3>1
    <3> QED
      BY <1>2, <3>2 DEF Commands
  <2> QED
    BY <1>6, <2>1, <2>2
<1> QED
  BY <1>2, <1>3, <1>4, <1>5, <1>6

\* What a step of a caller does.
LEMMA CallerMoves ==
    ASSUME Typed, NEW e \in Calls, CallerSteps(e)
    PROVE  /\ UNCHANGED <<up, thread, trail, reported, flush, flushed, crashes, panicked>>
           /\ \/ /\ e \in NotSent
                 /\ \E ack \in BOOLEAN :
                      /\ queue' = Append(queue, Append1(e, ack))
                      /\ call' = [call EXCEPT ![e].st = IF ack THEN "waiting" ELSE "returned"]
                 /\ count' = count
              \/ /\ \E to \in States :
                      /\ call' = [call EXCEPT ![e].st = to]
                      /\ \/ call[e].st = "new" /\ to \in {"offering", "sending"}
                         \/ call[e].st = "acked" /\ to = "stored"
                         \/ call[e].st = "nacked" /\ to = "refused"
                         \/ call[e].st = "waiting" /\ to = "dropped"
                 /\ queue' = queue /\ count' = count
              \/ /\ call[e].st \in {"offering", "nacked"}
                 /\ call' = [call EXCEPT ![e].st = "lost"]
                 /\ queue' = queue /\ count' = count + 1
<1>0. {"returned", "offering", "lost", "sending", "waiting", "stored", "refused", "dropped"} \subseteq States
  BY DEF States, Pending, Final
<1>1. CASE record(e)
  <2>1. CASE Room
    BY <1>1, <2>1 DEF record, Caller, lost, NotSent
  <2>2. CASE ~Room
    BY <1>0, <1>1, <2>2 DEF record, Caller, lost
  <2> QED
    BY <2>1, <2>2
<1>2. CASE Offered(e)
  BY <1>2 DEF Offered, Caller, lost, NotSent
<1>3. CASE QueueWaitOver(e)
  BY <1>3 DEF QueueWaitOver, Caller
<1>4. CASE record_committed(e)
  BY <1>0, <1>4 DEF record_committed, Caller, lost
<1>5. CASE Sent(e)
  BY <1>5 DEF Sent, Caller, lost, NotSent
<1>6. CASE Committed(e)
  BY <1>0, <1>6 DEF Committed, Caller, lost
<1>7. CASE NotCommitted(e)
  <2>1. CASE fail_closed
    BY <1>0, <1>7, <2>1 DEF NotCommitted, Caller
  <2>2. CASE ~fail_closed
    BY <1>7, <2>2 DEF NotCommitted, Caller
  <2> QED
    BY <2>1, <2>2
<1>8. CASE Cancel(e)
  BY <1>0, <1>8 DEF Cancel, Caller, lost
<1> QED
  BY <1>1, <1>2, <1>3, <1>4, <1>5, <1>6, <1>7, <1>8 DEF CallerSteps

LEMMA CallersHeld ==
    ASSUME Typed, HeldOK, NEW e \in Calls, CallerSteps(e)
    PROVE  HeldOK'
<1>1. UNCHANGED <<batch, trail, phase>>
  BY CallerMoves DEF thread
<1>2. ASSUME e \in NotSent, NEW ack \in BOOLEAN, queue' = Append(queue, Append1(e, ack)),
             call' = [call EXCEPT ![e].st = IF ack THEN "waiting" ELSE "returned"]
      PROVE  HeldOK'
  BY <1>1, <1>2, EnterKeeps
<1>3. ASSUME queue' = queue, NEW to \in States, call' = [call EXCEPT ![e].st = to],
             \/ call[e].st = "new" /\ to \in {"offering", "sending"}
             \/ call[e].st \in {"acked", "nacked", "offering"} /\ to \in {"stored", "refused", "lost"}
             \/ call[e].st = "waiting" /\ to = "dropped"
      PROVE  HeldOK'
  <2>1. call'[e].st = to /\ \A d \in Calls : d # e => call'[d] = call[d]
    BY <1>3, CallMoves
  <2>2. \A d \in Calls : d \in NotSent' => d \in NotSent
    <3> TAKE d \in Calls
    <3>1. CASE d # e
      BY <2>1, <3>1 DEF NotSent
    <3>2. CASE d = e
      <4>1. CASE call[e].st = "new"
        BY <3>2, <4>1 DEF NotSent
      <4>2. CASE call[e].st # "new"
        <5>1. to \notin {"new", "offering", "sending"}
          BY <1>3, <4>2
        <5> QED
          BY <2>1, <3>2, <5>1 DEF NotSent
      <4> QED
        BY <4>1, <4>2
    <3> QED
      BY <3>1, <3>2
  <2>3. ASSUME NEW c \in Commands(queue) \cup Commands(batch)
        PROVE  WaitsFor(c)'
    <3>1. WaitsFor(c)
      BY DEF HeldOK
    <3>2. CASE c.cmd = "append" /\ c.call = e
      <4>1. call[e].st \in {"waiting", "dropped", "returned"}
        BY <3>1, <3>2 DEF WaitsFor
      <4>2. call[e].st = "waiting" /\ to = "dropped"
        BY <1>3, <4>1
      <4>3. c.ack
        BY <3>1, <3>2, <4>2 DEF WaitsFor
      <4> QED
        BY <2>1, <3>2, <4>2, <4>3 DEF WaitsFor
    <3>3. CASE c.cmd = "append" /\ c.call # e
      <4>1. c.call \in Calls
        <5>1. c.call \in Held
          BY <3>3 DEF Held, Entries
        <5> QED
          BY <5>1, HeldSent
      <4> QED
        BY <2>1, <3>1, <3>3, <4>1 DEF WaitsFor
    <3>4. CASE c.cmd # "append"
      BY <3>4 DEF WaitsFor
    <3> QED
      BY <3>2, <3>3, <3>4
  <2> QED
    BY <1>1, <1>3, <2>2, <2>3, HeldFrame
<1>4. "lost" \in States
  BY DEF States, Final
<1> QED
  BY <1>2, <1>3, <1>4, CallerMoves

\* A command that is not an entry joins the queue.
LEMMA ControlKeeps ==
    ASSUME Typed, HeldOK, NEW c \in {Prune, Flush}, queue' = Append(queue, c),
           UNCHANGED <<batch, trail, phase, call>>
    PROVE  HeldOK'
<1>0. queue \in Seq(Command) /\ Len(queue) \in Nat /\ DOMAIN queue = 1 .. Len(queue)
  BY LenProperties DEF Typed
<1>1. c \in Command /\ c.cmd # "append"
  BY CommandTypes
<1>2. /\ DOMAIN queue' = 1 .. Len(queue) + 1 /\ queue'[Len(queue) + 1] = c
      /\ \A i \in 1 .. Len(queue) : queue'[i] = queue[i]
      /\ Commands(queue') = Commands(queue) \cup {c}
  BY <1>0, <1>1, QueueGets
<1>3. Entries(queue') = Entries(queue)
  BY <1>1, <1>2, EntriesGrow
<1>4. (\A d \in Commands(queue) \cup Commands(batch) : WaitsFor(d))'
  BY <1>1, <1>2 DEF HeldOK, WaitsFor
<1>5. (\A i, j \in DOMAIN queue :
         (i # j /\ queue[i].cmd = "append" /\ queue[j].cmd = "append") => queue[i].call # queue[j].call)'
  <2> SUFFICES ASSUME NEW i \in DOMAIN queue', NEW j \in DOMAIN queue', i # j,
                      queue'[i].cmd = "append", queue'[j].cmd = "append"
               PROVE  queue'[i].call # queue'[j].call
    OBVIOUS
  <2>1. i \in 1 .. Len(queue) /\ j \in 1 .. Len(queue)
    BY <1>0, <1>1, <1>2
  <2> QED
    BY <1>0, <1>2, <2>1 DEF HeldOK
<1>6. (Entries(queue) \cap Entries(batch) = {})'
  BY <1>3 DEF HeldOK
<1>7. NotSent' = NotSent /\ \A d : Stored(d)' <=> Stored(d)
  BY DEF NotSent, Stored
<1>8. (\A d \in NotSent \cup Entries(queue) : ~Stored(d))'
  BY <1>3, <1>7 DEF HeldOK
<1>9. (phase # "ok" => \A d \in Entries(batch) : ~Stored(d))'
  BY <1>7 DEF HeldOK
<1> QED
  BY <1>4, <1>5, <1>6, <1>8, <1>9 DEF HeldOK

\* The writer takes the first command of the queue.
LEMMA ReceiveHeld ==
    ASSUME Typed, HeldOK, Receive
    PROVE  HeldOK'
<1>1. /\ Len(queue) \in Nat \ {0} /\ DOMAIN queue = 1 .. Len(queue)
      /\ DOMAIN queue' = 1 .. Len(queue) - 1
      /\ Head(queue) \in Command /\ Head(queue) = queue[1]
      /\ \A i \in 1 .. Len(queue) - 1 : queue'[i] = queue[i + 1]
      /\ Commands(queue) = {Head(queue)} \cup Commands(queue')
  BY QueueGives DEF Receive
<1>2. PICK h : h = Head(queue)
  OBVIOUS
<1>3. UNCHANGED <<call, trail>> /\ phase # "ok" /\ phase' # "ok"
  BY DEF Receive, Thread
<1>4. IF h.cmd = "append" THEN Commands(batch') = Commands(batch) \cup {h} ELSE batch' = batch
  <2>1. CASE h.cmd = "append"
    <3>1. h \in Entering /\ batch' = Append(batch, h) /\ batch \in Seq(Entering)
      BY <1>1, <1>2, <2>1, CommandTypes DEF Receive, Typed
    <3> QED
      BY <2>1, <3>1, CommandsGrow DEF Commands
  <2>2. CASE h.cmd # "append"
    BY <1>2, <2>2 DEF Receive
  <2> QED
    BY <2>1, <2>2
<1>5. /\ h.cmd = "append" => /\ Entries(queue) = Entries(queue') \cup {h.call}
                             /\ Entries(batch') = Entries(batch) \cup {h.call}
      /\ h.cmd # "append" => /\ Entries(queue) = Entries(queue') /\ Entries(batch') = Entries(batch)
  <2>1. /\ h.cmd = "append" => Entries(queue) = Entries(queue') \cup {h.call}
        /\ h.cmd # "append" => Entries(queue) = Entries(queue')
    BY <1>1, <1>2 DEF Entries
  <2>2. h.cmd = "append" => Entries(batch') = Entries(batch) \cup {h.call}
    BY <1>4 DEF Entries
  <2>3. h.cmd # "append" => Entries(batch') = Entries(batch)
    BY <1>4
  <2> QED
    BY <2>1, <2>2, <2>3
<1>6. h.cmd = "append" => h.call \notin Entries(queue')
  <2> SUFFICES ASSUME h.cmd = "append", h.call \in Entries(queue') PROVE FALSE
    OBVIOUS
  <2>1. PICK i \in 1 .. Len(queue) - 1 : queue'[i].cmd = "append" /\ queue'[i].call = h.call
    BY <1>1 DEF Entries, Commands
  <2>2. i + 1 \in DOMAIN queue /\ 1 \in DOMAIN queue /\ i + 1 # 1 /\ queue[i + 1] = queue'[i]
    BY <1>1, <2>1
  <2> QED
    BY <1>1, <1>2, <2>1, <2>2 DEF HeldOK
<1>7. (\A d \in Commands(queue) \cup Commands(batch) : WaitsFor(d))'
  <2>1. \A d \in Commands(queue') \cup Commands(batch') : d \in Commands(queue) \cup Commands(batch)
    BY <1>1, <1>2, <1>4
  <2>2. \A d : WaitsFor(d)' <=> WaitsFor(d)
    BY <1>3 DEF WaitsFor
  <2> QED
    BY <2>1, <2>2 DEF HeldOK
<1>8. (\A i, j \in DOMAIN queue :
         (i # j /\ queue[i].cmd = "append" /\ queue[j].cmd = "append") => queue[i].call # queue[j].call)'
  <2> SUFFICES ASSUME NEW i \in DOMAIN queue', NEW j \in DOMAIN queue', i # j,
                      queue'[i].cmd = "append", queue'[j].cmd = "append"
               PROVE  queue'[i].call # queue'[j].call
    OBVIOUS
  <2>1. /\ i + 1 \in DOMAIN queue /\ j + 1 \in DOMAIN queue /\ i + 1 # j + 1
        /\ queue[i + 1] = queue'[i] /\ queue[j + 1] = queue'[j]
    BY <1>1
  <2> QED
    BY <2>1 DEF HeldOK
<1>9. (Entries(queue) \cap Entries(batch) = {})'
  BY <1>5, <1>6 DEF HeldOK
<1>10. NotSent' = NotSent /\ \A d : Stored(d)' <=> Stored(d)
  BY <1>3 DEF NotSent, Stored
<1>11. (\A d \in NotSent \cup Entries(queue) : ~Stored(d))'
  BY <1>5, <1>10 DEF HeldOK
<1>12. (phase # "ok" => \A d \in Entries(batch) : ~Stored(d))'
  BY <1>3, <1>5, <1>10 DEF HeldOK
<1> QED
  BY <1>7, <1>8, <1>9, <1>11, <1>12 DEF HeldOK
\* The batch is stored: its entries, and no others, are new in the trail.
LEMMA AppendStores ==
    ASSUME Typed, AppendOk
    PROVE  /\ \A e \in Calls : Stored(e)' <=> (Stored(e) \/ e \in Entries(batch))
           /\ WrittenOK'
           /\ \A i \in DOMAIN trail : i \in DOMAIN trail' /\ trail'[i] = trail[i]
<1>1. PICK b : b = BatchEntries
  OBVIOUS
<1>2. /\ b \in Seq(Records) /\ Len(b) \in Nat /\ Len(batch) \in Nat /\ Len(batch) <= Len(b)
      /\ \A i \in 1 .. Len(batch) : b[i] = Entry(batch[i].call)
      /\ \A i \in Len(batch) + 1 .. Len(b) : b[i] = EventsLost(reporting)
  BY <1>1, BatchIs
<1>3. /\ trail \in Seq(Records) /\ Len(trail) \in Nat /\ DOMAIN trail = 1 .. Len(trail)
      /\ batch \in Seq(Entering) /\ DOMAIN batch = 1 .. Len(batch)
  BY LenProperties DEF Typed
<1>4. trail' = trail \o b /\ batch' = batch /\ reporting' = reporting
  BY <1>1 DEF AppendOk
<1>5. /\ trail' \in Seq(Records) /\ Len(trail') = Len(trail) + Len(b)
      /\ \A i \in 1 .. Len(trail) + Len(b) :
           trail'[i] = IF i <= Len(trail) THEN trail[i] ELSE b[i - Len(trail)]
  BY <1>2, <1>3, <1>4, ConcatProperties
<1>6. DOMAIN trail' = 1 .. Len(trail) + Len(b)
  BY <1>5, LenProperties
<1>7. \A i \in 1 .. Len(trail) : i \in 1 .. Len(trail) + Len(b) /\ trail'[i] = trail[i]
  BY <1>2, <1>3, <1>5
<1>8. \A i \in 1 .. Len(batch) :
        Len(trail) + i \in 1 .. Len(trail) + Len(b) /\ trail'[Len(trail) + i] = Entry(batch[i].call)
  <2> TAKE i \in 1 .. Len(batch)
  <2>1. /\ Len(trail) + i \in 1 .. Len(trail) + Len(b) /\ ~(Len(trail) + i <= Len(trail))
        /\ (Len(trail) + i) - Len(trail) = i
    BY <1>2, <1>3
  <2> QED
    BY <1>2, <1>5, <2>1
<1>9. ASSUME NEW e \in Calls
      PROVE  Stored(e)' <=> (Stored(e) \/ e \in Entries(batch))
  <2>1. ASSUME Stored(e) PROVE Stored(e)'
    <3>1. PICK i \in 1 .. Len(trail) : trail[i] = Entry(e)
      BY <1>3, <2>1 DEF Stored
    <3>2. i \in DOMAIN trail' /\ trail'[i] = Entry(e)
      BY <1>6, <1>7, <3>1
    <3> QED
      BY <3>2 DEF Stored, Entry
  <2>2. ASSUME e \in Entries(batch) PROVE Stored(e)'
    <3>1. PICK i \in 1 .. Len(batch) : batch[i].call = e
      BY <1>3, <2>2 DEF Entries, Commands
    <3>2. PICK k : k = Len(trail) + i
      OBVIOUS
    <3>3. k \in DOMAIN trail' /\ trail'[k] = Entry(e)
      BY <1>6, <1>8, <3>1, <3>2
    <3> QED
      BY <3>3 DEF Stored, Entry
  <2>3. ASSUME Stored(e)', ~Stored(e) PROVE e \in Entries(batch)
    <3>1. PICK i \in DOMAIN trail' : trail'[i] = Entry(e)
      BY <2>3 DEF Stored, Entry
    <3>2. i \in 1 .. Len(trail) + Len(b) /\ ~(i \in 1 .. Len(trail))
      BY <1>3, <1>6, <1>7, <2>3, <3>1 DEF Stored
    <3>3. PICK k : k = i - Len(trail)
      OBVIOUS
    <3>4. k \in 1 .. Len(b) /\ trail'[i] = b[k]
      BY <1>2, <1>3, <1>5, <3>2, <3>3
    <3>5. Entry(e) # EventsLost(reporting)
      BY DEF Entry, EventsLost
    <3>6. k \in 1 .. Len(batch)
      BY <1>2, <3>1, <3>4, <3>5
    <3>7. Entry(e) = Entry(batch[k].call)
      BY <1>2, <3>1, <3>4, <3>6
    <3>8. e = batch[k].call
      BY <3>7 DEF Entry
    <3>9. batch[k].cmd = "append" /\ batch[k] \in Commands(batch)
      BY <1>3, <3>6, CommandTypes, ElementOfSeq DEF Commands
    <3> QED
      BY <3>8, <3>9 DEF Entries
  <2> QED
    BY <2>1, <2>2, <2>3
<1>10. WrittenOK'
  <2>1. BatchEntries' = b
    BY <1>1, <1>4 DEF BatchEntries
  <2>2. Len(trail') - Len(b) = Len(trail) /\ Len(trail') >= Len(b)
    BY <1>2, <1>3, <1>5
  <2> QED
    BY <1>3, <1>4, <1>8, <2>1, <2>2 DEF WrittenOK, Entry
<1> QED
  BY <1>3, <1>6, <1>7, <1>9, <1>10

LEMMA AppendOkHeld ==
    ASSUME Typed, HeldOK, AppendOk
    PROVE  HeldOK'
<1>1. UNCHANGED <<queue, batch, call>> /\ phase' = "ok"
  BY DEF AppendOk, Thread
<1>2. NotSent \cap Held = {} /\ Held \subseteq Calls /\ NotSent \subseteq Calls
  BY HeldSent DEF NotSent
<1>3. \A e \in NotSent \cup Entries(queue) : ~Stored(e)'
  BY <1>2, AppendStores DEF HeldOK, Held
<1>4. NotSent' = NotSent
  BY <1>1 DEF NotSent
<1>5. (\A e \in NotSent \cup Entries(queue) : ~Stored(e))'
  BY <1>1, <1>3, <1>4
<1>6. (\A c \in Commands(queue) \cup Commands(batch) : WaitsFor(c))'
  BY <1>1 DEF HeldOK, WaitsFor
<1> QED
  BY <1>1, <1>5, <1>6 DEF HeldOK

\* The batch is given up; of the calls, only those that wait for it are told.
LEMMA BatchOver ==
    ASSUME Typed, WrittenOK, HeldOK, batch' = << >>, UNCHANGED <<queue, trail>>,
           \A e \in Calls :
              IF e \in Acked(batch) /\ call[e].st = "waiting"
              THEN call'[e].st \in {"acked", "nacked"} ELSE call'[e] = call[e]
    PROVE  HeldOK'
<1>1. Commands(batch') = {} /\ Entries(batch') = {}
  BY NothingHeld
<1>2. batch \in Seq(Command)
  BY CommandTypes, SeqMonotonic DEF Typed
<1>3. Acked(batch) \subseteq Entries(batch)
  BY <1>2, EntriesFinite
<1>4. ASSUME NEW c \in Commands(queue)
      PROVE  WaitsFor(c)'
  <2>1. CASE c.cmd = "append"
    <3>1. c.call \in Entries(queue)
      BY <2>1 DEF Entries
    <3>2. c.call \in Calls /\ c.call \notin Acked(batch)
      BY <1>3, <3>1, HeldSent DEF Held, HeldOK
    <3> QED
      BY <3>2 DEF HeldOK, WaitsFor
  <2>2. CASE c.cmd # "append"
    BY <2>2 DEF WaitsFor
  <2> QED
    BY <2>1, <2>2
<1>5. (\A c \in Commands(queue) \cup Commands(batch) : WaitsFor(c))'
  BY <1>1, <1>4
<1>6. NotSent' \subseteq NotSent
  <2>1. ASSUME NEW e \in NotSent'
        PROVE  e \in NotSent
    BY DEF NotSent
  <2> QED
    BY <2>1
<1>7. \A e : Stored(e)' <=> Stored(e)
  BY DEF Stored
<1>8. (\A e \in NotSent \cup Entries(queue) : ~Stored(e))'
  BY <1>6, <1>7 DEF HeldOK
<1>9. (phase # "ok" => \A e \in Entries(batch) : ~Stored(e))'
  BY <1>1
<1>10. (Entries(queue) \cap Entries(batch) = {})'
  BY <1>1
<1> QED
  BY <1>5, <1>8, <1>9, <1>10 DEF HeldOK

\* How the writer lets go of a batch.
LEMMA Lets ==
    ASSUME Typed, WrittenOK, FinishOk \/ FinishFailed \/ Panic
    PROVE  /\ batch' = << >> /\ UNCHANGED <<queue, trail, flushed>>
           /\ \E to \in {"acked", "nacked"} :
                /\ to = "acked" <=> FinishOk
                /\ \A e \in Calls :
                     IF e \in Acked(batch) /\ call[e].st = "waiting"
                     THEN /\ call'[e].st = to
                          /\ to = "acked" => call'[e].seq \in DOMAIN trail /\ trail[call'[e].seq] = Entry(e)
                     ELSE call'[e] = call[e]
<1>1. batch' = << >> /\ UNCHANGED <<queue, trail, flushed>>
  BY DEF FinishOk, FinishFailed, Panic, Finish
<1>2. CASE FinishOk
  <2>1. phase = "ok" /\ call' = Told("acked", Numbers)
    BY <1>2 DEF FinishOk, Finish, Thread
  <2> QED
    BY <1>1, <1>2, <2>1, ToldIs
<1>3. CASE FinishFailed \/ Panic
  <2>1. call' = Told("nacked", Numbers) /\ ~FinishOk
    BY <1>3 DEF FinishOk, FinishFailed, Panic, Finish, Thread
  <2> QED
    BY <1>1, <2>1, ToldIs
<1> QED
  BY <1>2, <1>3

LEMMA EndHeld ==
    ASSUME Typed, HeldOK, End
    PROVE  HeldOK'
<1>1. queue' = << >> /\ batch' = << >> /\ trail' = trail
  BY DEF End
<1>2. /\ Commands(queue') = {} /\ Entries(queue') = {}
      /\ Commands(batch') = {} /\ Entries(batch') = {}
  BY <1>1, NothingHeld
<1>3. NotSent' \subseteq NotSent
  <2>1. ASSUME NEW e \in NotSent'
        PROVE  e \in NotSent
    <3>1. e \in Calls /\ call'[e].st \in {"new", "offering", "sending"}
      BY DEF NotSent
    <3>2. call[e] \in [st : States, seq : Nat]
      BY <3>1 DEF Typed
    <3>3. [call[e] EXCEPT !.st = "cut"].st = "cut"
      BY <3>2
    <3>4. call'[e] = call[e]
      BY <3>1, <3>3 DEF End
    <3> QED
      BY <3>1, <3>4 DEF NotSent
  <2> QED
    BY <2>1
<1>4. \A e : Stored(e)' <=> Stored(e)
  BY <1>1 DEF Stored
<1>5. (\A e \in NotSent \cup Entries(queue) : ~Stored(e))'
  BY <1>2, <1>3, <1>4 DEF HeldOK
<1>6. DOMAIN queue' = {}
  BY <1>1
<1> QED
  BY <1>2, <1>5, <1>6 DEF HeldOK

LEMMA NextHeld ==
    ASSUME Typed, PhaseOK, HeldOK, WrittenOK, Next
    PROVE  HeldOK'
<1>1. ASSUME UNCHANGED <<queue, batch, trail, call>>, phase = "ok" => phase' = "ok"
      PROVE  HeldOK'
  <2>1. \A c \in Commands(queue) \cup Commands(batch) : WaitsFor(c)'
    BY <1>1 DEF HeldOK, WaitsFor
  <2> QED
    BY <1>1, <2>1, HeldFrame DEF NotSent
<1>2. CASE \/ (\E closed \in FailModes : apply(closed)) \/ save \/ start
           \/ Collected \/ Begin \/ AppendFailed \/ After \/ Reopen
  <2>1. UNCHANGED <<queue, batch, trail, call>>
    BY <1>2 DEF apply, save, start, thread, clients, Collected, Begin, AppendFailed, After, Reopen
  <2>2. phase = "ok" => phase' = "ok"
    BY <1>2 DEF apply, save, start, thread, clients, Collected, Begin, AppendFailed, After, Reopen, Thread
  <2> QED
    BY <1>1, <2>1, <2>2
<1>3. CASE FlushSent \/ run_retention
  BY <1>3, ControlKeeps DEF FlushSent, run_retention, thread
<1>4. CASE FinishOk \/ FinishFailed \/ Panic
  BY <1>4, Lets, BatchOver
<1>5. CASE GiveUp \/ Crash
  BY <1>5, EndHeld DEF GiveUp, Crash
<1> QED
  BY <1>2, <1>3, <1>4, <1>5, CallersHeld, ReceiveHeld, AppendOkHeld DEF Next, WriterSteps

LEMMA NextWritten ==
    ASSUME Typed, WrittenOK, Next
    PROVE  WrittenOK'
<1>1. ASSUME UNCHANGED <<phase, batch, reporting, trail>>
      PROVE  WrittenOK'
  <2>1. BatchEntries' = BatchEntries
    BY <1>1 DEF BatchEntries
  <2> QED
    BY <1>1, <2>1 DEF WrittenOK, Entry
<1>2. ASSUME NEW e \in Calls, CallerSteps(e)
      PROVE  UNCHANGED <<phase, batch, reporting, trail>>
  BY <1>2, CallerMoves DEF thread
<1>3. CASE FlushSent \/ run_retention \/ (\E closed \in FailModes : apply(closed)) \/ save \/ start
  <2>1. UNCHANGED <<phase, batch, reporting, trail>>
    BY <1>3 DEF FlushSent, run_retention, apply, save, start, thread
  <2> QED
    BY <1>1, <2>1
<1>4. CASE AppendOk
  BY <1>4, AppendStores
<1>5. CASE \/ Receive \/ Collected \/ Begin \/ AppendFailed \/ FinishOk \/ FinishFailed
           \/ After \/ Panic \/ Reopen \/ GiveUp \/ Crash
  <2>1. phase' # "ok"
    BY <1>5 DEF Receive, Collected, Begin, AppendFailed, FinishOk, FinishFailed, Finish, After, Panic,
         Reopen, GiveUp, Crash, End, Thread
  <2> QED
    BY <2>1 DEF WrittenOK
<1> QED
  BY <1>1, <1>2, <1>3, <1>4, <1>5 DEF Next, WriterSteps

LEMMA WriterInvariance == Spec => []WriterInv
<1>1. Init => WriterInv
  <2> SUFFICES ASSUME Init PROVE WriterInv
    OBVIOUS
  <2>1. Typed
    <3>1. call \in [Calls -> [st : States, seq : Nat]]
      BY DEF Init, Fresh, States
    <3>2. /\ queue \in Seq(Command) /\ Len(queue) <= Capacity
          /\ batch \in Seq(Entering) /\ Len(batch) <= MaxBatch /\ trail \in Seq(Records)
      BY EmptySeq DEF Init
    <3>3. fail_closed \in BOOLEAN /\ up \in BOOLEAN /\ panicked \in BOOLEAN
      BY DEF Init
    <3>4. restarts \in 0 .. MaxRestarts /\ crashes \in 0 .. MaxCrashes
      BY DEF Init
    <3> QED
      BY <3>1, <3>2, <3>3, <3>4 DEF Init, Typed, Phases
  <2>2. PhaseOK
    BY DEF Init, PhaseOK, Locked
  <2>3. HeldOK
    <3>1. /\ Commands(queue) = {} /\ Entries(queue) = {} /\ Commands(batch) = {} /\ Entries(batch) = {}
          /\ DOMAIN queue = {} /\ \A e : ~Stored(e)
      BY NothingHeld DEF Init, Stored
    <3> QED
      BY <3>1 DEF HeldOK
  <2>4. WrittenOK
    BY DEF Init, WrittenOK
  <2> QED
    BY <2>1, <2>2, <2>3, <2>4 DEF WriterInv
<1>2. WriterInv /\ [Next]_vars => WriterInv'
  <2> SUFFICES ASSUME WriterInv, [Next]_vars PROVE WriterInv'
    OBVIOUS
  <2>1. CASE Next
    BY <2>1, NextTyped, NextPhases, NextHeld, NextWritten DEF WriterInv
  <2>2. CASE UNCHANGED vars
    <3>1. UNCHANGED <<up, fail_closed, call, retention, flush, flushed, queue, phase, batch, after,
                      reporting, restarts, count, in_flight, saved, file, known, trail, reported,
                      crashes, panicked>>
      BY <2>2 DEF vars, clients, thread, lost
    <3>2. Typed'
      BY <3>1 DEF WriterInv, Typed
    <3>3. PhaseOK'
      BY <3>1 DEF WriterInv, PhaseOK, Locked
    <3>4. HeldOK'
      <4>1. \A c \in Commands(queue) \cup Commands(batch) : WaitsFor(c)'
        BY <3>1 DEF WriterInv, HeldOK, WaitsFor
      <4> QED
        BY <3>1, <4>1, HeldFrame DEF WriterInv, NotSent
    <3>5. WrittenOK'
      <4>1. BatchEntries' = BatchEntries
        BY <3>1 DEF BatchEntries
      <4> QED
        BY <3>1, <4>1 DEF WriterInv, WrittenOK, Entry
    <3> QED
      BY <3>2, <3>3, <3>4, <3>5 DEF WriterInv
  <2> QED
    BY <2>1, <2>2
<1> QED
  BY <1>1, <1>2, PTL DEF Spec
(***************************************************************************)
(* What the counters hold is consistent with where the writer is, and the  *)
(* queue and the batch stay within their limits (mod.rs, writer_loop and   *)
(* write_batch).                                                           *)
(***************************************************************************)
THEOREM PipelineTyped == Spec => []TypeOK
<1>1. WriterInv => TypeOK
  <2> SUFFICES ASSUME WriterInv PROVE TypeOK
    OBVIOUS
  <2>1. Typed /\ PhaseOK
    BY DEF WriterInv
  <2>2. \A e \in Calls : call[e].st \in {"new"} \cup Pending \cup Final
    BY <2>1 DEF Typed, States
  <2>3. Commands(queue) \subseteq Command /\ Commands(batch) \subseteq Command
    BY <2>1, LenProperties, CommandTypes DEF Typed, Commands
  <2>4. /\ in_flight > 0 => Locked \/ phase = "panicked"
        /\ Locked => in_flight = reporting + Unacked(batch)
        /\ ~Locked => reporting = 0
        /\ batch # << >> => phase # "recv"
    BY <2>1 DEF PhaseOK
  <2>5. {count, in_flight, saved, file, known, reporting, reported} \subseteq Nat
    BY <2>1 DEF Typed
  <2> QED
    BY <2>1, <2>2, <2>3, <2>4, <2>5 DEF TypeOK, Typed, Phases
<1> QED
  BY <1>1, WriterInvariance, PTL

(***************************************************************************)
(* A caller that was told a sequence number finds its own entry under that *)
(* number, for ever: through reports of lost events in the same batch,     *)
(* panics, crashes and restarts (mod.rs, write_batch and record_committed).*)
(***************************************************************************)
THEOREM AcksNameTheirRecords == Spec => []AckNamesRecord
<1> DEFINE Kept == \A i \in DOMAIN trail : i \in DOMAIN trail' /\ trail'[i] = trail[i]
<1>1. Init => AckNamesRecord
  BY DEF Init, AckNamesRecord, Fresh
<1>2. WriterInv /\ AckNamesRecord /\ [Next]_vars => AckNamesRecord'
  <2> SUFFICES ASSUME WriterInv, AckNamesRecord, [Next]_vars PROVE AckNamesRecord'
    OBVIOUS
  <2>0. Typed /\ WrittenOK /\ call \in [Calls -> [st : States, seq : Nat]]
    BY DEF WriterInv, Typed
  <2>1. ASSUME Kept, \A e \in Calls : call'[e].st \in {"acked", "stored"} =>
                       call[e].st \in {"acked", "stored"} /\ call'[e].seq = call[e].seq
        PROVE  AckNamesRecord'
    BY <2>1 DEF AckNamesRecord, Entry
  <2>2. CASE UNCHANGED <<trail, call>>
    BY <2>1, <2>2
  <2>3. ASSUME NEW e \in Calls, CallerSteps(e)
        PROVE  AckNamesRecord'
    <3>1. Kept
      BY <2>0, <2>3, CallerMoves
    <3>2. PICK to \in States : call' = [call EXCEPT ![e].st = to] /\ (to = "stored" => call[e].st = "acked")
                               /\ to # "acked"
      <4>1. {"lost", "waiting", "returned"} \subseteq States
        BY DEF States, Pending, Final
      <4> QED
        BY <2>0, <2>3, <4>1, CallerMoves
    <3>3. call'[e].st = to /\ call'[e].seq = call[e].seq /\ \A d \in Calls : d # e => call'[d] = call[d]
      BY <2>0, <3>2, CallMoves
    <3> QED
      BY <2>1, <3>1, <3>2, <3>3
  <2>4. CASE AppendOk
    <3>1. Kept /\ call' = call
      BY <2>0, <2>4, AppendStores DEF AppendOk
    <3> QED
      BY <2>1, <3>1
  <2>5. CASE FinishOk \/ FinishFailed \/ Panic
    <3>1. PICK to \in {"acked", "nacked"} :
            \A e \in Calls :
               IF e \in Acked(batch) /\ call[e].st = "waiting"
               THEN /\ call'[e].st = to
                    /\ to = "acked" => call'[e].seq \in DOMAIN trail /\ trail[call'[e].seq] = Entry(e)
               ELSE call'[e] = call[e]
      BY <2>0, <2>5, Lets
    <3>2. trail' = trail
      BY <2>0, <2>5, Lets
    <3>3. ASSUME NEW e \in Calls, call'[e].st \in {"acked", "stored"}
          PROVE  call'[e].seq \in DOMAIN trail' /\ trail'[call'[e].seq] = Entry(e)
      BY <3>1, <3>2, <3>3 DEF AckNamesRecord
    <3> QED
      BY <3>3 DEF AckNamesRecord, Entry
  <2>6. CASE GiveUp \/ Crash
    <3>1. End
      BY <2>6 DEF GiveUp, Crash
    <3>2. ASSUME NEW e \in Calls, call'[e].st \in {"acked", "stored"}
          PROVE  call'[e] = call[e]
      <4>1. [call[e] EXCEPT !.st = "cut"].st = "cut"
        BY <2>0
      <4> QED
        BY <3>1, <3>2, <4>1 DEF End
    <3> QED
      BY <2>1, <3>1, <3>2 DEF End
  <2>7. CASE \/ FlushSent \/ run_retention \/ (\E closed \in FailModes : apply(closed)) \/ save \/ start
             \/ Receive \/ Collected \/ Begin \/ AppendFailed \/ After \/ Reopen \/ UNCHANGED vars
    <3>1. UNCHANGED <<trail, call>>
      BY <2>7 DEF FlushSent, run_retention, apply, save, start, clients, Receive, Collected, Begin,
           AppendFailed, After, Reopen, vars
    <3> QED
      BY <2>2, <3>1
  <2> QED
    BY <2>3, <2>4, <2>5, <2>6, <2>7 DEF Next, WriterSteps
<1> QED
  BY <1>1, <1>2, WriterInvariance, PTL DEF Spec

(***************************************************************************)
(* A loss that the file or the trail once knew of is known to one of them  *)
(* when the process is down, unless the writer panicked (mod.rs,           *)
(* LostEvents and write_batch).                                            *)
(***************************************************************************)
THEOREM SavedLossesSurvive == Spec => []SavedLossSurvives
<1> USE DEF SavedOK
<1>1. Init => SavedOK
  BY DEF Init, Owed
<1>2. WriterInv /\ SavedOK /\ [Next]_vars => SavedOK'
  <2> SUFFICES ASSUME WriterInv, SavedOK, [Next]_vars PROVE SavedOK'
    OBVIOUS
  <2>0. /\ Typed /\ PhaseOK /\ batch \in Seq(Command) /\ Unacked(batch) \in Nat
        /\ count \in Nat /\ reporting \in Nat /\ reported \in Nat /\ file \in Nat /\ known \in Nat
        /\ panicked \in BOOLEAN
    BY CommandTypes, SeqMonotonic, EntriesFinite DEF WriterInv, Typed
  <2>1. ASSUME UNCHANGED <<up, phase, reporting, in_flight, reported, file, known, panicked>>,
               count' \in {count, count + 1}
        PROVE  SavedOK'
    <3>1. Owed' = Owed
      BY <2>1 DEF Owed
    <3>2. Owed \in Nat
      BY <2>0 DEF Owed, Typed
    <3>3. (~up => phase = "recv")' /\ (~panicked => phase # "panicked")'
      BY <2>1 DEF SavedOK
    <3>4. ASSUME ~panicked'
          PROVE  (known <= reported + file)' /\ (up => known <= reported + count + Owed)'
      <4>1. known <= reported + file /\ (up => known <= reported + count + Owed)
        BY <2>1, <3>4 DEF SavedOK
      <4>2. CASE count' = count
        BY <2>1, <3>1, <4>1, <4>2
      <4>3. CASE count' = count + 1
        BY <2>0, <2>1, <3>1, <3>2, <4>1, <4>3
      <4> QED
        BY <2>1, <4>2, <4>3
    <3> QED
      BY <3>3, <3>4 DEF SavedOK
  <2>2. ASSUME NEW e \in Calls, CallerSteps(e)
        PROVE  SavedOK'
    <3>1. UNCHANGED <<up, phase, reporting, reported, panicked>> /\ count' \in {count, count + 1}
      BY <2>0, <2>2, CallerMoves DEF thread
    <3>2. UNCHANGED <<in_flight, file, known>>
      BY <2>2 DEF lost, CallerSteps, record, Offered, QueueWaitOver, record_committed, Sent, Committed,
           NotCommitted, Cancel
    <3> QED
      BY <2>1, <3>1, <3>2
  <2>3. CASE FlushSent \/ run_retention \/ (\E closed \in FailModes : apply(closed)) \/ UNCHANGED vars
    <3>1. UNCHANGED <<up, phase, reporting, in_flight, reported, file, known, panicked, count>>
      BY <2>3 DEF FlushSent, run_retention, apply, thread, lost, vars
    <3> QED
      BY <2>1, <3>1
  <2>4. CASE \/ Receive \/ Collected \/ Begin \/ AppendOk \/ AppendFailed \/ After
    <3>1. panicked' = panicked
      BY <2>0, <2>4, Zenon DEF Receive, Collected, Begin, AppendOk, AppendFailed, After, Thread
    <3>2. CASE Receive \/ Collected \/ After
      <4>1. Owed = 0 /\ Owed' = 0 /\ UNCHANGED <<up, reported, file, known, count>>
        BY <3>2 DEF Receive, Collected, After, Owed, Thread, lost
      <4>2. phase' # "panicked" /\ up
        BY <3>2 DEF Receive, Collected, After, Thread
      <4> QED
        BY <3>1, <4>1, <4>2
    <3>3. CASE Begin
      <4>1. Owed = 0 /\ Owed' = count /\ count' = 0 /\ UNCHANGED <<up, reported, file, known>>
            /\ phase' # "panicked" /\ up
        BY <3>3 DEF Begin, Owed, Thread
      <4> QED
        BY <2>0, <3>1, <4>1
    <3>4. CASE AppendOk
      <4>1. Owed = reporting /\ Owed' = 0 /\ reported' = reported + reporting
            /\ UNCHANGED <<up, file, known, count>> /\ phase' # "panicked" /\ up
        BY <3>4 DEF AppendOk, Owed, Thread, lost
      <4> QED
        BY <2>0, <3>1, <4>1
    <3>5. CASE AppendFailed
      <4>1. Owed = reporting /\ Owed' = reporting
            /\ UNCHANGED <<up, reported, file, known, count>> /\ phase' # "panicked" /\ up
        BY <3>5 DEF AppendFailed, Owed, Thread, lost
      <4> QED
        BY <3>1, <4>1
    <3> QED
      BY <2>4, <3>2, <3>3, <3>4, <3>5
  <2>5. ASSUME NEW now \in Nat, up, up', save_locked(now), count' = now, reported' = reported,
               ~panicked, phase' # "panicked", Owed' = 0, known <= reported + now,
               panicked' = panicked
        PROVE  SavedOK'
    <3>1. CASE UNCHANGED <<saved, file, known>>
      BY <2>0, <2>5, <3>1
    <3>2. CASE file' = now /\ known' = IF reported + now > known THEN reported + now ELSE known
      BY <2>0, <2>5, <3>2
    <3> QED
      BY <2>5, <3>1, <3>2 DEF save_locked
  <2>6. CASE FinishOk \/ FinishFailed
    <3>1. PICK from \in {"ok", "failed"}, to \in {"acked", "nacked"}, now \in Nat :
            /\ Finish(from, to, now)
            /\ IF from = "ok" THEN now = count ELSE now = count + reporting + Unacked(batch)
      <4>1. count + reporting + Unacked(batch) \in Nat
        BY <2>0
      <4>2. CASE FinishOk
        BY <2>0, <4>2 DEF FinishOk
      <4>3. CASE FinishFailed
        BY <4>1, <4>3 DEF FinishFailed
      <4> QED
        BY <2>6, <4>2, <4>3
    <3>2. /\ up /\ up' /\ save_locked(now) /\ count' = now /\ reported' = reported
          /\ phase = from /\ phase' = "after"
      BY <3>1 DEF Finish, Thread
    <3>3. panicked' = panicked
      BY <2>0, <3>1, Zenon DEF Finish, Thread
    <3>4. Owed' = 0 /\ phase' # "panicked"
      BY <3>2 DEF Owed
    <3>5. CASE panicked
      BY <3>2, <3>3, <3>5
    <3>6. CASE ~panicked
      <4>1. known <= reported + now
        BY <2>0, <3>1, <3>2, <3>6 DEF Owed
      <4> QED
        BY <2>5, <3>2, <3>3, <3>4, <3>6, <4>1
    <3> QED
      BY <3>5, <3>6
  <2>7. CASE Panic
    <3>1. panicked' /\ up' = up /\ up
      BY <2>7, Zenon DEF Panic, Thread
    <3> QED
      BY <3>1
  <2>8. CASE Reopen
    <3>1. panicked' /\ up' /\ phase = "panicked"
      BY <2>0, <2>8, Zenon DEF Reopen, Thread
    <3> QED
      BY <3>1
  <2>9. CASE GiveUp \/ Crash
    <3>1. End /\ up
      BY <2>9 DEF GiveUp, Crash
    <3>2. ~up' /\ phase' = "recv" /\ UNCHANGED <<reported, file, known, panicked>>
      BY <3>1 DEF End
    <3> QED
      BY <3>2
  <2>10. CASE save
    <3>1. up /\ up' = up /\ save_locked(count) /\ UNCHANGED <<count, reported, panicked, phase, in_flight>>
          /\ ~Locked
      BY <2>10 DEF save, thread
    <3>2. CASE panicked
      BY <3>1, <3>2
    <3>3. CASE ~panicked
      <4>1. Owed = 0 /\ Owed' = 0
        BY <3>1, <3>3 DEF Owed, Locked
      <4> QED
        BY <2>0, <2>5, <3>1, <3>3, <4>1
    <3> QED
      BY <3>2, <3>3
  <2>11. CASE start
    <3>1. ~up /\ up' /\ count' = file /\ UNCHANGED <<reported, file, known, panicked, phase>>
      BY <2>11 DEF start, thread
    <3>2. Owed' = 0
      BY <3>1 DEF Owed
    <3> QED
      BY <2>0, <3>1, <3>2
  <2> QED
    BY <2>2, <2>3, <2>4, <2>6, <2>7, <2>8, <2>9, <2>10, <2>11 DEF Next, WriterSteps
<1>3. SavedOK => SavedLossSurvives
  BY DEF SavedLossSurvives
<1> QED
  BY <1>1, <1>2, <1>3, WriterInvariance, PTL DEF Spec
-------------------------------------------------------------------------------
\* The barrier
BarrierOK == FlushOK /\ FlushIsBarrier

\* Nothing comes to the queue, and what leaves queue and batch does not come back.
LEMMA BarrierFrame ==
    ASSUME BarrierOK, queue' = queue, Entries(batch') \subseteq Entries(batch),
           UNCHANGED <<after, flush, flushed>>, NotSent' \subseteq NotSent
    PROVE  BarrierOK'
<1>1. FlushOK'
  BY DEF BarrierOK, FlushOK
<1>2. FlushIsBarrier'
  BY DEF BarrierOK, FlushIsBarrier, Held
<1> QED
  BY <1>1, <1>2 DEF BarrierOK

LEMMA SentOnce ==
    ASSUME Typed, NEW e \in Calls, CallerSteps(e)
    PROVE  NotSent' \subseteq NotSent
<1>1. \E to \in States :
        call' = [call EXCEPT ![e].st = to] /\ (call[e].st # "new" => to \notin {"new", "offering", "sending"})
  <2>1. {"lost", "waiting", "returned"} \subseteq States
    BY DEF States, Pending, Final
  <2> QED
    BY <2>1, CallerMoves
<1>2. PICK to \in States :
        call' = [call EXCEPT ![e].st = to] /\ (call[e].st # "new" => to \notin {"new", "offering", "sending"})
  BY <1>1
<1>3. call'[e].st = to /\ \A d \in Calls : d # e => call'[d] = call[d]
  BY <1>2, CallMoves
<1>4. ASSUME NEW d \in NotSent'
      PROVE  d \in NotSent
  <2>1. CASE d = e
    BY <1>2, <1>3, <2>1 DEF NotSent
  <2>2. CASE d # e
    BY <1>3, <2>2 DEF NotSent
  <2> QED
    BY <2>1, <2>2
<1> QED
  BY <1>4

\* The queue gets a command that is no Flush, and no entry that was ahead of a Flush.
LEMMA BarrierEnter ==
    ASSUME Typed, BarrierOK, NEW c \in Command, queue' = Append(queue, c), c # Flush,
           c.cmd = "append" => c.call \in NotSent,
           UNCHANGED <<batch, after, flush, flushed>>, NotSent' \subseteq NotSent
    PROVE  BarrierOK'
<1>0. queue \in Seq(Command) /\ Len(queue) \in Nat /\ DOMAIN queue = 1 .. Len(queue)
  BY LenProperties DEF Typed
<1>1. /\ DOMAIN queue' = 1 .. Len(queue) + 1 /\ queue'[Len(queue) + 1] = c
      /\ \A i \in 1 .. Len(queue) : queue'[i] = queue[i]
      /\ Commands(queue') = Commands(queue) \cup {c}
  BY <1>0, QueueGets
<1>2. /\ c.cmd = "append" => Entries(queue') = Entries(queue) \cup {c.call} /\ c.call \notin flushed
      /\ c.cmd # "append" => Entries(queue') = Entries(queue)
  <2>1. c.cmd = "append" => c.call \notin flushed
    BY DEF BarrierOK, FlushOK
  <2> QED
    BY <1>1, <2>1, EntriesGrow
<1>3. ASSUME NEW i \in DOMAIN queue', NEW j \in DOMAIN queue',
             queue'[i] = Flush, i < j, queue'[j].cmd = "append"
      PROVE  queue'[j].call \notin flushed
  <2>1. i \in 1 .. Len(queue)
    BY <1>0, <1>1, <1>3
  <2>2. CASE j \in 1 .. Len(queue)
    BY <1>0, <1>1, <1>3, <2>1, <2>2 DEF BarrierOK, FlushOK
  <2>3. CASE j = Len(queue) + 1
    BY <1>1, <1>2, <1>3, <2>3
  <2> QED
    BY <1>0, <1>1, <2>2, <2>3
<1>4. (flush = "idle" => Flush \notin Commands(queue) /\ after # <<Flush>>)'
  BY <1>1 DEF BarrierOK, FlushOK
<1>5. (after = <<Flush>> => flushed \cap Entries(queue) = {})'
  BY <1>2 DEF BarrierOK, FlushOK
<1>6. (flushed \cap NotSent = {})'
  BY DEF BarrierOK, FlushOK
<1>7. (\A i, j \in DOMAIN queue :
         (queue[i] = Flush /\ i < j /\ queue[j].cmd = "append") => queue[j].call \notin flushed)'
  BY <1>3
<1>8. FlushIsBarrier'
  BY <1>2 DEF BarrierOK, FlushIsBarrier, Held
<1> QED
  BY <1>4, <1>5, <1>6, <1>7, <1>8 DEF BarrierOK, FlushOK

LEMMA CallersBarrier ==
    ASSUME Typed, BarrierOK, NEW e \in Calls, CallerSteps(e)
    PROVE  BarrierOK'
<1>1. UNCHANGED <<batch, after, flush, flushed>>
  BY CallerMoves DEF thread
<1>2. NotSent' \subseteq NotSent
  BY SentOnce
<1>3. CASE queue' = queue
  BY <1>1, <1>2, <1>3, BarrierFrame
<1>4. ASSUME e \in NotSent, NEW ack \in BOOLEAN, queue' = Append(queue, Append1(e, ack))
      PROVE  BarrierOK'
  <2>1. PICK c : c = Append1(e, ack)
    OBVIOUS
  <2>2. c \in Command /\ c # Flush /\ c.call = e
    BY <2>1, CommandTypes
  <2> QED
    BY <1>1, <1>2, <1>4, <2>1, <2>2, BarrierEnter
<1> QED
  BY <1>3, <1>4, CallerMoves

LEMMA FlushSentBarrier ==
    ASSUME Typed, HeldOK, BarrierOK, FlushSent
    PROVE  BarrierOK'
<1>0. queue \in Seq(Command) /\ Len(queue) \in Nat /\ DOMAIN queue = 1 .. Len(queue)
  BY LenProperties DEF Typed
<1>1. /\ DOMAIN queue' = 1 .. Len(queue) + 1 /\ queue'[Len(queue) + 1] = Flush
      /\ \A i \in 1 .. Len(queue) : queue'[i] = queue[i]
  BY <1>0, QueueGets, CommandTypes DEF FlushSent
<1>2. \A i \in 1 .. Len(queue) : queue[i] # Flush
  BY <1>0 DEF BarrierOK, FlushOK, FlushSent, Commands
<1>3. ASSUME NEW i \in DOMAIN queue', NEW j \in DOMAIN queue', queue'[i] = Flush, i < j
      PROVE  FALSE
  BY <1>0, <1>1, <1>2, <1>3
<1>4. after' # <<Flush>> /\ flush' = "waiting"
  BY DEF FlushSent, BarrierOK, FlushOK, thread
<1>5. flushed' = Held /\ NotSent' = NotSent
  BY DEF FlushSent, Held, NotSent
<1>6. flushed' \cap NotSent' = {}
  BY <1>5, HeldSent
<1>7. FlushOK'
  BY <1>3, <1>4, <1>6 DEF FlushOK
<1> QED
  BY <1>4, <1>7 DEF BarrierOK, FlushIsBarrier

LEMMA ReceiveBarrier ==
    ASSUME Typed, BarrierOK, Receive
    PROVE  BarrierOK'
<1>1. /\ Len(queue) \in Nat \ {0} /\ DOMAIN queue = 1 .. Len(queue)
      /\ DOMAIN queue' = 1 .. Len(queue) - 1
      /\ Head(queue) \in Command /\ Head(queue) = queue[1]
      /\ \A i \in 1 .. Len(queue) - 1 : queue'[i] = queue[i + 1]
      /\ Commands(queue) = {Head(queue)} \cup Commands(queue')
  BY QueueGives DEF Receive
<1>2. PICK h : h = Head(queue)
  OBVIOUS
<1>3. UNCHANGED <<call, flush, flushed>>
  BY DEF Receive
<1>4. IF h.cmd = "append" THEN Commands(batch') = Commands(batch) \cup {h} /\ after' = after
      ELSE batch' = batch /\ after' = <<h>>
  <2>1. CASE h.cmd = "append"
    <3>1. h \in Entering /\ batch' = Append(batch, h) /\ batch \in Seq(Entering) /\ after' = after
      BY <1>1, <1>2, <2>1, CommandTypes DEF Receive, Typed
    <3>2. Commands(batch') = Commands(batch) \cup {h}
      BY <3>1, CommandsGrow DEF Commands
    <3> QED
      BY <2>1, <3>1, <3>2
  <2>2. CASE h.cmd # "append"
    BY <1>2, <2>2 DEF Receive
  <2> QED
    BY <2>1, <2>2
<1>5. /\ Entries(queue') \subseteq Entries(queue)
      /\ Entries(queue') \cup Entries(batch') = Entries(queue) \cup Entries(batch)
  <2>1. CASE h.cmd = "append"
    <3>1. Entries(queue) = Entries(queue') \cup {h.call} /\ Entries(batch') = Entries(batch) \cup {h.call}
      BY <1>1, <1>2, <1>4, <2>1 DEF Entries
    <3> QED
      BY <3>1
  <2>2. CASE h.cmd # "append"
    <3>1. Entries(queue) = Entries(queue') /\ Entries(batch') = Entries(batch)
      BY <1>1, <1>2, <1>4, <2>2 DEF Entries
    <3> QED
      BY <3>1
  <2> QED
    BY <2>1, <2>2
<1>6. (\A i, j \in DOMAIN queue :
         (queue[i] = Flush /\ i < j /\ queue[j].cmd = "append") => queue[j].call \notin flushed)'
  <2> SUFFICES ASSUME NEW i \in DOMAIN queue', NEW j \in DOMAIN queue',
                      queue'[i] = Flush, i < j, queue'[j].cmd = "append"
               PROVE  queue'[j].call \notin flushed'
    OBVIOUS
  <2>1. /\ i + 1 \in DOMAIN queue /\ j + 1 \in DOMAIN queue /\ i + 1 < j + 1
        /\ queue[i + 1] = queue'[i] /\ queue[j + 1] = queue'[j]
    BY <1>1
  <2> QED
    BY <1>3, <2>1 DEF BarrierOK, FlushOK
<1>7. h = Flush => flushed \cap Entries(queue') = {}
  <2> SUFFICES ASSUME h = Flush, NEW e \in Entries(queue') PROVE e \notin flushed
    OBVIOUS
  <2>1. PICK i \in 1 .. Len(queue) - 1 : queue'[i].cmd = "append" /\ queue'[i].call = e
    BY <1>1 DEF Entries, Commands
  <2>2. 1 \in DOMAIN queue /\ i + 1 \in DOMAIN queue /\ 1 < i + 1 /\ queue[i + 1] = queue'[i]
    BY <1>1
  <2> QED
    BY <1>1, <1>2, <2>1, <2>2 DEF BarrierOK, FlushOK
<1>8. after' = <<Flush>> => after = <<Flush>> \/ h = Flush
  BY <1>4
<1>9. (flush = "idle" => Flush \notin Commands(queue) /\ after # <<Flush>>)'
  BY <1>1, <1>2, <1>3, <1>8 DEF BarrierOK, FlushOK
<1>10. (after = <<Flush>> => flushed \cap Entries(queue) = {})'
  BY <1>3, <1>5, <1>7, <1>8 DEF BarrierOK, FlushOK
<1>11. (flushed \cap NotSent = {})'
  BY <1>3 DEF BarrierOK, FlushOK, NotSent
<1>12. FlushIsBarrier'
  BY <1>3, <1>5 DEF BarrierOK, FlushIsBarrier, Held
<1> QED
  BY <1>6, <1>9, <1>10, <1>11, <1>12 DEF BarrierOK, FlushOK

\* A Flush is answered when nothing is in the batch any more.
LEMMA AnswerBarrier ==
    ASSUME BarrierOK, NEW status, Answered(status), queue' = queue, batch' = << >>,
           flushed' = flushed, NotSent' \subseteq NotSent
    PROVE  BarrierOK'
<1>1. Entries(batch') = {}
  BY NothingHeld
<1>2. after' = << >> /\ flush' = IF after = <<Flush>> THEN "done" ELSE flush
  BY DEF Answered
<1>3. FlushOK'
  BY <1>2 DEF BarrierOK, FlushOK
<1>4. FlushIsBarrier'
  <2>1. CASE after = <<Flush>>
    BY <1>1, <2>1 DEF BarrierOK, FlushOK, FlushIsBarrier, Held
  <2>2. CASE after # <<Flush>>
    BY <1>1, <1>2, <2>2 DEF BarrierOK, FlushIsBarrier, Held
  <2> QED
    BY <2>1, <2>2
<1> QED
  BY <1>3, <1>4 DEF BarrierOK

(***************************************************************************)
(* When flush returns, every entry queued before it was written or given   *)
(* up, also when the writer panicked meanwhile (mod.rs, flush and          *)
(* writer_loop).                                                           *)
(***************************************************************************)
THEOREM FlushWaitsForAll == Spec => []FlushIsBarrier
<1>1. Init => BarrierOK
  <2> SUFFICES ASSUME Init PROVE BarrierOK
    OBVIOUS
  <2>1. Commands(queue) = {} /\ DOMAIN queue = {} /\ flushed = {} /\ after = << >> /\ flush = "idle"
    BY NothingHeld DEF Init
  <2> QED
    BY <2>1 DEF BarrierOK, FlushOK, FlushIsBarrier
<1>2. WriterInv /\ BarrierOK /\ [Next]_vars => BarrierOK'
  <2> SUFFICES ASSUME WriterInv, BarrierOK, [Next]_vars PROVE BarrierOK'
    OBVIOUS
  <2>0. Typed /\ PhaseOK /\ HeldOK /\ WrittenOK
    BY DEF WriterInv
  <2>1. CASE \/ (\E closed \in FailModes : apply(closed)) \/ save \/ start
             \/ Collected \/ Begin \/ AppendOk \/ AppendFailed \/ Reopen \/ UNCHANGED vars
    <3>1. UNCHANGED <<queue, batch, after, flush, flushed, call>>
      BY <2>1 DEF apply, save, start, thread, clients, Collected, Begin, AppendOk, AppendFailed,
           Reopen, vars
    <3>2. NotSent' = NotSent
      BY <3>1 DEF NotSent
    <3> QED
      BY <3>1, <3>2, BarrierFrame
  <2>2. CASE run_retention
    <3>1. /\ queue' = Append(queue, Prune) /\ UNCHANGED <<batch, after, flush, flushed>>
          /\ NotSent' = NotSent
      BY <2>2 DEF run_retention, thread, NotSent
    <3> QED
      BY <2>0, <3>1, BarrierEnter, CommandTypes
  <2>3. CASE FinishOk \/ FinishFailed \/ Panic
    <3>1. batch' = << >> /\ queue' = queue /\ flushed' = flushed
      BY <2>0, <2>3, Lets
    <3>2. NotSent' \subseteq NotSent
      <4>1. \A e \in Calls : call'[e] = call[e] \/ call'[e].st \in {"acked", "nacked"}
        BY <2>0, <2>3, Lets
      <4>2. ASSUME NEW e \in NotSent' PROVE e \in NotSent
        BY <4>1 DEF NotSent
      <4> QED
        BY <4>2
    <3>3. CASE Panic
      BY <3>1, <3>2, <3>3, AnswerBarrier DEF Panic
    <3>4. CASE FinishOk \/ FinishFailed
      <4>1. UNCHANGED <<after, flush>>
        BY <3>4 DEF FinishOk, FinishFailed, Finish
      <4>2. Entries(batch') = {}
        BY <3>1, NothingHeld
      <4> QED
        BY <3>1, <3>2, <4>1, <4>2, BarrierFrame
    <3> QED
      BY <2>3, <3>3, <3>4
  <2>4. CASE After
    <3>1. batch' = << >> /\ queue' = queue /\ flushed' = flushed
      BY <2>0, <2>4 DEF After, PhaseOK
    <3>2. NotSent' = NotSent /\ Answered("asleep")
      BY <2>4 DEF After, NotSent
    <3> QED
      BY <3>1, <3>2, AnswerBarrier
  <2>5. CASE GiveUp \/ Crash
    <3>1. /\ queue' = << >> /\ after' = << >> /\ flush' = "idle" /\ flushed' = {}
      BY <2>5 DEF GiveUp, Crash, End
    <3>2. Commands(queue') = {} /\ DOMAIN queue' = {}
      BY <3>1, NothingHeld
    <3> QED
      BY <3>1, <3>2 DEF BarrierOK, FlushOK, FlushIsBarrier
  <2> QED
    BY <2>0, <2>1, <2>2, <2>3, <2>4, <2>5, CallersBarrier, FlushSentBarrier, ReceiveBarrier
       DEF Next, WriterSteps
<1>3. BarrierOK => FlushIsBarrier
  BY DEF BarrierOK
<1> QED
  BY <1>1, <1>2, <1>3, WriterInvariance, PTL DEF Spec
-------------------------------------------------------------------------------
\* The count of the losses
Counting == crashes = 0 /\ \A e \in Calls : call[e].st # "dropped"
Tally == reported + count + Owed
IsMissing(e) ==
    (call[e].st \in {"returned", "dropped"} /\ e \notin Held /\ ~Stored(e)) \/ call[e].st = "lost"

LEMMA MissingIs == Missing = {e \in Calls : IsMissing(e)}
BY DEF Missing, IsMissing

LEMMA LossSame ==
    ASSUME LossOK, Counting' => Counting,
           Counting' => Tally' = Tally /\ \A e \in Calls : IsMissing(e)' <=> IsMissing(e)
    PROVE  LossOK'
<1> SUFFICES ASSUME Counting'
             PROVE  (IsFiniteSet(Missing) /\ Cardinality(Missing) = Tally)'
  BY DEF LossOK, Counting, Tally
<1>1. Missing' = Missing
  <2>1. Missing' = {e \in Calls : IsMissing(e)'}
    BY DEF Missing, IsMissing
  <2> QED
    BY <2>1, MissingIs
<1>2. IsFiniteSet(Missing) /\ Cardinality(Missing) = Tally
  BY DEF LossOK, Counting, Tally
<1> QED
  BY <1>1, <1>2

LEMMA LossMore ==
    ASSUME LossOK, NEW B \in SUBSET Calls, IsFiniteSet(B), Tally \in Int,
           Counting' => Counting,
           Counting' => /\ Tally' = Tally + Cardinality(B)
                        /\ \A e \in Calls : IsMissing(e)' <=> (IsMissing(e) \/ e \in B)
                        /\ \A e \in B : ~IsMissing(e)
    PROVE  LossOK'
<1> SUFFICES ASSUME Counting'
             PROVE  (IsFiniteSet(Missing) /\ Cardinality(Missing) = Tally)'
  BY DEF LossOK, Counting, Tally
<1>1. Missing' = Missing \cup B /\ Missing \cap B = {}
  <2>1. Missing' = {e \in Calls : IsMissing(e)'}
    BY DEF Missing, IsMissing
  <2> QED
    BY <2>1, MissingIs
<1>2. IsFiniteSet(Missing) /\ Cardinality(Missing) = Tally
  BY DEF LossOK, Counting, Tally
<1>3. PICK M : M = Missing
  OBVIOUS
<1>4. IsFiniteSet(M \cup B) /\ Cardinality(M \cup B) = Cardinality(M) + Cardinality(B) - Cardinality(M \cap B)
  BY <1>2, <1>3, FS_Union
<1>5. Cardinality(M \cap B) = 0 /\ Cardinality(B) \in Nat
  BY <1>1, <1>3, FS_EmptySet, FS_CardinalityType
<1>6. Cardinality(M \cup B) = Tally'
  BY <1>2, <1>3, <1>4, <1>5
<1>7. Missing' = M \cup B
  BY <1>1, <1>3
<1> QED
  BY <1>4, <1>6, <1>7

\* Steps that neither call nor write: calls, trail and what is held stay as they are.
LEMMA LossQuiet ==
    ASSUME LossOK, UNCHANGED <<call, trail, crashes>>, Held' = Held, Tally' = Tally
    PROVE  LossOK'
<1>1. Counting' = Counting
  BY DEF Counting
<1>2. \A e \in Calls : IsMissing(e)' <=> IsMissing(e)
  BY DEF IsMissing, Stored, Entry
<1> QED
  BY <1>1, <1>2, LossSame

LEMMA CallersLoss ==
    ASSUME WriterInv, LossOK, NEW e \in Calls, CallerSteps(e)
    PROVE  LossOK'
<1>0. /\ Typed /\ HeldOK /\ UNCHANGED <<batch, trail, phase, reporting, reported, crashes>>
      /\ count \in Nat /\ reported \in Nat /\ Owed \in Nat
  BY CallerMoves DEF WriterInv, thread, Typed, Owed
<1>1. in_flight' = in_flight
  BY DEF lost, CallerSteps, record, Offered, QueueWaitOver, record_committed, Sent, Committed,
       NotCommitted, Cancel
<1>2. Owed' = Owed /\ Tally \in Nat
  BY <1>0, <1>1 DEF Owed, Tally
<1>3. \A d \in Calls : Stored(d)' <=> Stored(d)
  BY <1>0 DEF Stored, Entry
<1>4. {"lost", "waiting", "returned"} \subseteq States
  BY DEF States, Pending, Final
<1>5. ASSUME NEW to \in States, call' = [call EXCEPT ![e].st = to], call[e].st # "dropped"
      PROVE  /\ Counting' => Counting /\ to # "dropped"
             /\ call'[e].st = to /\ \A d \in Calls : d # e => call'[d] = call[d]
  <2>1. call'[e].st = to /\ \A d \in Calls : d # e => call'[d] = call[d]
    BY <1>0, <1>5, CallMoves
  <2> QED
    BY <1>0, <1>5, <2>1 DEF Counting
<1>6. ASSUME e \in NotSent, NEW ack \in BOOLEAN, queue' = Append(queue, Append1(e, ack)),
             call' = [call EXCEPT ![e].st = IF ack THEN "waiting" ELSE "returned"], count' = count
      PROVE  LossOK'
  <2>1. PICK to \in {"waiting", "returned"} : call' = [call EXCEPT ![e].st = to]
    BY <1>6
  <2>2. call[e].st \in {"new", "offering", "sending"}
    BY <1>6 DEF NotSent
  <2>3. /\ Counting' => Counting
        /\ call'[e].st = to /\ \A d \in Calls : d # e => call'[d] = call[d]
    BY <1>4, <1>5, <2>1, <2>2
  <2>4. Held' = Held \cup {e}
    <3>1. PICK c : c = Append1(e, ack)
      OBVIOUS
    <3>2. c \in Command /\ c.cmd = "append" /\ c.call = e
      BY <3>1, CommandTypes
    <3>3. Commands(queue') = Commands(queue) \cup {c}
      BY <1>0, <1>6, <3>1, <3>2, QueueGets DEF Typed
    <3>4. Entries(queue') = Entries(queue) \cup {e}
      BY <3>2, <3>3, EntriesGrow
    <3> QED
      BY <1>0, <3>4 DEF Held
  <2>5. ASSUME NEW d \in Calls
        PROVE  IsMissing(d)' <=> IsMissing(d)
    <3>1. CASE d = e
      BY <2>1, <2>2, <2>3, <2>4, <3>1 DEF IsMissing
    <3>2. CASE d # e
      BY <1>3, <2>3, <2>4, <3>2 DEF IsMissing
    <3> QED
      BY <3>1, <3>2
  <2>6. Tally' = Tally
    BY <1>0, <1>2, <1>6 DEF Tally
  <2> QED
    BY <2>3, <2>5, <2>6, LossSame
<1>7. ASSUME queue' = queue, NEW to \in States, call' = [call EXCEPT ![e].st = to],
             count' = count,
             call[e].st \in {"new", "acked", "nacked", "waiting"},
             to \in {"offering", "sending", "stored", "refused", "dropped"}
      PROVE  LossOK'
  <2>1. /\ Counting' => Counting /\ to # "dropped"
        /\ call'[e].st = to /\ \A d \in Calls : d # e => call'[d] = call[d]
    BY <1>5, <1>7
  <2>2. Held' = Held
    BY <1>0, <1>7 DEF Held
  <2>3. ASSUME Counting', NEW d \in Calls
        PROVE  IsMissing(d)' <=> IsMissing(d)
    <3>1. CASE d = e
      BY <1>7, <2>1, <2>3, <3>1 DEF IsMissing
    <3>2. CASE d # e
      BY <1>3, <2>1, <2>2, <3>2 DEF IsMissing
    <3> QED
      BY <3>1, <3>2
  <2>4. Tally' = Tally
    BY <1>0, <1>2, <1>7 DEF Tally
  <2> QED
    BY <2>1, <2>3, <2>4, LossSame
<1>8. ASSUME queue' = queue, call' = [call EXCEPT ![e].st = "lost"], count' = count + 1,
             call[e].st \in {"offering", "nacked"}
      PROVE  LossOK'
  <2>1. /\ Counting' => Counting
        /\ call'[e].st = "lost" /\ \A d \in Calls : d # e => call'[d] = call[d]
    BY <1>4, <1>5, <1>8
  <2>2. Held' = Held
    BY <1>0, <1>8 DEF Held
  <2>3. ~IsMissing(e)
    BY <1>8 DEF IsMissing
  <2>4. ASSUME NEW d \in Calls
        PROVE  IsMissing(d)' <=> (IsMissing(d) \/ d \in {e})
    <3>1. CASE d = e
      BY <2>1, <3>1 DEF IsMissing
    <3>2. CASE d # e
      BY <1>3, <2>1, <2>2, <3>2 DEF IsMissing
    <3> QED
      BY <3>1, <3>2
  <2>5. IsFiniteSet({e}) /\ Cardinality({e}) = 1
    BY FS_Singleton
  <2>6. Tally' = Tally + Cardinality({e}) /\ Tally \in Int
    BY <1>0, <1>2, <1>8, <2>5 DEF Tally
  <2> QED
    BY <2>1, <2>3, <2>4, <2>5, <2>6, LossMore
<1> QED
  BY <1>0, <1>4, <1>6, <1>7, <1>8, CallerMoves

\* The batch is given up: of its entries, those that nobody waits for are missing.
LEMMA BatchLost ==
    ASSUME WriterInv, LossOK, FinishFailed \/ Panic
    PROVE  LossOK'
<1>0. /\ Typed /\ PhaseOK /\ HeldOK /\ WrittenOK /\ batch \in Seq(Command)
      /\ count \in Nat /\ reported \in Nat /\ reporting \in Nat /\ in_flight \in Nat
  BY CommandTypes, SeqMonotonic DEF WriterInv, Typed
<1>1. batch' = << >> /\ UNCHANGED <<queue, trail>>
  BY <1>0, Lets
<1>2. \A e \in Calls : IF e \in Acked(batch) /\ call[e].st = "waiting"
                       THEN call'[e].st = "nacked" ELSE call'[e] = call[e]
  <2>1. ~FinishOk
    BY DEF FinishOk, FinishFailed, Panic, Finish, Thread
  <2> QED
    BY <1>0, <2>1, Lets
<1>3. crashes' = crashes /\ reported' = reported /\ phase # "ok"
  BY DEF FinishFailed, Panic, Finish, Thread
<1>4. PICK B : B = Entries(batch) \ Acked(batch)
  OBVIOUS
<1>5. IsFiniteSet(B) /\ B \in SUBSET Calls /\ Cardinality(B) = Unacked(batch) /\ Cardinality(B) \in Nat
  <2>1. IsFiniteSet(Entries(batch)) /\ Entries(batch) \subseteq Calls /\ Unacked(batch) \in Nat
    BY <1>0, EntriesFinite
  <2>2. IsFiniteSet(B)
    BY <1>4, <2>1, FS_Difference
  <2> QED
    BY <1>4, <2>1, <2>2 DEF Unacked
<1>6. Held' = Entries(queue)
  <2>1. Entries(batch') = {}
    BY <1>1, NothingHeld
  <2> QED
    BY <1>1, <2>1 DEF Held
<1>7. \A d \in Calls : Stored(d)' <=> Stored(d)
  BY <1>1 DEF Stored, Entry
<1>8. /\ \A e \in B : call[e].st = "returned"
      /\ \A e \in Acked(batch) : call[e].st \in {"waiting", "dropped"} /\ e \in Entries(batch)
  <2>1. ASSUME NEW e \in B PROVE call[e].st = "returned"
    <3>1. PICK c \in Commands(batch) : c.cmd = "append" /\ c.call = e
      BY <1>4 DEF Entries
    <3>2. ~c.ack
      BY <1>4, <3>1 DEF Acked
    <3> QED
      BY <1>0, <3>1, <3>2 DEF HeldOK, WaitsFor
  <2>2. ASSUME NEW e \in Acked(batch)
        PROVE  call[e].st \in {"waiting", "dropped"} /\ e \in Entries(batch)
    <3>1. PICK c \in Commands(batch) : c.cmd = "append" /\ c.call = e /\ c.ack
      BY DEF Acked
    <3> QED
      BY <1>0, <3>1 DEF HeldOK, WaitsFor, Entries
  <2> QED
    BY <2>1, <2>2
<1>9. Counting' => Counting
  BY <1>2, <1>3 DEF Counting
<1>10. ASSUME Counting', NEW e \in Calls
       PROVE  (IsMissing(e)' <=> (IsMissing(e) \/ e \in B)) /\ (e \in B => ~IsMissing(e))
  <2>1. CASE e \in B
    <3>1. call[e].st = "returned" /\ e \in Entries(batch) /\ e \notin Acked(batch)
      BY <1>4, <1>8, <2>1
    <3>2. call'[e] = call[e]
      BY <1>2, <3>1
    <3>3. ~Stored(e) /\ e \notin Entries(queue)
      BY <1>0, <1>3, <3>1 DEF HeldOK
    <3>4. IsMissing(e)'
      BY <1>6, <1>7, <3>1, <3>2, <3>3 DEF IsMissing
    <3>5. ~IsMissing(e)
      BY <3>1 DEF IsMissing, Held
    <3> QED
      BY <2>1, <3>4, <3>5
  <2>2. CASE e \in Acked(batch)
    <3>1. call[e].st = "waiting"
      BY <1>8, <1>9, <1>10, <2>2 DEF Counting
    <3>2. call'[e].st = "nacked"
      BY <1>2, <2>2, <3>1
    <3> QED
      BY <1>4, <2>2, <3>1, <3>2 DEF IsMissing
  <2>3. CASE e \notin Entries(batch)
    <3>1. e \notin Acked(batch)
      BY <1>8, <2>3
    <3>2. call'[e] = call[e] /\ (e \in Held <=> e \in Entries(queue))
      BY <1>2, <2>3, <3>1 DEF Held
    <3> QED
      BY <1>4, <1>6, <1>7, <2>3, <3>2 DEF IsMissing
  <2> QED
    BY <1>4, <2>1, <2>2, <2>3
<1>11. Tally' = Tally + Cardinality(B) /\ Tally \in Int
  <2>1. CASE FinishFailed
    <3>1. /\ phase = "failed" /\ phase' = "after" /\ count' = count + reporting + Unacked(batch)
      BY <2>1 DEF FinishFailed, Finish, Thread
    <3>2. Owed = reporting /\ Owed' = 0
      BY <3>1 DEF Owed
    <3> QED
      BY <1>0, <1>3, <1>5, <3>1, <3>2 DEF Tally
  <2>2. CASE Panic
    <3>1. phase \in {"append", "after"} /\ phase' = "panicked" /\ UNCHANGED <<count, in_flight>>
      BY <2>2 DEF Panic, Thread, lost
    <3>2. Owed' = in_flight
      BY <3>1 DEF Owed
    <3>3. CASE phase = "append"
      <4>1. in_flight = reporting + Unacked(batch) /\ Owed = reporting
        BY <1>0, <3>3 DEF PhaseOK, Locked, Owed
      <4> QED
        BY <1>0, <1>3, <1>5, <3>1, <3>2, <4>1 DEF Tally
    <3>4. CASE phase = "after"
      <4>1. in_flight = 0 /\ Owed = 0 /\ batch = << >>
        BY <1>0, <3>4 DEF PhaseOK, Locked, Owed
      <4>2. B = {}
        BY <1>4, <4>1, NothingHeld
      <4>3. Cardinality(B) = 0
        BY <4>2, FS_EmptySet
      <4> QED
        BY <1>0, <1>3, <3>1, <3>2, <4>1, <4>3 DEF Tally
    <3> QED
      BY <3>1, <3>3, <3>4
  <2> QED
    BY <2>1, <2>2
<1> QED
  BY <1>5, <1>9, <1>10, <1>11, LossMore

\* The batch was stored: nothing of it is missing.
LEMMA BatchStored ==
    ASSUME WriterInv, LossOK, FinishOk
    PROVE  LossOK'
<1>0. /\ Typed /\ HeldOK /\ WrittenOK /\ batch \in Seq(Command)
      /\ count \in Nat /\ reported \in Nat
  BY CommandTypes, SeqMonotonic DEF WriterInv, Typed
<1>1. /\ phase = "ok" /\ phase' = "after" /\ count' = count /\ reported' = reported
      /\ crashes' = crashes
  BY DEF FinishOk, Finish, Thread
<1>2. batch' = << >> /\ UNCHANGED <<queue, trail>>
  BY <1>0, Lets
<1>3. \A e \in Calls : IF e \in Acked(batch) /\ call[e].st = "waiting"
                       THEN call'[e].st = "acked" ELSE call'[e] = call[e]
  BY <1>0, Lets
<1>4. Held' = Entries(queue)
  <2>1. Entries(batch') = {}
    BY <1>2, NothingHeld
  <2> QED
    BY <1>2, <2>1 DEF Held
<1>5. \A d \in Calls : Stored(d)' <=> Stored(d)
  BY <1>2 DEF Stored, Entry
<1>6. ASSUME NEW e \in Entries(batch) PROVE Stored(e)
  <2>1. PICK i \in DOMAIN batch : batch[i].call = e
    BY DEF Entries, Commands
  <2>2. PICK b, k : b = BatchEntries /\ k = Len(trail) - Len(b) + i
    OBVIOUS
  <2>3. trail[k] = Entry(e) /\ Len(trail) >= Len(b)
    BY <1>0, <1>1, <2>1, <2>2 DEF WrittenOK
  <2>4. Len(b) \in Nat /\ Len(batch) <= Len(b) /\ Len(batch) \in Nat
    BY <1>0, <2>2, BatchIs
  <2>5. i \in 1 .. Len(batch) /\ Len(trail) \in Nat /\ DOMAIN trail = 1 .. Len(trail)
    BY <1>0, LenProperties DEF Typed
  <2>6. k \in DOMAIN trail
    BY <2>2, <2>3, <2>4, <2>5
  <2> QED
    BY <2>3, <2>6 DEF Stored
<1>7. Acked(batch) \subseteq Entries(batch)
  BY <1>0, EntriesFinite
<1>8. Counting' => Counting
  BY <1>1, <1>3 DEF Counting
<1>9. ASSUME NEW e \in Calls
      PROVE  IsMissing(e)' <=> IsMissing(e)
  <2>1. CASE e \in Acked(batch) /\ call[e].st = "waiting"
    BY <1>3, <2>1 DEF IsMissing
  <2>2. CASE ~(e \in Acked(batch) /\ call[e].st = "waiting") /\ e \in Entries(batch)
    <3>1. call'[e] = call[e] /\ Stored(e)
      BY <1>3, <1>6, <2>2
    <3> QED
      BY <1>5, <3>1 DEF IsMissing
  <2>3. CASE e \notin Entries(batch)
    <3>1. call'[e] = call[e] /\ (e \in Held <=> e \in Entries(queue))
      BY <1>3, <1>7, <2>3 DEF Held
    <3> QED
      BY <1>4, <1>5, <3>1 DEF IsMissing
  <2> QED
    BY <2>1, <2>2, <2>3
<1>10. Tally' = Tally
  <2>1. Owed = 0 /\ Owed' = 0
    BY <1>1 DEF Owed
  <2> QED
    BY <1>1, <2>1 DEF Tally
<1> QED
  BY <1>8, <1>9, <1>10, LossSame

LEMMA AppendLoss ==
    ASSUME WriterInv, LossOK, AppendOk
    PROVE  LossOK'
<1>0. Typed /\ count \in Nat /\ reported \in Nat /\ reporting \in Nat
  BY DEF WriterInv, Typed
<1>1. UNCHANGED <<queue, batch, call, crashes, count>> /\ reported' = reported + reporting
      /\ phase = "append" /\ phase' = "ok"
  BY DEF AppendOk, Thread, lost
<1>2. Counting' = Counting /\ Held' = Held
  BY <1>1 DEF Counting, Held
<1>3. \A e \in Calls : IsMissing(e)' <=> IsMissing(e)
  <2>1. \A e \in Calls : Stored(e)' <=> (Stored(e) \/ e \in Entries(batch))
    BY <1>0, AppendStores
  <2> QED
    BY <1>1, <1>2, <2>1 DEF IsMissing, Held
<1>4. Tally' = Tally
  <2>1. Owed = reporting /\ Owed' = 0
    BY <1>1 DEF Owed
  <2> QED
    BY <1>0, <1>1, <2>1 DEF Tally
<1> QED
  BY <1>2, <1>3, <1>4, LossSame

(***************************************************************************)
(* While the process runs, every entry that record let go and that is not  *)
(* stored is counted or reported, and only once, through full queues,      *)
(* failed appends, panics and changes of the fail mode (mod.rs, record,    *)
(* record_committed, write_batch and LostEvents).                          *)
(***************************************************************************)
THEOREM LossesAreCounted == Spec => []LossAccounted
<1>1. Init => LossOK
  <2> SUFFICES ASSUME Init PROVE LossOK
    OBVIOUS
  <2>1. Missing = {}
    BY DEF Init, Missing, Fresh
  <2>2. Tally = 0
    BY DEF Init, Tally, Owed
  <2> QED
    BY <2>1, <2>2, FS_EmptySet DEF LossOK, Tally
<1>2. WriterInv /\ LossOK /\ [Next]_vars => LossOK'
  <2> SUFFICES ASSUME WriterInv, LossOK, [Next]_vars PROVE LossOK'
    OBVIOUS
  <2>0. /\ Typed /\ PhaseOK /\ HeldOK /\ count \in Nat /\ reported \in Nat /\ reporting \in Nat
        /\ in_flight \in Nat /\ crashes \in Nat
    BY DEF WriterInv, Typed
  <2>1. CASE (\E closed \in FailModes : apply(closed)) \/ save \/ UNCHANGED vars
    <3>1. UNCHANGED <<call, trail, crashes, queue, batch, phase, reporting, in_flight, reported, count>>
      BY <2>1 DEF apply, save, thread, clients, lost, vars
    <3>2. Held' = Held /\ Tally' = Tally
      BY <3>1 DEF Held, Tally, Owed
    <3> QED
      BY <3>1, <3>2, LossQuiet
  <2>2. CASE Collected \/ Begin \/ AppendFailed \/ After \/ Reopen
    <3>1. UNCHANGED <<call, trail, crashes, queue, batch, reported>>
      BY <2>2 DEF Collected, Begin, AppendFailed, After, Reopen, Thread
    <3>2. Tally' = Tally
      <4>1. CASE Collected \/ AppendFailed \/ After
        BY <4>1 DEF Collected, AppendFailed, After, Thread, lost, Tally, Owed
      <4>2. CASE Begin
        BY <2>0, <4>2 DEF Begin, Thread, Tally, Owed
      <4>3. CASE Reopen
        BY <2>0, <4>3 DEF Reopen, Thread, Tally, Owed
      <4> QED
        BY <2>2, <4>1, <4>2, <4>3
    <3>3. Held' = Held
      BY <3>1 DEF Held
    <3> QED
      BY <3>1, <3>2, <3>3, LossQuiet
  <2>3. CASE FlushSent \/ run_retention
    <3>1. PICK c \in {Prune, Flush} : queue' = Append(queue, c)
      BY <2>3 DEF FlushSent, run_retention
    <3>2. UNCHANGED <<call, trail, crashes, batch, phase, reporting, in_flight, reported, count>>
      BY <2>3 DEF FlushSent, run_retention, thread, lost
    <3>3. Commands(queue') = Commands(queue) \cup {c} /\ c.cmd # "append"
      BY <2>0, <3>1, QueueGets, CommandTypes DEF Typed
    <3>4. Entries(queue') = Entries(queue)
      BY <3>3, EntriesGrow
    <3>5. Held' = Held /\ Tally' = Tally
      BY <3>2, <3>4 DEF Held, Tally, Owed
    <3> QED
      BY <3>2, <3>5, LossQuiet
  <2>4. CASE Receive
    <3>1. UNCHANGED <<call, trail, crashes, reporting, in_flight, reported, count>>
          /\ phase \in {"recv", "collect"} /\ phase' \in {"collect", "collected"}
      BY <2>4 DEF Receive, Thread, lost
    <3>2. Commands(queue) = {Head(queue)} \cup Commands(queue') /\ Head(queue) \in Command
      BY <2>0, <2>4, QueueGives DEF Receive
    <3>3. Held' = Held
      <4>1. PICK h : h = Head(queue)
        OBVIOUS
      <4>2. CASE h.cmd = "append"
        <5>1. h \in Entering /\ batch' = Append(batch, h) /\ batch \in Seq(Entering)
          BY <2>0, <2>4, <3>2, <4>1, <4>2, CommandTypes DEF Receive, Typed
        <5>2. Commands(batch') = Commands(batch) \cup {h}
          BY <5>1, CommandsGrow DEF Commands
        <5>3. Entries(queue) = Entries(queue') \cup {h.call} /\ Entries(batch') = Entries(batch) \cup {h.call}
          BY <3>2, <4>1, <4>2, <5>2 DEF Entries
        <5> QED
          BY <5>3 DEF Held
      <4>3. CASE h.cmd # "append"
        <5>1. batch' = batch
          BY <2>4, <4>1, <4>3 DEF Receive
        <5>2. Entries(queue) = Entries(queue')
          BY <3>2, <4>1, <4>3 DEF Entries
        <5> QED
          BY <5>1, <5>2 DEF Held
      <4> QED
        BY <4>2, <4>3
    <3>4. Tally' = Tally
      BY <3>1 DEF Tally, Owed
    <3> QED
      BY <3>1, <3>3, <3>4, LossQuiet
  <2>5. CASE GiveUp \/ Crash \/ start
    <3>1. crashes' # 0
      <4>1. CASE GiveUp \/ Crash
        BY <2>0, <4>1 DEF GiveUp, Crash, End
      <4>2. CASE start
        BY <2>0, <4>2 DEF start, PhaseOK
      <4> QED
        BY <2>5, <4>1, <4>2
    <3> QED
      BY <3>1 DEF LossOK
  <2> QED
    BY <2>1, <2>2, <2>3, <2>4, <2>5, CallersLoss, BatchLost, BatchStored, AppendLoss
       DEF Next, WriterSteps
<1>3. LossOK => LossAccounted
  BY DEF LossOK, LossAccounted
<1> QED
  BY <1>1, <1>2, <1>3, WriterInvariance, PTL DEF Spec
-------------------------------------------------------------------------------
(***************************************************************************)
(* The pipeline implements AuditService                                    *)
(***************************************************************************)
\* The command that ended a batch is there only behind that batch, and only a batch that
\* has entries is written.
AfterOK ==
    /\ phase \in {"recv", "collect", "panicked"} => after = << >>
    /\ Locked => batch # << >>
    /\ ~up => phase = "recv"

\* The file never holds more losses than there were.
FileOK == up => file <= reported + count + Owed

\* What was refused, or counted by its caller, is not in the trail.
RefusedOK == \A e \in Calls : call[e].st \in {"nacked", "refused", "lost"} => ~Stored(e)

LineInv == WriterInv /\ AfterOK /\ FileOK /\ RefusedOK

\* Every step keeps what ends a batch behind the batch.
LEMMA NextAfter ==
    ASSUME WriterInv, AfterOK, [Next]_vars
    PROVE  AfterOK'
<1>0. Typed /\ PhaseOK
  BY DEF WriterInv
<1>1. ASSUME UNCHANGED <<up, phase, after, batch>>
      PROVE  AfterOK'
  BY <1>1 DEF AfterOK, Locked
<1>2. ASSUME NEW e \in Calls, CallerSteps(e)
      PROVE  UNCHANGED <<up, phase, after, batch>>
  BY <1>0, <1>2, CallerMoves DEF thread
<1>3. CASE FlushSent \/ run_retention \/ (\E closed \in FailModes : apply(closed)) \/ save \/ UNCHANGED vars
  <2>1. UNCHANGED <<up, phase, after, batch>>
    BY <1>3 DEF FlushSent, run_retention, apply, save, thread, vars
  <2> QED
    BY <1>1, <2>1
<1>4. CASE Receive
  <2>1. up /\ up' = up /\ phase \in {"recv", "collect"} /\ phase' \in {"collect", "collected"}
    BY <1>4 DEF Receive, Thread
  <2>2. phase' = "collect" => after' = after
    BY <1>4 DEF Receive, Thread
  <2> QED
    BY <2>1, <2>2 DEF AfterOK, Locked
<1>5. CASE Collected \/ Begin \/ AppendOk \/ AppendFailed \/ FinishOk \/ FinishFailed \/ After \/ Panic \/ Reopen
  <2>1. up /\ up' = up
    BY <1>5 DEF Collected, Begin, AppendOk, AppendFailed, FinishOk, FinishFailed, Finish, After, Panic,
         Reopen, Thread
  <2>2. CASE Collected \/ FinishOk \/ FinishFailed
    BY <2>1, <2>2 DEF Collected, FinishOk, FinishFailed, Finish, Thread, AfterOK, Locked
  <2>3. CASE Begin \/ AppendOk \/ AppendFailed
    BY <2>1, <2>3 DEF Begin, AppendOk, AppendFailed, Thread, AfterOK, Locked
  <2>4. CASE After \/ Panic \/ Reopen
    BY <2>1, <2>4 DEF After, Panic, Reopen, Answered, Thread, AfterOK, Locked
  <2> QED
    BY <1>5, <2>2, <2>3, <2>4
<1>6. CASE GiveUp \/ Crash
  BY <1>6 DEF GiveUp, Crash, End, AfterOK, Locked
<1>7. CASE start
  BY <1>7 DEF start, thread, AfterOK, Locked
<1> QED
  BY <1>1, <1>2, <1>3, <1>4, <1>5, <1>6, <1>7 DEF Next, WriterSteps

\* Every step keeps the file no higher than the losses there were.
LEMMA NextFile ==
    ASSUME WriterInv, AfterOK, FileOK, [Next]_vars
    PROVE  FileOK'
<1>0. /\ Typed /\ PhaseOK /\ batch \in Seq(Command) /\ Unacked(batch) \in Nat /\ Owed \in Nat
      /\ count \in Nat /\ reporting \in Nat /\ reported \in Nat /\ file \in Nat /\ in_flight \in Nat
  BY CommandTypes, SeqMonotonic, EntriesFinite DEF WriterInv, Typed, Owed
<1>1. ASSUME up, file' = file, NEW r \in Nat, NEW c \in Nat, NEW o \in Nat,
             reported' = r, count' = c, Owed' = o, r + c + o >= reported + count + Owed
      PROVE  FileOK'
  <2>1. file <= reported + count + Owed
    BY <1>1 DEF FileOK
  <2>2. file <= r + c + o
    BY <1>0, <1>1, <2>1
  <2> QED
    BY <1>1, <2>2 DEF FileOK
<1>2. ASSUME NEW e \in Calls, CallerSteps(e)
      PROVE  FileOK'
  <2>1. UNCHANGED <<up, phase, reporting, reported>> /\ count' \in {count, count + 1}
    BY <1>0, <1>2, CallerMoves DEF thread
  <2>2. UNCHANGED <<in_flight, file>> /\ up
    BY <1>2 DEF lost, CallerSteps, record, Offered, QueueWaitOver, record_committed, Sent, Committed,
         NotCommitted, Cancel, Caller
  <2>3. Owed' = Owed
    BY <2>1, <2>2 DEF Owed
  <2>4. PICK c \in Nat : count' = c /\ c >= count
    BY <1>0, <2>1
  <2>5. reported' = reported /\ file' = file
    BY <2>1, <2>2
  <2> QED
    BY <1>0, <1>1, <2>2, <2>3, <2>4, <2>5
<1>3. CASE FlushSent \/ run_retention \/ (\E closed \in FailModes : apply(closed)) \/ UNCHANGED vars
  <2>1. UNCHANGED <<up, phase, reporting, in_flight, reported, file, count>>
    BY <1>3 DEF FlushSent, run_retention, apply, thread, lost, vars
  <2> QED
    BY <2>1 DEF FileOK, Owed
<1>4. CASE Receive \/ Collected \/ AppendFailed \/ After
  <2>1. up /\ Owed' = Owed /\ UNCHANGED <<reported, file, count>>
    BY <1>4 DEF Receive, Collected, AppendFailed, After, Owed, Thread, lost
  <2> QED
    BY <1>0, <1>1, <2>1
<1>5. CASE Begin
  <2>1. up /\ Owed = 0 /\ Owed' = count /\ count' = 0 /\ UNCHANGED <<reported, file>>
    BY <1>5 DEF Begin, Owed, Thread
  <2> QED
    BY <1>0, <1>1, <2>1
<1>6. CASE AppendOk
  <2>1. up /\ Owed = reporting /\ Owed' = 0 /\ reported' = reported + reporting /\ UNCHANGED <<file, count>>
    BY <1>6 DEF AppendOk, Owed, Thread, lost
  <2> QED
    BY <1>0, <1>1, <2>1
<1>7. CASE Panic
  <2>1. up /\ Owed' = in_flight /\ UNCHANGED <<reported, file, count, in_flight>> /\ phase \in {"append", "after"}
    BY <1>7 DEF Panic, Owed, Thread, lost
  <2>2. Owed' >= Owed
    BY <1>0, <2>1 DEF PhaseOK, Owed, Locked
  <2> QED
    BY <1>0, <1>1, <2>1, <2>2
<1>8. CASE Reopen
  <2>1. up /\ Owed = in_flight /\ Owed' = 0 /\ count' = count + in_flight /\ UNCHANGED <<reported, file>>
    BY <1>8 DEF Reopen, Owed, Thread
  <2> QED
    BY <1>0, <1>1, <2>1
<1>9. ASSUME NEW now \in Nat, NEW o \in Nat, up, save_locked(now), count' = now, reported' = reported,
             Owed' = o, now + o >= count + Owed
      PROVE  FileOK'
  <2>1. file' \in {now, file}
    BY <1>9 DEF save_locked
  <2>2. file <= reported + count + Owed
    BY <1>9 DEF FileOK
  <2>3. file' <= reported + now + o
    <3>1. CASE file' = now
      BY <1>0, <1>9, <3>1
    <3>2. CASE file' = file
      BY <1>0, <1>9, <2>2, <3>2
    <3> QED
      BY <2>1, <3>1, <3>2
  <2> QED
    BY <1>9, <2>3 DEF FileOK
<1>10. CASE FinishOk
  <2>1. up /\ save_locked(count) /\ count' = count /\ reported' = reported /\ Owed = 0 /\ Owed' = 0
    BY <1>10 DEF FinishOk, Finish, Thread, Owed
  <2> QED
    BY <1>0, <1>9, <2>1
<1>11. CASE FinishFailed
  <2> DEFINE now == count + reporting + Unacked(batch)
  <2>1. up /\ save_locked(now) /\ count' = now /\ reported' = reported /\ Owed = reporting /\ Owed' = 0
    BY <1>11 DEF FinishFailed, Finish, Thread, Owed
  <2>2. now \in Nat /\ now + Owed' >= count + Owed
    BY <1>0, <2>1
  <2> QED
    BY <1>9, <2>1, <2>2
<1>12. CASE save
  <2>1. up /\ save_locked(count) /\ UNCHANGED <<count, reported, phase, in_flight, reporting>>
    BY <1>12 DEF save, thread
  <2>2. Owed' = Owed
    BY <2>1 DEF Owed
  <2> QED
    BY <1>0, <1>9, <2>1, <2>2
<1>13. CASE GiveUp \/ Crash
  BY <1>13 DEF GiveUp, Crash, End, FileOK
<1>14. CASE start
  <2>1. ~up /\ count' = file /\ UNCHANGED <<phase, reported, file>>
    BY <1>14 DEF start, thread
  <2>2. Owed' = 0
    BY <2>1 DEF AfterOK, Owed
  <2> QED
    BY <1>0, <2>1, <2>2 DEF FileOK
<1> QED
  BY <1>2, <1>3, <1>4, <1>5, <1>6, <1>7, <1>8, <1>10, <1>11, <1>12, <1>13, <1>14 DEF Next, WriterSteps

\* An entry that is refused was in no batch that was written, and is in none after.
LEMMA NextRefused ==
    ASSUME WriterInv, RefusedOK, [Next]_vars
    PROVE  RefusedOK'
<1>0. Typed /\ HeldOK /\ WrittenOK /\ call \in [Calls -> [st : States, seq : Nat]] /\ batch \in Seq(Command)
  BY CommandTypes, SeqMonotonic DEF WriterInv, Typed
<1>1. ASSUME trail' = trail,
             \A e \in Calls : call'[e].st \in {"nacked", "refused", "lost"} =>
                                call[e].st \in {"nacked", "refused", "lost"} \/ ~Stored(e)
      PROVE  RefusedOK'
  BY <1>1 DEF RefusedOK, Stored, Entry
<1>2. ASSUME NEW e \in Calls, CallerSteps(e)
      PROVE  RefusedOK'
  <2>1. trail' = trail
    BY <1>0, <1>2, CallerMoves
  <2>2. PICK to \in States : /\ call' = [call EXCEPT ![e].st = to]
                             /\ to \in {"nacked", "refused", "lost"} => call[e].st \in {"offering", "nacked"}
    <3>1. {"lost", "waiting", "returned"} \subseteq States
      BY DEF States, Pending, Final
    <3> QED
      BY <1>0, <1>2, <3>1, CallerMoves
  <2>3. call'[e].st = to /\ \A d \in Calls : d # e => call'[d] = call[d]
    BY <1>0, <2>2, CallMoves
  <2>4. call[e].st = "offering" => ~Stored(e)
    BY <1>0 DEF HeldOK, NotSent
  <2> QED
    BY <1>1, <2>1, <2>2, <2>3, <2>4
<1>3. CASE AppendOk
  <2>1. \A e \in Calls : Stored(e)' <=> (Stored(e) \/ e \in Entries(batch))
    BY <1>0, <1>3, AppendStores
  <2>2. call' = call
    BY <1>3 DEF AppendOk
  <2>3. \A e \in Entries(batch) : call[e].st \in {"waiting", "dropped", "returned"}
    BY <1>0 DEF HeldOK, WaitsFor, Entries
  <2> QED
    BY <2>1, <2>2, <2>3 DEF RefusedOK
<1>4. CASE FinishOk \/ FinishFailed \/ Panic
  <2>1. trail' = trail
    BY <1>0, <1>4, Lets
  <2>2. PICK to \in {"acked", "nacked"} :
          /\ to = "acked" <=> FinishOk
          /\ \A e \in Calls : IF e \in Acked(batch) /\ call[e].st = "waiting"
                              THEN call'[e].st = to ELSE call'[e] = call[e]
    BY <1>0, <1>4, Lets
  <2>3. CASE to = "acked"
    BY <1>1, <2>1, <2>2, <2>3
  <2>4. CASE to = "nacked"
    <3>1. phase # "ok"
      BY <1>4, <2>2, <2>4 DEF FinishFailed, Panic, Finish, Thread
    <3>2. \A e \in Acked(batch) : ~Stored(e)
      BY <1>0, <3>1, EntriesFinite DEF HeldOK
    <3> QED
      BY <1>1, <2>1, <2>2, <3>2
  <2> QED
    BY <2>3, <2>4
<1>5. CASE GiveUp \/ Crash
  <2>1. End
    BY <1>5 DEF GiveUp, Crash
  <2>2. ASSUME NEW e \in Calls, call'[e].st \in {"nacked", "refused", "lost"}
        PROVE  call'[e] = call[e]
    <3>1. [call[e] EXCEPT !.st = "cut"].st = "cut"
      BY <1>0
    <3> QED
      BY <2>1, <2>2, <3>1 DEF End
  <2> QED
    BY <1>1, <2>1, <2>2 DEF End
<1>6. CASE \/ FlushSent \/ run_retention \/ (\E closed \in FailModes : apply(closed)) \/ save \/ start
           \/ Receive \/ Collected \/ Begin \/ AppendFailed \/ After \/ Reopen \/ UNCHANGED vars
  <2>1. UNCHANGED <<trail, call>>
    BY <1>6 DEF FlushSent, run_retention, apply, save, start, clients, Receive, Collected, Begin,
         AppendFailed, After, Reopen, vars
  <2> QED
    BY <1>1, <2>1
<1> QED
  BY <1>2, <1>3, <1>4, <1>5, <1>6 DEF Next, WriterSteps

\* The invariant of the line holds in every reachable state.
LEMMA LineInvariance == Spec => []LineInv
<1>1. Init => AfterOK /\ FileOK /\ RefusedOK
  BY DEF Init, AfterOK, Locked, FileOK, Owed, RefusedOK, Fresh
<1>2. WriterInv /\ AfterOK /\ FileOK /\ RefusedOK /\ [Next]_vars => (AfterOK /\ FileOK /\ RefusedOK)'
  BY NextAfter, NextFile, NextRefused
<1> QED
  BY <1>1, <1>2, WriterInvariance, PTL DEF Spec, LineInv

\* No entry that was refused, denied after a failed append or a panic, or counted by its own
\* caller, is in the trail, so no loss is counted of what is stored: record_committed and
\* write_batch of mod.rs.
THEOREM RefusedAreNotStored == Spec => []RefusedOK
<1>1. LineInv => RefusedOK
  BY DEF LineInv
<1> QED
  BY <1>1, LineInvariance, PTL

\* The part of the batch that is in the line: all of it until it is written.
Ahead == IF phase = "ok" THEN << >> ELSE batch

\* A command appended to the second of two sequences is appended to both.
LEMMA ConcatAppend ==
    ASSUME NEW S, NEW s \in Seq(S), NEW t \in Seq(S), NEW c \in S
    PROVE  s \o Append(t, c) = Append(s \o t, c)
<1>1. <<c>> \in Seq(S) /\ s \o t \in Seq(S)
  BY ConcatProperties
<1> QED
  BY <1>1, AppendIsConcat, ConcatAssociative

\* The head of a sequence may move to the end of the sequence before it.
LEMMA HeadMoves ==
    ASSUME NEW S, NEW s \in Seq(S), NEW t \in Seq(S), t # << >>
    PROVE  s \o <<Head(t)>> \o Tail(t) = s \o t
<1>1. Head(t) \in S /\ Tail(t) \in Seq(S) /\ <<Head(t)>> \in Seq(S)
  BY HeadTailProperties
<1>2. <<Head(t)>> \o Tail(t) = t
  <2>1. SubSeq(t, 1, Len(t)) = <<t[1]>> \o SubSeq(t, 2, Len(t))
    <3>1. Len(t) \in Nat \ {0}
      BY EmptySeq
    <3>2. 1 \in 1 .. Len(t) /\ Len(t) \in 1 .. Len(t)
      BY <3>1
    <3>3. SubSeq(t, 1, Len(t)) = <<t[1]>> \o SubSeq(t, 1 + 1, Len(t))
      BY <3>2, SubSeqRecursiveFirst
    <3> QED
      BY <3>3
  <2>2. Head(t) = t[1]
    BY CommandsShrink
  <2> QED
    BY <2>1, <2>2, SubSeqFull, TailIsSubSeq
<1> QED
  BY <1>1, <1>2, ConcatAssociative

\* What is behind the first of two sequences is the second.
LEMMA RestIs ==
    ASSUME NEW S, NEW s \in Seq(S), NEW t \in Seq(S)
    PROVE  SubSeq(s \o t, Len(s) + 1, Len(s \o t)) = t
<1>1. Len(s) \in Nat /\ Len(t) \in Nat /\ s \o t \in Seq(S) /\ Len(s \o t) = Len(s) + Len(t)
  BY ConcatProperties, LenProperties
<1>2. CASE t = << >>
  BY <1>1, <1>2, SubSeqEmpty, EmptySeq
<1>3. CASE t # << >>
  <2>1. Len(t) \in Nat \ {0}
    BY <1>3, EmptySeq
  <2>2. /\ Len(s) + 1 \in Len(s) + 1 .. Len(s) + Len(t)
        /\ Len(s) + Len(t) \in Len(s) + 1 .. Len(s) + Len(t)
    BY <1>1, <2>1
  <2>3. SubSeq(s \o t, Len(s) + 1, Len(s) + Len(t))
          = SubSeq(t, (Len(s) + 1) - Len(s), (Len(s) + Len(t)) - Len(s))
    BY <2>2, SubSeqOfConcat2
  <2>4. (Len(s) + 1) - Len(s) = 1 /\ (Len(s) + Len(t)) - Len(s) = Len(t)
    BY <1>1
  <2> QED
    BY <1>1, <2>3, <2>4, SubSeqFull
<1> QED
  BY <1>2, <1>3

\* The line is the batch, what ended it, and the queue; its types and its length.
LEMMA LineIs ==
    ASSUME Typed
    PROVE  /\ Ahead \in Seq(Command) /\ after \in Seq(Command) /\ queue \in Seq(Command)
           /\ Line = Ahead \o after \o queue /\ Line \in Seq(Command)
           /\ Line = Ahead \o (after \o queue) /\ after \o queue \in Seq(Command)
           /\ Len(Line) = Len(Ahead) + Len(after) + Len(queue)
           /\ Len(Ahead) \in Nat /\ Len(after) \in Nat /\ Len(queue) \in Nat
<1>1. batch \in Seq(Command) /\ << >> \in Seq(Command) /\ queue \in Seq(Command)
  BY CommandTypes, SeqMonotonic, EmptySeq DEF Typed
<1>2. Ahead \in Seq(Command) /\ after \in Seq(Command)
  <2>1. <<Prune>> \in Seq(Command) /\ <<Flush>> \in Seq(Command)
    BY CommandTypes
  <2> QED
    BY <1>1, <2>1 DEF Ahead, Typed
<1>3. Line = Ahead \o after \o queue
  BY DEF Line, Ahead
<1>4. Ahead \o after \in Seq(Command) /\ Len(Ahead \o after) = Len(Ahead) + Len(after)
  BY <1>2, ConcatProperties
<1>5. Line \in Seq(Command) /\ Len(Line) = Len(Ahead \o after) + Len(queue)
  BY <1>1, <1>3, <1>4, ConcatProperties
<1>6. Line = Ahead \o (after \o queue) /\ after \o queue \in Seq(Command)
  <2>1. Ahead \o (after \o queue) = (Ahead \o after) \o queue
    BY <1>1, <1>2, ConcatAssociative
  <2>2. after \o queue \in Seq(Command)
    BY <1>1, <1>2, ConcatProperties
  <2> QED
    BY <1>3, <2>1, <2>2
<1>7. Len(Ahead) \in Nat /\ Len(after) \in Nat /\ Len(queue) \in Nat
  BY <1>1, <1>2, LenProperties
<1> QED
  BY <1>1, <1>2, <1>3, <1>4, <1>5, <1>6, <1>7

\* A command that gets into the queue is the last of the line.
LEMMA LineGets ==
    ASSUME Typed, NEW c \in Command, queue' = Append(queue, c), UNCHANGED <<phase, batch, after>>
    PROVE  Line' = Append(Line, c)
<1>1. Line' = Ahead \o after \o Append(queue, c)
  BY DEF Line, Ahead
<1>2. Ahead \o after \in Seq(Command) /\ queue \in Seq(Command) /\ Line = Ahead \o after \o queue
  BY LineIs, ConcatProperties
<1> QED
  BY <1>1, <1>2, ConcatAppend

\* The writer takes a command over without a change of the line.
LEMMA LineKeeps ==
    ASSUME Typed, AfterOK, Receive
    PROVE  Line' = Line
<1> DEFINE h == Head(queue)
<1>1. /\ queue # << >> /\ queue' = Tail(queue) /\ phase # "ok" /\ phase' # "ok" /\ after = << >>
      /\ Ahead = batch /\ queue \in Seq(Command) /\ batch \in Seq(Command)
  BY LineIs DEF Receive, Thread, AfterOK, Ahead
<1>2. h \in Command /\ Tail(queue) \in Seq(Command)
  BY <1>1, HeadTailProperties
<1>3. Line = batch \o queue
  BY <1>1, LineIs, ConcatEmptySeq
<1>4. CASE h.cmd = "append"
  <2>1. Line' = Append(batch, h) \o << >> \o Tail(queue)
    BY <1>1, <1>4 DEF Receive, Line
  <2>2. Append(batch, h) = batch \o <<h>> /\ Append(batch, h) \in Seq(Command)
    BY <1>1, <1>2, AppendIsConcat, AppendProperties
  <2>3. Line' = batch \o <<h>> \o Tail(queue)
    BY <2>1, <2>2, ConcatEmptySeq
  <2> QED
    BY <1>1, <1>3, <2>3, HeadMoves
<1>5. CASE h.cmd # "append"
  <2>1. Line' = batch \o <<h>> \o Tail(queue)
    BY <1>1, <1>5 DEF Receive, Line
  <2> QED
    BY <1>1, <1>3, <2>1, HeadMoves
<1> QED
  BY <1>4, <1>5

\* Two sequences in one hold the commands of both.
LEMMA ConcatHolds ==
    ASSUME NEW S, NEW s \in Seq(S), NEW t \in Seq(S)
    PROVE  Commands(s \o t) = Commands(s) \cup Commands(t)
<1> DEFINE u == s \o t
<1>1. /\ Len(s) \in Nat /\ Len(t) \in Nat /\ DOMAIN s = 1 .. Len(s) /\ DOMAIN t = 1 .. Len(t)
      /\ DOMAIN u = 1 .. Len(s) + Len(t)
      /\ \A i \in 1 .. Len(s) + Len(t) : u[i] = IF i <= Len(s) THEN s[i] ELSE t[i - Len(s)]
  BY ConcatProperties, LenProperties
<1> HIDE DEF u
<1>2. Commands(u) \subseteq Commands(s) \cup Commands(t)
  <2> SUFFICES ASSUME NEW i \in 1 .. Len(s) + Len(t)
               PROVE  u[i] \in Commands(s) \cup Commands(t)
    BY <1>1 DEF Commands
  <2>1. CASE i <= Len(s)
    BY <1>1, <2>1 DEF Commands
  <2>2. CASE i > Len(s)
    <3>1. i - Len(s) \in DOMAIN t /\ u[i] = t[i - Len(s)]
      BY <1>1, <2>2
    <3> QED
      BY <3>1 DEF Commands
  <2> QED
    BY <1>1, <2>1, <2>2
<1>3. ASSUME NEW i \in DOMAIN s
      PROVE  s[i] \in Commands(u)
  <2>1. i \in DOMAIN u /\ u[i] = s[i]
    BY <1>1
  <2> QED
    BY <2>1 DEF Commands
<1>4. ASSUME NEW i \in DOMAIN t
      PROVE  t[i] \in Commands(u)
  <2>1. Len(s) + i \in DOMAIN u /\ u[Len(s) + i] = t[i]
    BY <1>1
  <2> QED
    BY <2>1 DEF Commands
<1>5. Commands(s) \subseteq Commands(u) /\ Commands(t) \subseteq Commands(u)
  BY <1>3, <1>4 DEF Commands
<1> QED
  BY <1>2, <1>5 DEF u

\* What the line holds.
LEMMA LineHolds ==
    ASSUME Typed
    PROVE  /\ Commands(Line) = Commands(Ahead) \cup Commands(after) \cup Commands(queue)
           /\ \A i \in DOMAIN Line : Line[i] \in Commands(Line)
           /\ Commands(Ahead) \subseteq Commands(batch)
           /\ \A c \in Commands(after) : c.cmd # "append"
<1>1. Commands(Line) = Commands(Ahead) \cup Commands(after) \cup Commands(queue)
  <2>1. Ahead \o after \in Seq(Command) /\ Commands(Ahead \o after) = Commands(Ahead) \cup Commands(after)
    BY LineIs, ConcatHolds, ConcatProperties
  <2>2. PICK u \in Seq(Command) : u = Ahead \o after
    BY <2>1
  <2>3. Commands(u \o queue) = Commands(u) \cup Commands(queue)
    BY LineIs, ConcatHolds
  <2> QED
    BY <2>1, <2>2, <2>3, LineIs
<1>2. Commands(Ahead) \subseteq Commands(batch)
  BY NothingHeld DEF Ahead
<1>3. \A c \in Commands(after) : c.cmd # "append"
  <2>1. \A c : Commands(<<c>>) = {c}
    BY DEF Commands
  <2> QED
    BY <2>1, NothingHeld, CommandTypes DEF Typed
<1> QED
  BY <1>1, <1>2, <1>3 DEF Commands

\* What the callers see of a call that moves.
LEMMA FateMoves ==
    ASSUME Typed, NEW e \in Calls, NEW to \in States \ {"acked", "nacked"},
           call' = [call EXCEPT ![e].st = to], call[e].st # "stored"
    PROVE  /\ Fate' = [Fate EXCEPT ![e] = to]
           /\ to # "stored" => Number' = Number
           /\ to = "stored" => Number' = [Number EXCEPT ![e] = call[e].seq]
<1>1. /\ call'[e].st = to /\ call'[e].seq = call[e].seq
      /\ \A d \in Calls : d # e => call'[d] = call[d]
  BY CallMoves
<1>2. Fate' = [Fate EXCEPT ![e] = to]
  <2>1. ASSUME NEW d \in Calls PROVE Fate'[d] = [Fate EXCEPT ![e] = to][d]
    BY <1>1 DEF Fate
  <2>2. Fate' = [d \in Calls |-> Fate'[d]] /\ Fate = [d \in Calls |-> Fate[d]]
    BY DEF Fate
  <2> QED
    BY <2>1, <2>2
<1>3. ASSUME to # "stored" PROVE Number' = Number
  BY <1>1, <1>3 DEF Number
<1>4. ASSUME to = "stored" PROVE Number' = [Number EXCEPT ![e] = call[e].seq]
  <2>1. ASSUME NEW d \in Calls PROVE Number'[d] = [Number EXCEPT ![e] = call[e].seq][d]
    BY <1>1, <1>4 DEF Number
  <2>2. Number' = [d \in Calls |-> Number'[d]] /\ Number = [d \in Calls |-> Number[d]]
    BY DEF Number
  <2> QED
    BY <2>1, <2>2
<1> QED
  BY <1>2, <1>3, <1>4

\* A caller's step leaves the writer and the records alone.
LEMMA CallerSees ==
    ASSUME Typed, NEW e \in Calls, NEW from \in States \ {"stored"}, NEW to \in States \ {"acked", "nacked"},
           Caller(e, from, to), UNCHANGED <<in_flight, file>>
    PROVE  /\ up /\ call[e].st = from /\ call' = [call EXCEPT ![e].st = to]
           /\ Service!Becomes(e, IF from \in {"acked", "nacked"} THEN "waiting" ELSE from, to)
           /\ to # "stored" => Number' = Number
           /\ to = "stored" => Number' = [Number EXCEPT ![e] = call[e].seq]
           /\ phase' = phase /\ batch' = batch /\ after' = after
           /\ queue' = queue => Line' = Line
           /\ Debt = count + Owed /\ Debt' = count' + Owed
<1>1. /\ up /\ call[e].st = from /\ call' = [call EXCEPT ![e].st = to]
      /\ UNCHANGED <<up, fail_closed, flush, phase, batch, after, reporting, trail, reported>>
  BY DEF Caller, thread
<1>2. /\ Fate' = [Fate EXCEPT ![e] = to]
      /\ to # "stored" => Number' = Number
      /\ to = "stored" => Number' = [Number EXCEPT ![e] = call[e].seq]
  BY <1>1, FateMoves
<1>3. Fate[e] = IF from \in {"acked", "nacked"} THEN "waiting" ELSE from
  BY <1>1 DEF Fate
<1>4. Service!Becomes(e, IF from \in {"acked", "nacked"} THEN "waiting" ELSE from, to)
  BY <1>1, <1>2, <1>3 DEF Service!Becomes
<1>5. queue' = queue => Line' = Line
  BY <1>1 DEF Line
<1>6. Owed' = Owed
  BY <1>1 DEF Owed
<1>7. Debt = count + Owed /\ Debt' = count' + Owed
  BY <1>1, <1>6 DEF Debt
<1> QED
  BY <1>1, <1>2, <1>4, <1>5, <1>7

\* A step of a caller is a step of the service.
LEMMA CallersServe ==
    ASSUME LineInv, AckNamesRecord, NEW e \in Calls, CallerSteps(e)
    PROVE  \/ Service!Wait(e) \/ Service!Enter(e) \/ Service!TurnAway(e)
           \/ Service!Confirm(e) \/ Service!Deny(e) \/ Service!Abandon(e)
<1> DEFINE S == {"new", "offering", "sending", "waiting", "acked", "nacked", "returned", "lost",
                 "refused", "dropped", "stored"}
<1>0. /\ Typed /\ HeldOK /\ RefusedOK /\ fail_closed \in BOOLEAN /\ count \in Nat /\ Owed \in Nat
      /\ S \subseteq States
  BY DEF LineInv, WriterInv, Typed, Owed, States, Pending, Final
<1>1. ASSUME NEW ack \in BOOLEAN
      PROVE  Append1(e, ack) \in Command /\ Append1(e, ack) = Service!Ask(e, ack)
  BY CommandTypes DEF Append1, Service!Ask
<1>2. CASE record(e)
  <2>1. ~fail_closed /\ UNCHANGED <<in_flight, file, count>>
    BY <1>2 DEF record, lost
  <2>2. CASE Room
    <3>0. queue' = Append(queue, Append1(e, FALSE))
      BY <1>2, <2>2 DEF record
    <3>1. Caller(e, "new", "returned")
      BY <1>2, <2>2 DEF record
    <3>2. /\ Service!Becomes(e, "new", "returned") /\ Number' = Number
          /\ phase' = phase /\ batch' = batch /\ after' = after /\ Debt' = Debt
      BY <1>0, <2>1, <3>1, CallerSees
    <3>3. Line' = Append(Line, Service!Ask(e, FALSE))
      BY <1>0, <1>1, <3>0, <3>2, LineGets
    <3> QED
      BY <2>1, <3>2, <3>3 DEF Service!Enter
  <2>3. CASE ~Room
    <3>1. Caller(e, "new", "offering") /\ queue' = queue
      BY <1>2, <2>3 DEF record
    <3>2. /\ Service!Becomes(e, "new", "offering") /\ Number' = Number
          /\ Line' = Line /\ Debt' = Debt
      BY <1>0, <2>1, <3>1, CallerSees
    <3> QED
      BY <2>1, <3>2 DEF Service!Wait
  <2> QED
    BY <2>2, <2>3
<1>3. CASE Offered(e)
  <2>0. queue' = Append(queue, Append1(e, FALSE))
    BY <1>3 DEF Offered
  <2>1. Caller(e, "offering", "returned") /\ UNCHANGED <<in_flight, file, count>>
    BY <1>3 DEF Offered, lost
  <2>2. /\ Service!Becomes(e, "offering", "returned") /\ Number' = Number
        /\ phase' = phase /\ batch' = batch /\ after' = after /\ Debt' = Debt
    BY <1>0, <2>1, CallerSees
  <2>3. Line' = Append(Line, Service!Ask(e, FALSE))
    BY <1>0, <1>1, <2>0, <2>2, LineGets
  <2> QED
    BY <2>2, <2>3 DEF Service!Enter
<1>4. CASE QueueWaitOver(e)
  <2>1. Caller(e, "offering", "lost") /\ count' = count + 1 /\ UNCHANGED <<in_flight, file, queue>>
    BY <1>4 DEF QueueWaitOver
  <2>2. /\ Service!Becomes(e, "offering", "lost") /\ Number' = Number /\ Line' = Line
        /\ Debt = count + Owed /\ Debt' = count' + Owed
    BY <1>0, <2>1, CallerSees
  <2>3. Debt' = Debt + 1
    BY <1>0, <2>1, <2>2
  <2> QED
    BY <2>2, <2>3 DEF Service!TurnAway
<1>5. CASE record_committed(e)
  <2>1. Caller(e, "new", "sending") /\ UNCHANGED <<in_flight, file, queue, count>>
    BY <1>5 DEF record_committed, lost
  <2>2. Service!Becomes(e, "new", "sending") /\ Number' = Number /\ Line' = Line /\ Debt' = Debt
    BY <1>0, <2>1, CallerSees
  <2> QED
    BY <2>2 DEF Service!Wait
<1>6. CASE Sent(e)
  <2>0. queue' = Append(queue, Append1(e, TRUE))
    BY <1>6 DEF Sent
  <2>1. Caller(e, "sending", "waiting") /\ UNCHANGED <<in_flight, file, count>>
    BY <1>6 DEF Sent, lost
  <2>2. /\ Service!Becomes(e, "sending", "waiting") /\ Number' = Number
        /\ phase' = phase /\ batch' = batch /\ after' = after /\ Debt' = Debt
    BY <1>0, <2>1, CallerSees
  <2>3. Line' = Append(Line, Service!Ask(e, TRUE))
    BY <1>0, <1>1, <2>0, <2>2, LineGets
  <2> QED
    BY <2>2, <2>3 DEF Service!Enter
<1>7. CASE Committed(e)
  <2>1. Caller(e, "acked", "stored") /\ UNCHANGED <<in_flight, file, queue, count>>
    BY <1>7 DEF Committed, lost
  <2>2. /\ Service!Becomes(e, "waiting", "stored") /\ Number' = [Number EXCEPT ![e] = call[e].seq]
        /\ Line' = Line /\ Debt' = Debt /\ call[e].st = "acked"
    BY <1>0, <2>1, CallerSees
  <2>3. call[e].seq \in DOMAIN trail /\ trail[call[e].seq] = Service!Record(e)
    BY <2>2 DEF AckNamesRecord, Entry, Service!Record
  <2> QED
    BY <2>2, <2>3 DEF Service!Confirm
<1>8. CASE NotCommitted(e)
  <2> DEFINE to == IF fail_closed THEN "refused" ELSE "lost"
  <2>1. Caller(e, "nacked", to) /\ UNCHANGED <<in_flight, file, queue>>
        /\ count' = IF fail_closed THEN count ELSE count + 1
    BY <1>8 DEF NotCommitted
  <2>2. /\ Service!Becomes(e, "waiting", to) /\ Number' = Number /\ Line' = Line
        /\ Debt = count + Owed /\ Debt' = count' + Owed /\ call[e].st = "nacked"
    BY <1>0, <2>1, CallerSees
  <2>3. ~Service!InLog(e)
    BY <1>0, <2>2 DEF RefusedOK, Stored, Entry, Service!InLog, Service!Record
  <2>4. ~Service!InLine(e)
    <3> SUFFICES ASSUME NEW i \in DOMAIN Line, Line[i].cmd = "append", Line[i].call = e
                 PROVE  FALSE
      BY DEF Service!InLine
    <3>1. Line[i] \in Commands(queue) \cup Commands(batch)
      BY <1>0, LineHolds
    <3>2. WaitsFor(Line[i])
      BY <1>0, <3>1 DEF HeldOK
    <3> QED
      BY <2>2, <3>2 DEF WaitsFor
  <2>5. CASE fail_closed
    <3>1. Debt' = Debt
      BY <2>1, <2>2, <2>5
    <3> QED
      BY <2>2, <2>3, <2>4, <2>5, <3>1 DEF Service!Deny
  <2>6. CASE ~fail_closed
    <3>1. Debt' = Debt + 1
      BY <1>0, <2>1, <2>2, <2>6
    <3> QED
      BY <2>2, <2>3, <2>4, <2>6, <3>1 DEF Service!Deny
  <2> QED
    BY <2>5, <2>6
<1>9. CASE Cancel(e)
  <2>1. Caller(e, "waiting", "dropped") /\ UNCHANGED <<in_flight, file, queue, count>>
    BY <1>9 DEF Cancel, lost
  <2>2. Service!Becomes(e, "waiting", "dropped") /\ Number' = Number /\ Line' = Line /\ Debt' = Debt
    BY <1>0, <2>1, CallerSees
  <2> QED
    BY <2>2 DEF Service!Abandon
<1> QED
  BY <1>2, <1>3, <1>4, <1>5, <1>6, <1>7, <1>8, <1>9 DEF CallerSteps

\* Nobody sees that an ack was sent before its caller takes it.
LEMMA AcksUnseen ==
    ASSUME Typed, WrittenOK, FinishOk \/ FinishFailed \/ Panic
    PROVE  Fate' = Fate /\ Number' = Number
<1>1. PICK to \in {"acked", "nacked"} :
        \A e \in Calls : IF e \in Acked(batch) /\ call[e].st = "waiting"
                         THEN call'[e].st = to ELSE call'[e] = call[e]
  BY Lets
<1>2. \A e \in Calls : \/ call'[e] = call[e]
                       \/ call'[e].st \in {"acked", "nacked"} /\ call[e].st = "waiting"
  BY <1>1
<1>3. Fate' = Fate
  BY <1>2 DEF Fate
<1>4. Number' = Number
  BY <1>2 DEF Number
<1> QED
  BY <1>3, <1>4

\* What the writer does between taking a batch and answering for it shows nowhere but in
\* the step that stores it or gives it up.
LEMMA QuietServes ==
    ASSUME LineInv,
           Receive \/ Collected \/ Begin \/ AppendFailed \/ FinishOk \/ Reopen \/ save \/ UNCHANGED vars
    PROVE  UNCHANGED Service!svcVars
<1>0. /\ Typed /\ PhaseOK /\ WrittenOK /\ AfterOK
      /\ count \in Nat /\ in_flight \in Nat /\ reporting \in Nat /\ file \in Nat
  BY DEF LineInv, WriterInv, Typed
<1>1. /\ up' = up /\ fail_closed' = fail_closed /\ trail' = trail /\ reported' = reported /\ flush' = flush
  BY DEF Receive, Collected, Begin, AppendFailed, FinishOk, Finish, Reopen, save, Thread, clients, vars
<1>2. Fate' = Fate /\ Number' = Number
  <2>1. CASE FinishOk
    BY <1>0, <2>1, AcksUnseen
  <2>2. CASE ~FinishOk
    <3>1. call' = call
      BY <2>2 DEF Receive, Collected, Begin, AppendFailed, Reopen, save, clients, vars
    <3> QED
      BY <3>1 DEF Fate, Number
  <2> QED
    BY <2>1, <2>2
<1>3. Line' = Line
  <2>1. CASE Receive
    BY <1>0, <2>1, LineKeeps
  <2>2. CASE FinishOk
    <3>1. phase = "ok" /\ phase' = "after" /\ batch' = << >> /\ UNCHANGED <<after, queue>>
      BY <2>2 DEF FinishOk, Finish, Thread
    <3> QED
      BY <3>1 DEF Line
  <2>3. CASE Collected \/ Begin \/ AppendFailed \/ Reopen
    <3>1. phase # "ok" /\ phase' # "ok" /\ UNCHANGED <<batch, after, queue>>
      BY <2>3 DEF Collected, Begin, AppendFailed, Reopen, Thread
    <3> QED
      BY <3>1 DEF Line
  <2>4. CASE save \/ UNCHANGED vars
    <3>1. UNCHANGED <<phase, batch, after, queue>>
      BY <2>4 DEF save, thread, vars
    <3> QED
      BY <3>1 DEF Line
  <2> QED
    BY <2>1, <2>2, <2>3, <2>4
<1>4. Debt' = Debt
  <2>1. CASE Receive \/ Collected \/ AppendFailed
    <3>1. Owed' = Owed /\ count' = count /\ file' = file
      BY <2>1 DEF Receive, Collected, AppendFailed, Thread, lost, Owed
    <3> QED
      BY <1>1, <3>1 DEF Debt
  <2>2. CASE Begin
    <3>1. up /\ Owed = 0 /\ Owed' = count /\ count' = 0
      BY <2>2 DEF Begin, Thread, Owed
    <3> QED
      BY <1>0, <1>1, <3>1 DEF Debt
  <2>3. CASE FinishOk
    <3>1. up /\ Owed = 0 /\ Owed' = 0 /\ count' = count
      BY <2>3 DEF FinishOk, Finish, Thread, Owed
    <3> QED
      BY <1>1, <3>1 DEF Debt
  <2>4. CASE Reopen
    <3>1. up /\ Owed = in_flight /\ Owed' = 0 /\ count' = count + in_flight
      BY <2>4 DEF Reopen, Thread, Owed
    <3> QED
      BY <1>0, <1>1, <3>1 DEF Debt
  <2>5. CASE save
    <3>1. up /\ count' = count /\ UNCHANGED <<phase, reporting, in_flight>>
      BY <2>5 DEF save, thread
    <3>2. Owed' = Owed
      BY <3>1 DEF Owed
    <3> QED
      BY <1>1, <3>1, <3>2 DEF Debt
  <2>6. CASE UNCHANGED vars
    <3>1. UNCHANGED <<phase, reporting, in_flight, count, file>>
      BY <2>6 DEF vars, thread, lost
    <3>2. Owed' = Owed
      BY <3>1 DEF Owed
    <3> QED
      BY <1>1, <3>1, <3>2 DEF Debt
  <2> QED
    BY <2>1, <2>2, <2>3, <2>4, <2>5, <2>6
<1> QED
  BY <1>1, <1>2, <1>3, <1>4 DEF Service!svcVars

\* A batch that is written leaves the line from the front and is in the log, in its order.
LEMMA AppendServes ==
    ASSUME LineInv, AppendOk
    PROVE  \E k \in 1 .. Len(Line), n \in 0 .. Debt : Service!Store(k, n)
<1>0. /\ Typed /\ AfterOK /\ count \in Nat /\ reporting \in Nat /\ reported \in Nat
      /\ batch \in Seq(Entering) /\ trail \in Seq(Records)
  BY DEF LineInv, WriterInv, Typed
<1>1. /\ up /\ up' = up /\ phase = "append" /\ phase' = "ok" /\ trail' = trail \o BatchEntries
      /\ reported' = reported + reporting
      /\ UNCHANGED <<fail_closed, call, flush, queue, batch, after, count, reporting>>
  BY DEF AppendOk, Thread, lost
<1> DEFINE k == Len(batch)
           entries == [i \in 1 .. k |-> Entry(batch[i].call)]
           report == IF reporting > 0 THEN <<EventsLost(reporting)>> ELSE << >>
<1>2. /\ Ahead = batch /\ k \in Nat \ {0} /\ DOMAIN batch = 1 .. k
      /\ Line = batch \o (after \o queue) /\ batch \in Seq(Command) /\ after \o queue \in Seq(Command)
      /\ Line' = after \o queue
  <2>1. Ahead = batch /\ batch # << >>
    BY <1>0, <1>1 DEF Ahead, AfterOK, Locked
  <2>2. Line' = << >> \o after \o queue
    BY <1>1 DEF Line
  <2>3. << >> \o after = after
    BY <1>0, LineIs, ConcatEmptySeq
  <2> QED
    BY <1>0, <2>1, <2>2, <2>3, LineIs, EmptySeq, LenProperties
<1>3. k \in 1 .. Len(Line) /\ \A i \in 1 .. k : Line[i] = batch[i]
  <2>1. Len(after \o queue) \in Nat
    BY <1>2, LenProperties
  <2> QED
    BY <1>2, <2>1, ConcatProperties
<1>4. Line' = Service!Rest(k)
  BY <1>2, RestIs DEF Service!Rest
<1>5. \A i \in 1 .. k : Line[i].cmd = "append"
  BY <1>0, <1>2, <1>3, ElementOfSeq, CommandTypes
<1>6. trail' = trail \o [i \in 1 .. k |-> Service!Record(Line[i].call)] \o Service!Report(reporting)
  <2>1. \A i \in 1 .. k : batch[i].call \in Calls
    BY <1>0, <1>2, ElementOfSeq, CommandTypes
  <2>2. entries \in Seq(Records) /\ report \in Seq(Records)
    <3>1. \A i \in 1 .. k : Entry(batch[i].call) \in Records
      BY <2>1 DEF Entry, Records
    <3>2. entries \in Seq(Records)
      BY <1>2, <3>1, IsASeq
    <3>3. EventsLost(reporting) \in Records
      BY <1>0 DEF EventsLost, Records
    <3> QED
      BY <3>2, <3>3, EmptySeq
  <2>3. BatchEntries = entries \o report
    BY <1>2 DEF BatchEntries
  <2>4. trail' = (trail \o entries) \o report
    <3> HIDE DEF entries, report
    <3>1. trail \o (entries \o report) = (trail \o entries) \o report
      BY <1>0, <2>2, ConcatAssociative
    <3> QED
      BY <1>1, <2>3, <3>1
  <2>5. entries = [i \in 1 .. k |-> Service!Record(Line[i].call)]
    BY <1>3 DEF Entry, Service!Record
  <2>6. report = Service!Report(reporting)
    BY DEF EventsLost, Service!Report
  <2> HIDE DEF entries, report
  <2> QED
    BY <2>4, <2>5, <2>6
<1>7. reporting \in 0 .. Debt /\ Debt' = Debt - reporting
  <2>1. Owed = reporting /\ Owed' = 0
    BY <1>1 DEF Owed
  <2>2. Debt = count + reporting /\ Debt' = count
    BY <1>0, <1>1, <2>1 DEF Debt
  <2> QED
    BY <1>0, <2>2
<1>8. Fate' = Fate /\ Number' = Number
  BY <1>1 DEF Fate, Number
<1>9. Service!Store(k, reporting)
  BY <1>1, <1>4, <1>5, <1>6, <1>7, <1>8 DEF Service!Store
<1> QED
  BY <1>3, <1>7, <1>9

\* The entries of the batch that are counted are those whose commands bring no ack.
LEMMA UnackedIs ==
    ASSUME Typed, HeldOK
    PROVE  Unacked(batch) = Cardinality({e \in Calls : Append1(e, FALSE) \in Commands(batch)})
<1>0. Commands(batch) \subseteq Entering
  BY LenProperties DEF Typed, Commands
<1>1. ASSUME NEW e \in Entries(batch) \ Acked(batch)
      PROVE  e \in Calls /\ Append1(e, FALSE) \in Commands(batch)
  <2>1. PICK c \in Commands(batch) : c.cmd = "append" /\ c.call = e
    BY DEF Entries
  <2>2. ~c.ack
    BY <2>1 DEF Acked
  <2>3. c = Append1(e, FALSE)
    BY <1>0, <2>1, <2>2 DEF Entering, Append1
  <2> QED
    BY <1>0, <2>1, <2>3, CommandTypes
<1>2. ASSUME NEW e \in Calls, Append1(e, FALSE) \in Commands(batch)
      PROVE  e \in Entries(batch) \ Acked(batch)
  <2> DEFINE a == Append1(e, FALSE)
  <2>1. a.cmd = "append" /\ a.call = e /\ a.ack = FALSE
    BY CommandTypes
  <2>2. e \in Entries(batch)
    BY <1>2, <2>1 DEF Entries
  <2>3. call[e].st = "returned"
    BY <1>2, <2>1 DEF HeldOK, WaitsFor
  <2>4. ASSUME e \in Acked(batch) PROVE FALSE
    <3>1. PICK c \in Commands(batch) : c.cmd = "append" /\ c.call = e /\ c.ack
      BY <2>4 DEF Acked
    <3>2. call[e].st \in {"waiting", "dropped"}
      BY <3>1 DEF HeldOK, WaitsFor
    <3> QED
      BY <2>3, <3>2
  <2> QED
    BY <2>2, <2>4
<1>3. Entries(batch) \ Acked(batch) = {e \in Calls : Append1(e, FALSE) \in Commands(batch)}
  BY <1>1, <1>2
<1> QED
  BY <1>3 DEF Unacked

\* The service counts as the pipeline does.
LEMMA CardinalityIs ==
    ASSUME NEW S
    PROVE  Service!Cardinality(S) = Cardinality(S)
BY DEF Service!Cardinality, Cardinality

\* The front of the line is given up: its entries are the batch.
LEMMA FrontGivenUp ==
    ASSUME Typed, HeldOK, NEW u \in Seq(Command), u # << >>, NEW r \in Seq(Command),
           Line = u \o r, Line' = r, {c \in Commands(u) : c.cmd = "append"} = Commands(batch),
           Debt' = Debt + Unacked(batch),
           flush' = IF Flush \in Commands(u) THEN "done" ELSE flush,
           up, up' = up, fail_closed' = fail_closed, trail' = trail, reported' = reported,
           Fate' = Fate, Number' = Number
    PROVE  \E k \in 1 .. Len(Line) : Service!GiveUp(k)
<1> DEFINE k == Len(u)
<1>1. /\ k \in 1 .. Len(Line) /\ DOMAIN u = 1 .. k /\ \A i \in 1 .. k : Line[i] = u[i]
  <2>1. k \in Nat \ {0} /\ Len(r) \in Nat
    BY EmptySeq, LenProperties
  <2> QED
    BY <2>1, ConcatProperties, LenProperties
<1>2. Line' = Service!Rest(k)
  BY RestIs DEF Service!Rest
<1>3. Commands(u) = {Line[i] : i \in 1 .. k}
  BY <1>1 DEF Commands
<1>4. Service!Unanswered(k) = {e \in Calls : Append1(e, FALSE) \in Commands(batch)}
  <2>1. ASSUME NEW e \in Calls
        PROVE  (\E i \in 1 .. k : Line[i] = Service!Ask(e, FALSE)) <=> Append1(e, FALSE) \in Commands(batch)
    <3>1. Append1(e, FALSE) = Service!Ask(e, FALSE) /\ Append1(e, FALSE).cmd = "append"
      BY CommandTypes DEF Append1, Service!Ask
    <3>2. Append1(e, FALSE) \in Commands(batch) <=> Append1(e, FALSE) \in Commands(u)
      BY <3>1
    <3> QED
      BY <1>3, <3>1, <3>2
  <2> QED
    BY <2>1 DEF Service!Unanswered
<1>5. Debt' = Debt + Service!Cardinality(Service!Unanswered(k))
  BY <1>4, UnackedIs, CardinalityIs
<1>6. flush' = IF \E i \in 1 .. k : Line[i] = Service!FlushRequest THEN "done" ELSE flush
  BY <1>3 DEF Flush, Service!FlushRequest
<1> HIDE DEF k
<1>7. Service!GiveUp(k)
  BY <1>2, <1>5, <1>6 DEF Service!GiveUp
<1> QED
  BY <1>1, <1>7

\* A batch that could not be written is given up, and so is one that was in the hands of a
\* writer that panicked, with the command behind it.
LEMMA LossServes ==
    ASSUME LineInv, FinishFailed \/ Panic
    PROVE  \E k \in 1 .. Len(Line) : Service!GiveUp(k)
<1>0. /\ Typed /\ PhaseOK /\ HeldOK /\ WrittenOK /\ AfterOK /\ batch \in Seq(Command)
      /\ count \in Nat /\ reporting \in Nat /\ in_flight \in Nat /\ Unacked(batch) \in Nat
      /\ batch \in Seq(Entering)
  BY CommandTypes, SeqMonotonic, EntriesFinite DEF LineInv, WriterInv, Typed
<1>1. /\ up /\ up' = up /\ fail_closed' = fail_closed /\ trail' = trail /\ reported' = reported
      /\ phase # "ok" /\ phase' # "ok" /\ batch' = << >> /\ queue' = queue
  BY DEF FinishFailed, Panic, Finish, Thread
<1>2. Fate' = Fate /\ Number' = Number
  BY <1>0, AcksUnseen
<1>3. Ahead = batch /\ Line' = after' \o queue
  <2>1. Line' = << >> \o after' \o queue
    BY <1>1 DEF Line
  <2>2. after' \in Seq(Command)
    <3>1. after \in Seq(Command) /\ << >> \in Seq(Command)
      BY <1>0, LineIs, EmptySeq
    <3> QED
      BY <3>1 DEF FinishFailed, Panic, Finish, Answered
  <2> QED
    BY <1>1, <2>1, <2>2, ConcatEmptySeq DEF Ahead
<1>4. \A c \in Commands(batch) : c.cmd = "append" /\ c # Flush
  <2>1. Commands(batch) \subseteq Entering
    BY <1>0, LenProperties DEF Commands
  <2> QED
    BY <2>1, CommandTypes
<1>5. CASE FinishFailed
  <2>1. /\ phase = "failed" /\ phase' = "after" /\ after' = after /\ flush' = flush
        /\ count' = count + reporting + Unacked(batch)
    BY <1>5 DEF FinishFailed, Finish, Thread
  <2>2. Line = batch \o (after \o queue) /\ Line' = after \o queue /\ after \o queue \in Seq(Command)
    BY <1>0, <1>3, <2>1, LineIs
  <2>3. Debt' = Debt + Unacked(batch)
    <3>1. Owed = reporting /\ Owed' = 0
      BY <2>1 DEF Owed
    <3> QED
      BY <1>0, <1>1, <2>1, <3>1 DEF Debt
  <2>4. batch # << >>
    BY <1>0, <2>1 DEF AfterOK, Locked
  <2>5. {c \in Commands(batch) : c.cmd = "append"} = Commands(batch)
    BY <1>4
  <2>6. flush' = IF Flush \in Commands(batch) THEN "done" ELSE flush
    BY <1>4, <2>1
  <2> QED
    BY <1>0, <1>1, <1>2, <2>2, <2>3, <2>4, <2>5, <2>6, FrontGivenUp
<1>6. CASE Panic
  <2>1. /\ phase = "append" \/ (phase = "after" /\ after = <<Prune>>)
        /\ phase' = "panicked" /\ after' = << >> /\ UNCHANGED <<count, in_flight>>
        /\ flush' = IF after = <<Flush>> THEN "done" ELSE flush
    BY <1>6 DEF Panic, Thread, Answered, lost
  <2>2. PICK u : u = batch \o after
    OBVIOUS
  <2>3. /\ u \in Seq(Command) /\ queue \in Seq(Command) /\ after \in Seq(Command)
        /\ Line = u \o queue /\ Line' = queue
    BY <1>0, <1>3, <2>1, <2>2, LineIs, ConcatProperties, ConcatEmptySeq
  <2>4. u # << >>
    <3>1. batch # << >> \/ after # << >>
      BY <1>0, <2>1, CommandTypes DEF AfterOK, Locked
    <3> QED
      BY <1>0, <2>2, <2>3, <3>1, ConcatEqualIffEmpty
  <2>5. Commands(u) = Commands(batch) \cup Commands(after)
    BY <1>0, <2>2, <2>3, ConcatHolds
  <2>6. {c \in Commands(u) : c.cmd = "append"} = Commands(batch)
    BY <1>0, <1>4, <2>5, LineHolds
  <2>7. flush' = IF Flush \in Commands(u) THEN "done" ELSE flush
    <3>1. \A c : Commands(<<c>>) = {c}
      BY DEF Commands
    <3>2. Flush \in Commands(after) <=> after = <<Flush>>
      BY <1>0, <3>1, NothingHeld, CommandTypes DEF Typed
    <3> QED
      BY <1>4, <2>1, <2>5, <3>2
  <2>8. Debt' = Debt + Unacked(batch)
    <3>1. Owed' = in_flight
      BY <2>1 DEF Owed
    <3>2. in_flight = Owed + Unacked(batch)
      <4>1. CASE phase = "append"
        BY <1>0, <4>1 DEF PhaseOK, Locked, Owed
      <4>2. CASE phase = "after"
        <5>1. in_flight = 0 /\ Owed = 0 /\ batch = << >>
          BY <1>0, <4>2 DEF PhaseOK, Locked, Owed
        <5>2. Entries(batch) \ Acked(batch) = {}
          BY <5>1, NothingHeld
        <5>3. Unacked(batch) = 0
          BY <5>2, FS_EmptySet DEF Unacked
        <5> QED
          BY <5>1, <5>3
      <4> QED
        BY <2>1, <4>1, <4>2
    <3>3. Owed \in Nat
      BY <1>0 DEF Owed
    <3>4. Debt = count + Owed /\ Debt' = count + in_flight
      BY <1>1, <2>1, <3>1 DEF Debt
    <3> QED
      BY <1>0, <3>2, <3>3, <3>4
  <2> QED
    BY <1>0, <1>1, <1>2, <2>3, <2>4, <2>6, <2>7, <2>8, FrontGivenUp
<1> QED
  BY <1>5, <1>6

\* The end of a batch serves the flush that ended it, or shows nothing.
LEMMA AfterServes ==
    ASSUME LineInv, After
    PROVE  Service!Serve \/ UNCHANGED Service!svcVars
<1>0. Typed /\ PhaseOK /\ queue \in Seq(Command)
  BY DEF LineInv, WriterInv, Typed
<1>1. /\ up /\ up' = up /\ fail_closed' = fail_closed /\ trail' = trail /\ reported' = reported
      /\ call' = call /\ queue' = queue /\ batch' = batch /\ after' = << >>
      /\ phase \in {"after", "collected"} /\ phase' = "recv" /\ count' = count /\ batch = << >>
      /\ flush' = IF after = <<Flush>> THEN "done" ELSE flush
  <2>1. batch = << >>
    BY <1>0 DEF After, PhaseOK
  <2> QED
    BY <2>1 DEF After, Thread, Answered, lost
<1>2. Fate' = Fate /\ Number' = Number
  BY <1>1 DEF Fate, Number
<1>3. Owed = 0 /\ Owed' = 0
  BY <1>1 DEF Owed
<1>4. Debt' = Debt
  BY <1>1, <1>3 DEF Debt
<1>5. Line = after \o queue /\ Line' = queue
  <2>1. Line = << >> \o after \o queue /\ Line' = << >> \o << >> \o queue
    BY <1>1 DEF Line
  <2>2. << >> \o after = after /\ << >> \o << >> = << >> /\ << >> \o queue = queue
    BY <1>0, LineIs, EmptySeq, ConcatEmptySeq
  <2> QED
    BY <2>1, <2>2
<1>6. CASE after = << >>
  <2>1. flush' = flush /\ Line' = Line
    BY <1>0, <1>1, <1>5, <1>6, ConcatEmptySeq, CommandTypes
  <2> QED
    BY <1>1, <1>2, <1>4, <2>1 DEF Service!svcVars
<1>7. ASSUME NEW c \in {Prune, Flush}, after = <<c>>
      PROVE  Service!Serve
  <2>1. c \in Command /\ c.cmd # "append" /\ <<c>> \in Seq(Command)
    BY CommandTypes
  <2>2. Line # << >> /\ Head(Line) = c /\ Tail(Line) = queue
    <3>1. Line = <<c>> \o queue /\ Line \in Seq(Command)
      BY <1>0, <1>5, <1>7, LineIs
    <3>2. Line # << >>
      BY <1>0, <2>1, <3>1, ConcatEqualIffEmpty
    <3>3. Len(queue) \in Nat /\ Len(<<c>>) = 1
      BY <1>0, LenProperties
    <3>4. Line[1] = c
      BY <1>0, <2>1, <3>1, <3>3, ConcatProperties
    <3>5. SubSeq(Line, Len(<<c>>) + 1, Len(Line)) = queue
      BY <1>0, <2>1, <3>1, RestIs
    <3>6. SubSeq(Line, 2, Len(Line)) = queue
      BY <3>3, <3>5
    <3> QED
      BY <3>1, <3>2, <3>4, <3>6, TailIsSubSeq, CommandsShrink
  <2>3. flush' = IF c = Service!FlushRequest THEN "done" ELSE flush
    <3>1. after = <<Flush>> <=> c = Flush
      BY <1>7
    <3> QED
      BY <1>1, <3>1 DEF Flush, Service!FlushRequest
  <2> QED
    BY <1>1, <1>2, <1>4, <1>5, <2>1, <2>2, <2>3 DEF Service!Serve
<1> QED
  BY <1>0, <1>6, <1>7 DEF Typed

\* A flush or a retention run that is sent joins the line.
LEMMA RequestsServe ==
    ASSUME LineInv, FlushSent \/ run_retention
    PROVE  Service!Request
<1>0. Typed
  BY DEF LineInv, WriterInv
<1>1. /\ up /\ up' = up /\ fail_closed' = fail_closed /\ trail' = trail /\ reported' = reported
      /\ call' = call /\ phase' = phase /\ batch' = batch /\ after' = after /\ count' = count
      /\ reporting' = reporting /\ in_flight' = in_flight /\ file' = file
  BY DEF FlushSent, run_retention, thread, lost
<1>2. Fate' = Fate /\ Number' = Number
  BY <1>1 DEF Fate, Number
<1>3. Owed' = Owed
  BY <1>1 DEF Owed
<1>4. Debt' = Debt
  BY <1>1, <1>3 DEF Debt
<1>5. CASE FlushSent
  <2>1. queue' = Append(queue, Flush) /\ flush = "idle" /\ flush' = "waiting"
    BY <1>5 DEF FlushSent
  <2>2. Line' = Append(Line, Flush)
    BY <1>0, <1>1, <2>1, LineGets, CommandTypes
  <2> QED
    BY <1>1, <1>2, <1>4, <2>1, <2>2 DEF Service!Request, Flush, Service!FlushRequest
<1>6. CASE run_retention
  <2>1. queue' = Append(queue, Prune) /\ flush' = flush
    BY <1>6 DEF run_retention
  <2>2. Line' = Append(Line, Prune)
    BY <1>0, <1>1, <2>1, LineGets, CommandTypes
  <2> QED
    BY <1>1, <1>2, <1>4, <2>1, <2>2 DEF Service!Request, Prune, Service!PruneRequest
<1> QED
  BY <1>5, <1>6

\* A changed fail mode is a step of the service.
LEMMA ModeServes ==
    ASSUME LineInv, NEW closed \in FailModes, apply(closed)
    PROVE  Service!SetMode
<1>1. /\ up /\ up' = up /\ fail_closed' = closed /\ trail' = trail /\ reported' = reported /\ flush' = flush
      /\ call' = call /\ phase' = phase /\ batch' = batch /\ after' = after /\ count' = count
      /\ reporting' = reporting /\ in_flight' = in_flight /\ file' = file /\ queue' = queue
  BY DEF apply, thread, lost
<1>2. Fate' = Fate /\ Number' = Number
  BY <1>1 DEF Fate, Number
<1>3. Owed' = Owed /\ Line' = Line
  BY <1>1 DEF Owed, Line
<1>4. Debt' = Debt
  BY <1>1, <1>3 DEF Debt
<1>5. fail_closed' \in BOOLEAN
  BY <1>1
<1> QED
  BY <1>1, <1>2, <1>3, <1>4, <1>5 DEF Service!SetMode

\* The end of the process gives the line up; what it owed at most is in the file.
LEMMA EndServes ==
    ASSUME LineInv, up, End
    PROVE  Service!Stop
<1>0. /\ Typed /\ call \in [Calls -> [st : States, seq : Nat]] /\ file \in Nat /\ count \in Nat
      /\ reported \in Nat /\ Owed \in Nat /\ file <= reported + count + Owed
  BY DEF LineInv, WriterInv, Typed, FileOK, Owed
<1>1. /\ up' = FALSE /\ fail_closed' = fail_closed /\ trail' = trail /\ reported' = reported /\ flush' = "idle"
      /\ file' = file /\ queue' = << >> /\ batch' = << >> /\ after' = << >> /\ phase' = "recv"
      /\ \A e \in Calls : call'[e] = IF call[e].st \in Pending
                                     THEN [call[e] EXCEPT !.st = "cut"] ELSE call[e]
  BY DEF End, Pending
<1>2. \A e \in Calls : /\ call[e].st \in Pending => call'[e].st = "cut"
                       /\ call[e].st \notin Pending => call'[e] = call[e]
  BY <1>0, <1>1
<1>3. Number' = Number
  BY <1>2 DEF Number, Pending
<1>4. Fate' = [e \in Calls |-> IF Fate[e] \in {"offering", "sending", "waiting"} THEN "cut" ELSE Fate[e]]
  BY <1>2 DEF Fate, Pending
<1>5. Line' = << >>
  <2>1. Line' = << >> \o << >> \o << >>
    BY <1>1 DEF Line
  <2> QED
    BY <2>1, EmptySeq, ConcatEmptySeq
<1>6. Debt' \in 0 .. Debt + reported
  <2>1. Debt' = file /\ Debt = count + Owed
    BY <1>1 DEF Debt
  <2> QED
    BY <1>0, <2>1
<1> QED
  BY <1>1, <1>3, <1>4, <1>5, <1>6 DEF Service!Stop

\* A start of the process owes what the file holds.
LEMMA StartServes ==
    ASSUME LineInv, start
    PROVE  Service!Start
<1>1. /\ ~up /\ up' = TRUE /\ fail_closed' = fail_closed /\ trail' = trail /\ reported' = reported
      /\ flush' = flush /\ call' = call /\ phase' = phase /\ batch' = batch /\ after' = after
      /\ queue' = queue /\ count' = file /\ file' = file
  BY DEF start, clients, thread
<1>2. Fate' = Fate /\ Number' = Number /\ Line' = Line
  BY <1>1 DEF Fate, Number, Line
<1>3. Owed' = 0
  BY <1>1 DEF LineInv, AfterOK, Owed
<1>4. Debt' = Debt
  <2>1. file \in Nat
    BY DEF LineInv, WriterInv, Typed
  <2> QED
    BY <1>1, <1>3, <2>1 DEF Debt
<1> QED
  BY <1>1, <1>2, <1>4 DEF Service!Start

(***************************************************************************)
(* The pipeline keeps the promises of AuditService through failures of the *)
(* store, panics of the writer and ends of the process: entries are stored *)
(* in the order in which they were queued, a batch as a whole or not at    *)
(* all; a number names its caller's record; a denied entry is in no record *)
(* and will be in none; and a loss is owed until it is reported (mod.rs,   *)
(* record, record_committed, flush, writer_loop, write_batch, LostEvents). *)
(***************************************************************************)
THEOREM PipelineKeepsItsPromises == Spec => ImplementsService
<1>1. Init => Service!SvcInit
  <2> SUFFICES ASSUME Init PROVE Service!SvcInit
    OBVIOUS
  <2>1. Fate = [e \in Calls |-> "new"] /\ Number = [e \in Calls |-> 0]
    BY DEF Init, Fresh, Fate, Number
  <2>2. Line = << >>
    <3>1. Line = << >> \o << >> \o << >>
      BY DEF Init, Line
    <3> QED
      BY <3>1, EmptySeq, ConcatEmptySeq
  <2>3. Debt = 0
    BY DEF Init, Debt, Owed
  <2>4. fail_closed \in BOOLEAN
    BY DEF Init
  <2> QED
    BY <2>1, <2>2, <2>3, <2>4 DEF Init, Service!SvcInit
<1>2. LineInv /\ AckNamesRecord /\ [Next]_vars => [Service!SvcNext]_Service!svcVars
  <2> SUFFICES ASSUME LineInv, AckNamesRecord, [Next]_vars
               PROVE  Service!SvcNext \/ UNCHANGED Service!svcVars
    OBVIOUS
  <2>1. ASSUME NEW e \in Calls, CallerSteps(e)
        PROVE  Service!SvcNext
    BY <2>1, CallersServe DEF Service!SvcNext
  <2>2. CASE Receive \/ Collected \/ Begin \/ AppendFailed \/ FinishOk \/ Reopen \/ save \/ UNCHANGED vars
    BY <2>2, QuietServes
  <2>3. CASE AppendOk
    BY <2>3, AppendServes DEF Service!SvcNext
  <2>4. CASE FinishFailed \/ Panic
    BY <2>4, LossServes DEF Service!SvcNext
  <2>5. CASE After
    BY <2>5, AfterServes DEF Service!SvcNext
  <2>6. CASE FlushSent \/ run_retention
    BY <2>6, RequestsServe DEF Service!SvcNext
  <2>7. ASSUME NEW closed \in FailModes, apply(closed)
        PROVE  Service!SvcNext
    BY <2>7, ModeServes DEF Service!SvcNext
  <2>8. CASE GiveUp \/ Crash
    BY <2>8, EndServes DEF GiveUp, Crash, Service!SvcNext
  <2>9. CASE start
    BY <2>9, StartServes DEF Service!SvcNext
  <2> QED
    BY <2>1, <2>2, <2>3, <2>4, <2>5, <2>6, <2>7, <2>8, <2>9 DEF Next, WriterSteps
<1> QED
  BY <1>1, <1>2, LineInvariance, AcksNameTheirRecords, PTL DEF Spec, ImplementsService, Service!SvcSpec
================================================================================
