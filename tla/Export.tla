-------------------------------- MODULE Export --------------------------------
(***************************************************************************)
(* The export of the audit trail to an external database (export/mod.rs,   *)
(* export/questdb.rs).  One task reads batches after its position, sends   *)
(* them and saves the new position; each destination has a position of its *)
(* own.  Meanwhile records are appended, retention removes the oldest, the *)
(* settings change (which aborts the task and starts another, behind which *)
(* the old one may still save its position), the process ends and starts   *)
(* again, the trail is replaced while it is stopped, and the database      *)
(* refuses, or stores and does not answer.                                 *)
(*                                                                         *)
(* A record is a number that no other record has; it stands for the hash.  *)
(***************************************************************************)
EXTENDS Integers, Sequences, SequencesExt

CONSTANTS
    Dests,       \* keys of destinations: kind and address
    BatchSize,   \* Sink::batch_size
    MaxTrail,    \* bound of the model: records ever made
    MaxFaults    \* bound of the model: failures, restarts and changes of settings

ASSUME ExportAssumption ==
    /\ Dests # {} /\ "kind" \notin Dests
    /\ BatchSize \in Nat \ {0} /\ MaxTrail \in Nat /\ MaxFaults \in Nat

VARIABLES
    trail,      \* record of each sequence number, the removed ones included
    first,      \* sequence number of the oldest record that is still there
    made,       \* history: records made
    memory,     \* ExportState.positions
    saved,      \* export-state.json
    task,       \* the exporter task
    late,       \* positions that aborted tasks are about to save
    delivered,  \* what each destination has
    excused,    \* history: records that a destination does without, and why it is known
    took,       \* history: the number up to which a position that it took over stood
    faults      \* history: faults so far

expVars == <<trail, first, made, memory, saved, task, late, delivered, excused, took, faults>>

NoHash == 0
Start == [seq |-> 0, hash |-> NoHash]     \* Position::default
PositionKeys == Dests \cup {"kind"}
HeadSeq == Len(trail)

\* a task that is spawned, with the locals of run
Task(key) == [at |-> "begin", key |-> key, position |-> Start, head |-> 0, batch |-> <<>>]
NoTask == [at |-> "off"]

\* position_for: a state file from before has one position per kind, which the destination
\* takes over, in memory until the next save
TakenOver(positions, d) ==
    IF positions[d] # Start THEN positions
    ELSE [positions EXCEPT ![d] = positions["kind"], !["kind"] = Start]

TookOver(positions, d) ==
    LET n == positions["kind"].seq
    IN IF positions[d] # Start THEN took ELSE [took EXCEPT ![d] = IF @ < n THEN n ELSE @]

\* the state file is of an older version: one position, for the kind, with the hash or of a
\* version before that without it
ExpInit ==
    LET d == CHOOSE e \in Dests : TRUE
    IN /\ trail = <<1, 2>> /\ made = 2 /\ first = 1
       /\ \E hash \in {NoHash, 1} :
            saved = [k \in PositionKeys |-> IF k = "kind" THEN [seq |-> 1, hash |-> hash] ELSE Start]
       /\ delivered = [e \in Dests |-> IF e = d THEN {1} ELSE {}]
       /\ memory = TakenOver(saved, d)
       /\ took = [e \in Dests |-> IF e = d THEN 1 ELSE 0]
       /\ task = Task(d) /\ late = {}
       /\ excused = [e \in Dests |-> {}]
       /\ faults = 0

Faulty == faults < MaxFaults /\ faults' = faults + 1
NextRecord == made + 1
InTrail(from, to) == {trail[i] : i \in from..to}
-------------------------------------------------------------------------------
\* the rest of the gateway records something
Append1 ==
    /\ made < MaxTrail
    /\ trail' = Append(trail, NextRecord) /\ made' = NextRecord
    /\ UNCHANGED <<first, memory, saved, task, late, delivered, excused, took, faults>>

\* retention: the oldest records, never the newest, and a record of it
Prune ==
    /\ made < MaxTrail /\ Faulty
    /\ \E f \in first + 1 .. Len(trail) : first' = f
    /\ trail' = Append(trail, NextRecord) /\ made' = NextRecord
    /\ UNCHANGED <<memory, saved, task, late, delivered, excused, took>>

\* run: the position that apply has seen to, or that an aborted task saved since
ReadPosition ==
    /\ task.at = "begin"
    /\ task' = [task EXCEPT !.at = "head", !.position = memory[task.key]]
    /\ UNCHANGED <<trail, first, made, memory, saved, late, delivered, excused, took, faults>>

\* the newest record's number
ReadHead ==
    /\ task.at = "head"
    /\ task' = [task EXCEPT !.at = "after", !.head = HeadSeq]
    /\ UNCHANGED <<trail, first, made, memory, saved, late, delivered, excused, took, faults>>

\* AuditReader::after
After(seq) ==
    LET from == IF seq + 1 > first THEN seq + 1 ELSE first
        all == [i \in 1 .. Len(trail) |-> [seq |-> i, hash |-> trail[i],
                                            prev |-> IF i = 1 THEN NoHash ELSE trail[i - 1]]]
    IN SubSeq(all, from, IF from + BatchSize - 1 < Len(trail) THEN from + BatchSize - 1 ELSE Len(trail))

\* gap: do the records continue exactly after the position?
Gap(position, batch, head) ==
    \/ position.seq > head
    \/ /\ batch # <<>> /\ position.seq # 0
       /\ \/ batch[1].seq # position.seq + 1
          \/ position.hash # NoHash /\ batch[1].prev # position.hash

\* Records before the batch that the destination does without: a gap that was noticed says
\* so, and a destination without a position starts at the oldest record there is.
ReadAfter ==
    /\ task.at = "after"
    /\ LET batch == After(task.position.seq)
           noticed == Gap(task.position, batch, task.head)
       IN /\ task' = [task EXCEPT !.batch = batch,
                !.at = IF noticed THEN "gap" ELSE IF batch = <<>> THEN "rest" ELSE "send"]
          /\ excused' = IF batch = <<>> THEN excused
                ELSE [excused EXCEPT ![task.key] = @ \cup
                    (IF noticed \/ task.position.seq = 0
                     THEN InTrail(1, batch[1].seq - 1) ELSE {})]
    /\ UNCHANGED <<trail, first, made, memory, saved, late, delivered, took, faults>>

\* the gap is recorded; its record may fail, and the export goes on.  When the trail ends
\* before the position it is a new one, and is exported from its start.
RecordGap ==
    /\ task.at = "gap"
    /\ \/ made < MaxTrail /\ trail' = Append(trail, NextRecord) /\ made' = NextRecord /\ UNCHANGED faults
       \/ Faulty /\ UNCHANGED <<trail, made>>
    /\ task' = IF task.position.seq > task.head
               THEN [task EXCEPT !.position = Start, !.at = "again"]
               ELSE [task EXCEPT !.at = IF task.batch = <<>> THEN "rest" ELSE "send"]
    /\ UNCHANGED <<first, memory, saved, late, delivered, excused, took>>

ReadAgain ==
    /\ task.at = "again"
    /\ LET batch == After(0)
       IN /\ task' = [task EXCEPT !.batch = batch, !.at = IF batch = <<>> THEN "rest" ELSE "send"]
          /\ excused' = IF batch = <<>> THEN excused
                ELSE [excused EXCEPT ![task.key] = @ \cup InTrail(1, batch[1].seq - 1)]
    /\ UNCHANGED <<trail, first, made, memory, saved, late, delivered, took, faults>>

\* Mutant: the position is the head instead of the last record sent.
ToHead(batch) == [seq |-> HeadSeq, hash |-> trail[HeadSeq]]

\* the position after a batch
NextPosition(batch) == [seq |-> Last(batch).seq, hash |-> Last(batch).hash]

Got(batch) == [delivered EXCEPT ![task.key] = @ \cup {batch[i].hash : i \in DOMAIN batch}]

\* the database took the batch (a record it rejects goes as a minimal line)
Send ==
    /\ task.at = "send"
    /\ delivered' = Got(task.batch)
    /\ task' = [task EXCEPT !.at = "set"]
    /\ UNCHANGED <<trail, first, made, memory, saved, late, excused, took, faults>>

\* ExportState::set: the position is changed in memory and all of them are written, which
\* may fail
SetPosition(key, position) ==
    /\ memory' = [memory EXCEPT ![key] = position]
    /\ \/ saved' = memory' /\ UNCHANGED faults
       \/ Faulty /\ UNCHANGED saved

\* the task goes on from the new position when it is written, and keeps its own when not
Save ==
    /\ task.at = "set"
    /\ SetPosition(task.key, NextPosition(task.batch))
    /\ task' = [task EXCEPT !.at = "rest",
                   !.position = IF saved' = memory' THEN NextPosition(task.batch) ELSE @]
    /\ UNCHANGED <<trail, first, made, late, delivered, excused, took>>

\* an aborted task that had its answer has nothing to await before it saves
LateSave ==
    \E l \in late :
        /\ SetPosition(l.key, l.position)
        /\ late' = late \ {l}
        /\ UNCHANGED <<trail, first, made, task, delivered, excused, took>>

\* the database does not answer, or refuses: it may have stored some of the records
SendFails ==
    /\ task.at = "send" /\ Faulty
    /\ \E n \in 0 .. Len(task.batch) : delivered' = Got(SubSeq(task.batch, 1, n))
    /\ task' = [task EXCEPT !.at = "rest"]
    /\ UNCHANGED <<trail, first, made, memory, saved, late, excused, took>>

\* the trail cannot be read
ReadFails ==
    /\ task.at \in {"head", "after", "again"} /\ Faulty
    /\ task' = [task EXCEPT !.at = "rest"]
    /\ UNCHANGED <<trail, first, made, memory, saved, late, delivered, excused, took>>

\* the status is written and the task sleeps: at once after a full batch, else for the
\* interval, longer after each failure
Rests ==
    /\ task.at = "rest"
    /\ task' = [task EXCEPT !.at = "head", !.batch = <<>>]
    /\ UNCHANGED <<trail, first, made, memory, saved, late, delivered, excused, took, faults>>

\* Exports::apply: the task is aborted where it awaits, and another may start
Apply ==
    /\ Faulty
    /\ late' = late \cup IF task.at = "set"
                          THEN {[key |-> task.key, position |-> NextPosition(task.batch)]} ELSE {}
    /\ \/ task' = NoTask /\ UNCHANGED <<memory, took>>
       \/ \E d \in Dests :
            /\ memory' = TakenOver(memory, d) /\ took' = TookOver(memory, d)
            /\ task' = Task(d)
    /\ UNCHANGED <<trail, first, made, saved, delivered, excused>>

\* The process ends and starts again from the saved positions, or from none when the file
\* is unreadable.  While it is stopped the trail may be cut, replaced by an older copy, or
\* removed.
Restart ==
    /\ Faulty
    /\ \E d \in Dests, n \in {0} \cup first .. Len(trail), unreadable \in {TRUE, FALSE} :
         LET open == IF unreadable THEN [k \in PositionKeys |-> Start] ELSE saved
         IN /\ trail' = SubSeq(trail, 1, n)
            /\ first' = IF n = 0 THEN 1 ELSE first
            /\ saved' = open
            /\ memory' = TakenOver(open, d) /\ took' = TookOver(open, d)
            /\ task' = Task(d) /\ late' = {}
    /\ UNCHANGED <<made, delivered, excused>>

ExpNext ==
    \/ Append1 \/ Prune
    \/ ReadPosition \/ ReadHead \/ ReadAfter \/ RecordGap \/ ReadAgain
    \/ Send \/ Save \/ LateSave \/ SendFails \/ ReadFails \/ Rests
    \/ Apply \/ Restart
-------------------------------------------------------------------------------
\* Positions, batches and what a destination has are of the shape the code gives them.
ExpTypeOK ==
    /\ \A k \in PositionKeys : {memory[k].hash, saved[k].hash} \subseteq 0 .. made
    /\ \A l \in late : l.key \in Dests /\ l.position.hash \in 1 .. made
    /\ first \in 1 .. Len(trail) + 1
    /\ task.at \in {"off", "begin", "head", "after", "gap", "again", "send", "set", "rest"}
    /\ \A d \in Dests : delivered[d] \subseteq 1 .. made /\ excused[d] \subseteq 1 .. made

\* At least once: a saved position that is a record of the trail vouches for every record
\* up to it, from where the destination began.  It has each of them, or a gap was noticed
\* there, whatever failed, whichever task was aborted and saved late, and wherever the
\* process ended.  A destination that took over the position per kind of an older version
\* began behind it, and the code cannot tell whose it was: the takeover is in memory until
\* the next save, so after a restart before that another destination takes it over too, and
\* is never sent the records up to it, where the comment on position_for and the test
\* a_position_per_kind_is_taken_over want the whole trail sent.  Those records are left out
\* here, and so are the ones removed before a destination without a position began.
NothingSkipped ==
    \A d \in Dests :
        LET p == saved[d]
        IN (p.seq \in DOMAIN trail /\ p.hash = trail[p.seq]) =>
              InTrail(took[d] + 1, p.seq) \subseteq delivered[d] \cup excused[d]

ExpSpec == ExpInit /\ [][ExpNext]_expVars
===============================================================================
