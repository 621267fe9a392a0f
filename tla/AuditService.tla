----------------------------- MODULE AuditService -----------------------------
(***************************************************************************)
(* What the audit pipeline promises its callers: one line of requests,     *)
(* served in the order they came; entries get into the log from the front  *)
(* of the line or are given up from there; every answer is true; and what  *)
(* is lost without an answer is owed to the log until a report says so.    *)
(***************************************************************************)
EXTENDS Integers, Sequences, FiniteSets

CONSTANT Calls

VARIABLES
    running,  \* the process runs
    strict,   \* fail-closed: a caller is told that its entry was not stored
    fate,     \* how far each call is, as its caller sees it
    number,   \* the number a caller was given for its entry
    line,     \* the requests that are not served yet
    log,      \* the records
    owed,     \* losses that no record tells of
    told,     \* losses that the records tell of
    flush     \* where a caller of flush is

svcVars == <<running, strict, fate, number, line, log, owed, told, flush>>

Ask(e, ack) == [cmd |-> "append", call |-> e, ack |-> ack]
FlushRequest == [cmd |-> "flush"]
PruneRequest == [cmd |-> "prune"]
Record(e) == [call |-> e]
Report(n) == IF n > 0 THEN <<[lost |-> n]>> ELSE << >>

InLog(e) == \E n \in DOMAIN log : log[n] = Record(e)
InLine(e) == \E i \in DOMAIN line : line[i].cmd = "append" /\ line[i].call = e

SvcInit ==
    /\ running = TRUE
    /\ strict \in BOOLEAN
    /\ fate = [e \in Calls |-> "new"]
    /\ number = [e \in Calls |-> 0]
    /\ line = << >>
    /\ log = << >>
    /\ owed = 0 /\ told = 0
    /\ flush = "idle"
-------------------------------------------------------------------------------
\* The callers

Becomes(e, from, to) ==
    /\ running
    /\ fate[e] = from
    /\ fate' = [fate EXCEPT ![e] = to]
    /\ UNCHANGED <<running, strict, log, told, flush>>

\* A caller waits for a place in the line; without an ack only in fail-open mode.
Wait(e) ==
    /\ \/ ~strict /\ Becomes(e, "new", "offering")
       \/ Becomes(e, "new", "sending")
    /\ UNCHANGED <<number, line, owed>>

Enter(e) ==
    /\ \/ /\ \/ ~strict /\ Becomes(e, "new", "returned")
             \/ Becomes(e, "offering", "returned")
          /\ line' = Append(line, Ask(e, FALSE))
       \/ /\ Becomes(e, "sending", "waiting")
          /\ line' = Append(line, Ask(e, TRUE))
    /\ UNCHANGED <<number, owed>>

\* No place within the time a caller may be held up.
TurnAway(e) ==
    /\ Becomes(e, "offering", "lost")
    /\ owed' = owed + 1
    /\ UNCHANGED <<number, line>>

\* The number a caller gets is the one of its own record.
Confirm(e) ==
    /\ Becomes(e, "waiting", "stored")
    /\ \E n \in DOMAIN log : log[n] = Record(e) /\ number' = [number EXCEPT ![e] = n]
    /\ UNCHANGED <<line, owed>>

\* An entry is denied only when it is in no record and will be in none; the caller is told,
\* or the loss is owed.
Deny(e) ==
    /\ ~InLog(e) /\ ~InLine(e)
    /\ \/ strict /\ Becomes(e, "waiting", "refused") /\ UNCHANGED owed
       \/ ~strict /\ Becomes(e, "waiting", "lost") /\ owed' = owed + 1
    /\ UNCHANGED <<number, line>>

Abandon(e) == Becomes(e, "waiting", "dropped") /\ UNCHANGED <<number, line, owed>>
-------------------------------------------------------------------------------
\* The line

Rest(k) == SubSeq(line, k + 1, Len(line))

\* The first k requests are entries and get into the log together, in their order, with a
\* report of n losses behind them.
Store(k, n) ==
    /\ running
    /\ \A i \in 1 .. k : line[i].cmd = "append"
    /\ log' = log \o [i \in 1 .. k |-> Record(line[i].call)] \o Report(n)
    /\ line' = Rest(k)
    /\ owed' = owed - n
    /\ told' = told + n
    /\ UNCHANGED <<running, strict, fate, number, flush>>

\* The entries among the first k requests whose callers do not wait.
Unanswered(k) == {e \in Calls : \E i \in 1 .. k : line[i] = Ask(e, FALSE)}

\* The first k requests are given up: who waits will be told, the others are owed.
GiveUp(k) ==
    /\ running
    /\ line' = Rest(k)
    /\ owed' = owed + Cardinality(Unanswered(k))
    /\ flush' = IF \E i \in 1 .. k : line[i] = FlushRequest THEN "done" ELSE flush
    /\ UNCHANGED <<running, strict, fate, number, log, told>>

\* Retention and flush wait in the line like the entries, and are served when they are first.
Request ==
    /\ running
    /\ \/ line' = Append(line, PruneRequest) /\ UNCHANGED flush
       \/ flush = "idle" /\ line' = Append(line, FlushRequest) /\ flush' = "waiting"
    /\ UNCHANGED <<running, strict, fate, number, log, owed, told>>

Serve ==
    /\ running /\ line # << >> /\ Head(line).cmd # "append"
    /\ line' = Tail(line)
    /\ flush' = IF Head(line) = FlushRequest THEN "done" ELSE flush
    /\ UNCHANGED <<running, strict, fate, number, log, owed, told>>
-------------------------------------------------------------------------------
SetMode ==
    /\ running /\ strict' \in BOOLEAN
    /\ UNCHANGED <<running, fate, number, line, log, owed, told, flush>>

\* The process ends: nobody gets an answer any more.  Losses may be forgotten or told
\* again, but never more of them than there were.
Stop ==
    /\ running /\ running' = FALSE
    /\ fate' = [e \in Calls |->
                  IF fate[e] \in {"offering", "sending", "waiting"} THEN "cut" ELSE fate[e]]
    /\ line' = << >>
    /\ owed' \in 0 .. owed + told
    /\ flush' = "idle"
    /\ UNCHANGED <<strict, number, log, told>>

Start ==
    /\ ~running /\ running' = TRUE
    /\ UNCHANGED <<strict, fate, number, line, log, owed, told, flush>>

SvcNext ==
    \/ \E e \in Calls :
         Wait(e) \/ Enter(e) \/ TurnAway(e) \/ Confirm(e) \/ Deny(e) \/ Abandon(e)
    \/ \E k \in 1 .. Len(line) : GiveUp(k) \/ \E n \in 0 .. owed : Store(k, n)
    \/ Request \/ Serve \/ SetMode \/ Stop \/ Start

SvcSpec == SvcInit /\ [][SvcNext]_svcVars
===============================================================================
