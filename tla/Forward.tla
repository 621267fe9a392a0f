-------------------------------- MODULE Forward -------------------------------
(***************************************************************************)
(* The forwarding of one client connection (src/relay/connection.rs: run,  *)
(* finish_audited, the loop, handle and forward), with the audit plan of   *)
(* each request (audit_map.rs), the summarised writes (ignore.rs), the     *)
(* upstream channel (upstream.rs) and the accept loop that records the     *)
(* summaries (relay/mod.rs).                                               *)
(*                                                                         *)
(* A request is the set of items it changes; a request with none is not    *)
(* audited (a Read, a Publish).  An item stands for one WriteValue, method *)
(* call or node.  The audit pipeline is AuditWriter seen from a caller:    *)
(* `trail` holds what it stored or, in fail-open mode, counted as lost.    *)
(***************************************************************************)
EXTENDS Integers, Sequences, FiniteSets

CONSTANTS
    Last,       \* the client sends requests 1..Last, in this order
    Items,      \* what requests can change
    Noisy,      \* the items that are value writes a summarise group may name
    Touches,    \* the items each request changes
    MaxNodes,   \* MAX_NODES: nodes summarised at once
    MaxFailed,  \* MAX_FAILED_ITEMS: items recorded of a request that failed as a whole
    Groups,     \* the values summarise takes while the gateway runs
    FailModes,  \* the values fail_closed takes while the gateway runs
    StoreFails, \* whether the audit store may refuse an entry
    Stalls,     \* whether the audit store may take longer than CLOSE_TIMEOUT
    Stops,      \* whether the target may be stopped (reconfigured, removed)
    Exits       \* whether the gateway itself stops then

Requests == 1..Last

ASSUME ForwardAssumption ==
    /\ Last \in Nat
    /\ Noisy \subseteq Items
    /\ Touches \in [Requests -> SUBSET Items]
    /\ MaxNodes \in Nat
    /\ MaxFailed \in Nat
    /\ Groups \subseteq SUBSET Noisy /\ Groups # {}
    /\ FailModes \subseteq BOOLEAN /\ FailModes # {}
    /\ StoreFails \in BOOLEAN /\ Stalls \in BOOLEAN
    /\ Stops \in BOOLEAN /\ Exits \in BOOLEAN

VARIABLES
    fail_closed, \* AuditSettings.fail_closed
    summarise,   \* SummariseList: the items summarised now
    st,          \* each request: where its future is
    fc,          \* forward's copy of the fail mode
    taken,       \* the items taken out of the plan (IgnoredItems)
    reading,     \* the read of the old values: "no", "asked" or "over"
    old,         \* the old values read, by item; empty until read
    status,      \* the status of each item once send returned
    left,        \* the items whose outcome is still to be counted or recorded
    wire,        \* the messages on their way to the server
    answers,     \* the responses on their way back
    upstream,    \* "none", "up", "dying" (lost, not yet noticed) or "closed"
    value,       \* the server: the request that last changed each item, 0 at first
    applied,     \* the server, history: every change with the value it replaced
    order,       \* history: the requests in the order they were sent upstream, and whether
                 \* the connection was draining by then
    conn,        \* the connection task
    ignored,     \* IgnoredWrites: writes counted since the last summary
    holding,     \* summaries taken by a task and not yet recorded
    trail,       \* what the audit pipeline accounts for
    shutdown,    \* the target's shutdown token
    serve        \* the accept loop

settings == <<fail_closed, summarise>>
futures == <<st, fc, taken, reading, old, status, left>>
channel == <<wire, answers, upstream, order>>
server == <<value, applied>>
tasks == <<conn, shutdown, serve>>
vars == <<settings, futures, channel, server, tasks, ignored, holding, trail>>
-------------------------------------------------------------------------------
Statuses == {"Good", "Bad", "Uncertain"}
Values == 0..Last

\* The records that matter here, and a write counted for a summary.
Intent(r) == [what |-> "intent", req |-> r, items |-> Touches[r] \ taken[r]]
Outcome(r, i, was) ==
    [what |-> "outcome", req |-> r, item |-> i, status |-> status[r][i], old |-> was]
Summary(W) == [what |-> "summary", writes |-> W]
Counted(r, i) == [req |-> r, item |-> i, status |-> status[r][i]]

IsAudited(r) == Touches[r] # {}
Pending == {r \in Requests : st[r] \in {"pushed", "intent", "sent", "recording"}}
Live == conn \in {"open", "closing", "drain", "forced"}
Draining == conn \in {"drain", "forced"}

Init ==
    /\ fail_closed \in FailModes
    /\ summarise \in Groups
    /\ st = [r \in Requests |-> "new"]
    /\ fc = [r \in Requests |-> FALSE]
    /\ taken = [r \in Requests |-> {}]
    /\ reading = [r \in Requests |-> "no"]
    /\ old = [r \in Requests |-> {}]
    /\ status = [r \in Requests |-> [i \in Items |-> "Bad"]]
    /\ left = [r \in Requests |-> {}]
    /\ wire = << >> /\ answers = {} /\ upstream = "none" /\ order = << >>
    /\ value = [i \in Items |-> 0] /\ applied = {}
    /\ conn = "open" /\ shutdown = FALSE /\ serve = "serving"
    /\ ignored = {} /\ holding = [h \in {"conn", "serve"} |-> {}]
    /\ trail = {}
-------------------------------------------------------------------------------
(* The future of one request.                                              *)

\* events_with: a request that failed as a whole records only a sample.
Sampled(r, kept, failed) ==
    IF failed /\ Cardinality(kept) > MaxFailed
    THEN {Touches[r] \ (kept \ S) : S \in {T \in SUBSET kept : Cardinality(T) = MaxFailed}}
    ELSE {Touches[r]}

\* send returned: the status of every item is known, and nothing is recorded yet.
Returned(r, kept, s, failed) ==
    /\ st' = [st EXCEPT ![r] = "recording"]
    /\ status' = [status EXCEPT ![r] = s]
    /\ \E L \in Sampled(r, kept, failed) : left' = [left EXCEPT ![r] = L]

All(s) == [i \in Items |-> s]

\* Mutant: the change is queued before the read.
MutChangeBeforeRead(r, kept, asks) ==
    /\ upstream = "up"
    /\ st' = [st EXCEPT ![r] = "sent"]
    /\ wire' = wire \o <<[op |-> "change", req |-> r]>>
                    \o (IF asks THEN <<[op |-> "read", req |-> r]>> ELSE << >>)
    /\ order' = Append(order, [req |-> r, late |-> Draining])
    /\ UNCHANGED <<status, left>>

\* Upstream::send, polled for the read of the old values first and then for the request.
Send(r, kept, asks) ==
    \/ /\ upstream = "up"
       /\ st' = [st EXCEPT ![r] = "sent"]
       /\ wire' = wire \o (IF asks THEN <<[op |-> "read", req |-> r]>> ELSE << >>)
                       \o <<[op |-> "change", req |-> r]>>
       /\ order' = Append(order, [req |-> r, late |-> Draining])
       /\ UNCHANGED <<status, left>>
    \/ /\ upstream \in {"dying", "closed"}   \* maybe_sent is false
       /\ Returned(r, kept, All("Bad"), TRUE)
       /\ UNCHANGED <<wire, order>>
    \/ /\ upstream = "dying"                 \* the channel failed in another way
       /\ Returned(r, kept, All("Uncertain"), FALSE)
       /\ UNCHANGED <<wire, order>>

\* Mutant: new futures are polled in any order.
MutAnyInLine(r) == st[r] = "pushed"

\* FuturesUnordered polls new futures in the order they were pushed, and finish_audited
\* pushes the ones it keeps to a new set: into_iter walks the old one from the newest.
FirstInLine(r) ==
    /\ st[r] = "pushed"
    /\ \A q \in Requests : (IF Draining THEN q > r ELSE q < r) => st[q] # "pushed"

\* The first poll of a future, when it is its turn: plan, take_ignored, pre_read, and then
\* either the request for a committed intent or the request itself.
Poll(r) ==
    /\ Live
    /\ FirstInLine(r)
    /\ LET kept == Touches[r] \ summarise
       IN  /\ taken' = [taken EXCEPT ![r] = Touches[r] \cap summarise]
           /\ fc' = [fc EXCEPT ![r] = fail_closed]
           /\ \E asks \in IF kept = {} THEN {FALSE} ELSE BOOLEAN :
                /\ reading' = [reading EXCEPT ![r] = IF asks THEN "asked" ELSE "no"]
                /\ IF kept # {} /\ fail_closed
                   THEN st' = [st EXCEPT ![r] = "intent"] /\ UNCHANGED <<wire, order, status, left>>
                   ELSE Send(r, kept, asks)
    /\ UNCHANGED <<settings, old, answers, upstream, server, tasks, ignored, holding, trail>>

\* Intents go through the audit queue and come back in its order, which wakes the futures
\* in that order.  In the drain's new set they wait for a turn, the newest first, or to be
\* woken, and any of them may be polled with its answer first.
Acknowledged(r) ==
    /\ Live
    /\ st[r] = "intent"
    /\ Draining \/ \A q \in Requests : q < r => st[q] # "intent"

\* record_committed of the intent returned: the request is sent in the same poll.
Forwarded(r) ==
    /\ Acknowledged(r)
    /\ trail' = trail \cup {Intent(r)}
    /\ Send(r, Touches[r] \ taken[r], reading[r] = "asked")
    /\ UNCHANGED <<settings, fc, taken, reading, old, answers, upstream, server, tasks, ignored, holding>>

\* Mutant: the request is sent although its intent failed.
MutForwardAnyway(r) ==
    /\ StoreFails
    /\ Acknowledged(r)
    /\ Send(r, Touches[r] \ taken[r], reading[r] = "asked")
    /\ UNCHANGED <<settings, fc, taken, reading, old, answers, upstream, server, tasks, ignored, holding, trail>>

\* The intent was not committed: the client gets a fault.  A store that fails
\* behind the commit leaves the intent in the trail.
Rejected(r) ==
    /\ StoreFails
    /\ Acknowledged(r)
    /\ st' = [st EXCEPT ![r] = "done"]
    /\ \E T \in {{}, {Intent(r)}} : trail' = trail \cup T
    /\ UNCHANGED <<settings, fc, taken, reading, old, status, left, channel, server, tasks, ignored, holding>>

\* A response arrived.  Without a service result of its own, an item is as good as its result.
Answered(a) ==
    LET r == a.req
        s == [i \in Items |-> IF i \in a.good THEN "Good" ELSE "Bad"]
    IN  /\ Live
        /\ a.op = "change" /\ st[r] = "sent" /\ upstream = "up"
        /\ answers' = answers \ {a}
        /\ Returned(r, Touches[r] \ taken[r], s, a.fault)
        /\ UNCHANGED <<settings, fc, taken, reading, old, wire, upstream, order, server, tasks,
                       ignored, holding, trail>>

\* apply_pre_read.
ReadAnswered(a) ==
    LET r == a.req
    IN  /\ Live
        /\ a.op = "read" /\ st[r] \in {"sent", "recording"} /\ reading[r] = "asked" /\ upstream = "up"
        /\ answers' = answers \ {a}
        /\ reading' = [reading EXCEPT ![r] = "over"]
        /\ old' = [old EXCEPT ![r] = a.values]
        /\ UNCHANGED <<settings, st, fc, taken, status, left, wire, upstream, order, server, tasks,
                       ignored, holding, trail>>

\* PRE_READ_TIMEOUT, a refused read or a lost channel: the old values stay unknown.
ReadFailed(r) ==
    /\ Live
    /\ st[r] \in {"sent", "recording"} /\ reading[r] = "asked"
    /\ reading' = [reading EXCEPT ![r] = "over"]
    /\ UNCHANGED <<settings, st, fc, taken, old, status, left, channel, server, tasks, ignored, holding, trail>>

\* Mutant: a timeout is taken for a failure.
MutTimeoutIsFailure(r) ==
    /\ Live
    /\ st[r] = "sent"
    /\ Returned(r, Touches[r] \ taken[r], All("Bad"), TRUE)
    /\ UNCHANGED <<settings, fc, taken, reading, old, channel, server, tasks, ignored, holding, trail>>

\* The upstream timeout, or the channel is gone: the request may have been sent.
NoResponse(r) ==
    /\ Live
    /\ st[r] = "sent"
    /\ Returned(r, Touches[r] \ taken[r], All("Uncertain"), FALSE)
    /\ UNCHANGED <<settings, fc, taken, reading, old, channel, server, tasks, ignored, holding, trail>>

\* record and record_committed behind the answer: stored, or counted as lost.  In
\* fail-closed mode a failing store loses the entry; the caller logs it at most.
Recorded(rec) ==
    \/ trail' = trail \cup {rec}
    \/ StoreFails /\ fail_closed /\ UNCHANGED trail

Busy(r) == Live /\ st[r] = "recording" /\ reading[r] # "asked"
Room(i) == \/ \E w \in ignored : w.item = i
           \/ Cardinality({w.item : w \in ignored}) < MaxNodes

\* IgnoredWrites::add; with too many nodes pending the write is recorded as usual.
Count(r, i) ==
    /\ Busy(r)
    /\ i \in left[r] \cap taken[r]
    /\ left' = [left EXCEPT ![r] = @ \ {i}]
    /\ IF Room(i)
       THEN ignored' = ignored \cup {Counted(r, i)} /\ UNCHANGED trail
       ELSE Recorded(Outcome(r, i, {})) /\ UNCHANGED ignored
    /\ UNCHANGED <<settings, st, fc, taken, reading, old, status, channel, server, tasks, holding>>

\* The outcome of an item that is not summarised.
RecordOutcome(r, i) ==
    /\ Busy(r)
    /\ left[r] \cap taken[r] = {}
    /\ i \in left[r]
    /\ left' = [left EXCEPT ![r] = @ \ {i}]
    /\ Recorded(Outcome(r, i, {v \in old[r] : v.item = i}))
    /\ UNCHANGED <<settings, st, fc, taken, reading, old, status, channel, server, tasks, ignored, holding>>

Respond(r) ==
    /\ Busy(r)
    /\ left[r] = {}
    /\ st' = [st EXCEPT ![r] = "done"]
    /\ UNCHANGED <<settings, fc, taken, reading, old, status, left, channel, server, tasks,
                   ignored, holding, trail>>
-------------------------------------------------------------------------------
(* The upstream channel and the server behind it (external).               *)

\* The server takes the next message.  A request fails as a whole or item by item.
Serve ==
    /\ wire # << >>
    /\ LET m == Head(wire)
           r == m.req
           kept == Touches[r] \ taken[r]
       IN  /\ wire' = Tail(wire)
           /\ IF m.op = "read"
              THEN /\ answers' = answers \cup
                        {[op |-> "read", req |-> r, values |-> {[item |-> i, was |-> value[i]] : i \in kept}]}
                   /\ UNCHANGED server
              ELSE \E good \in SUBSET Touches[r], fault \in BOOLEAN :
                     /\ fault => good = {}
                     /\ answers' = answers \cup {[op |-> "change", req |-> r, good |-> good, fault |-> fault]}
                     /\ value' = [i \in Items |-> IF i \in good THEN r ELSE value[i]]
                     /\ applied' = applied \cup {[req |-> r, item |-> i, was |-> value[i]] : i \in good}
    /\ UNCHANGED <<settings, futures, upstream, order, tasks, ignored, holding, trail>>

UpstreamLost ==
    /\ upstream = "up"
    /\ upstream' = "dying"
    /\ \E n \in 0..Len(wire) : wire' = SubSeq(wire, 1, n)
    /\ UNCHANGED <<settings, futures, answers, order, server, tasks, ignored, holding, trail>>

\* The event loop ends: closed is cancelled.
LossNoticed ==
    /\ upstream = "dying"
    /\ upstream' = "closed"
    /\ UNCHANGED <<settings, futures, wire, answers, order, server, tasks, ignored, holding, trail>>
-------------------------------------------------------------------------------
(* The connection task.                                                    *)

\* handle: the request gets a future, or a fault when there is no upstream channel.
Handle(r) ==
    /\ conn = "open"
    /\ st[r] = "new"
    /\ \A q \in Requests : q < r => st[q] # "new"
    /\ \/ /\ upstream' = IF upstream = "none" THEN "up" ELSE upstream
          /\ st' = [st EXCEPT ![r] = "pushed"]
       \/ /\ upstream = "none"
          /\ st' = [st EXCEPT ![r] = "done"]
          /\ UNCHANGED upstream
    /\ UNCHANGED <<settings, fc, taken, reading, old, status, left, wire, answers, order, server, tasks,
                   ignored, holding, trail>>

\* close: the target stops, trust is withdrawn, the channel expires or fails.
Close ==
    /\ conn = "open"
    /\ conn' = "closing"
    /\ UNCHANGED <<settings, futures, channel, server, shutdown, serve, ignored, holding, trail>>

\* Mutant: audited requests are dropped too.
MutDropAll ==
    /\ conn \in {"open", "closing"}
    /\ conn' = "drain"
    /\ st' = [r \in Requests |-> IF r \in Pending THEN "dropped" ELSE st[r]]
    /\ UNCHANGED <<settings, fc, taken, reading, old, status, left, channel, server, shutdown, serve,
                   ignored, holding, trail>>

\* The loop ends; finish_audited keeps the audited futures and drops the others.  From here
\* on FirstInLine and Acknowledged follow the new set.
Leave ==
    /\ conn \in {"open", "closing"}
    /\ conn' = "drain"
    /\ st' = [r \in Requests |-> IF r \in Pending /\ ~IsAudited(r) THEN "dropped" ELSE st[r]]
    /\ UNCHANGED <<settings, fc, taken, reading, old, status, left, channel, server, shutdown, serve,
                   ignored, holding, trail>>

DrainTimeout ==
    /\ conn = "drain"
    /\ Pending # {}
    /\ conn' = "forced"
    /\ upstream' = "closed"
    /\ UNCHANGED <<settings, futures, wire, answers, order, server, shutdown, serve, ignored, holding, trail>>

WaitsForStore(r) == st[r] = "intent" \/ (Busy(r) /\ left[r] # {})

\* CLOSE_TIMEOUT in finish_audited: whatever still waits for the audit store is dropped.
CloseTimeout ==
    /\ Stalls
    /\ conn = "forced"
    /\ Pending # {} /\ \A r \in Pending : WaitsForStore(r)
    /\ conn' = "summing"
    /\ st' = [r \in Requests |-> IF r \in Pending THEN "dropped" ELSE st[r]]
    /\ holding' = IF shutdown THEN [holding EXCEPT !["conn"] = ignored] ELSE holding
    /\ ignored' = IF shutdown THEN {} ELSE ignored
    /\ UNCHANGED <<settings, fc, taken, reading, old, status, left, channel, server, shutdown, serve, trail>>

\* Mutant: the connection leaves the summaries to the accept loop.
MutLeaveCounters ==
    /\ conn \in {"drain", "forced"}
    /\ Pending = {}
    /\ conn' = "summing"
    /\ UNCHANGED <<settings, futures, channel, server, shutdown, serve, ignored, holding, trail>>

\* finish_audited returned: once the target stopped, the connection records the summaries.
Drained ==
    /\ conn \in {"drain", "forced"}
    /\ Pending = {}
    /\ conn' = "summing"
    /\ holding' = IF shutdown THEN [holding EXCEPT !["conn"] = ignored] ELSE holding
    /\ ignored' = IF shutdown THEN {} ELSE ignored
    /\ UNCHANGED <<settings, futures, channel, server, shutdown, serve, trail>>

Gone ==
    /\ conn = "summing"
    /\ holding["conn"] = {}
    /\ conn' = "gone"
    /\ upstream' = "closed"
    /\ UNCHANGED <<settings, futures, wire, answers, order, server, shutdown, serve, ignored, holding, trail>>
-------------------------------------------------------------------------------
(* The accept loop, the summaries and the stop of the target.              *)

\* Mutant: the counters are not reset.
MutCopyCounters(h) ==
    /\ holding[h] = {}
    /\ holding' = [holding EXCEPT ![h] = ignored]
    /\ UNCHANGED ignored

\* record_ignored takes all counters at once, and records one event per node.
TakeIgnored(h) ==
    /\ holding[h] = {}
    /\ holding' = [holding EXCEPT ![h] = ignored]
    /\ ignored' = {}

RecordSummary(h) ==
    /\ \E w \in holding[h] :
         LET W == {v \in holding[h] : v.item = w.item}
         IN  /\ holding' = [holding EXCEPT ![h] = @ \ W]
             /\ Recorded(Summary(W))
    /\ UNCHANGED <<settings, futures, channel, server, tasks, ignored>>

SummaryDue ==
    /\ serve = "serving"
    /\ ignored # {}
    /\ TakeIgnored("serve")
    /\ UNCHANGED <<settings, futures, channel, server, tasks, trail>>

Shutdown ==
    /\ Stops /\ ~shutdown
    /\ shutdown' = TRUE
    /\ UNCHANGED <<settings, futures, channel, server, conn, serve, ignored, holding, trail>>

\* The accept loop breaks and records the summaries once more.
StopServing ==
    /\ shutdown
    /\ serve = "serving"
    /\ TakeIgnored("serve")
    /\ serve' = "stopping"
    /\ UNCHANGED <<settings, futures, channel, server, conn, shutdown, trail>>

Stopped ==
    /\ serve = "stopping"
    /\ holding["serve"] = {}
    /\ serve' = "stopped"
    /\ UNCHANGED <<settings, futures, channel, server, conn, shutdown, ignored, holding, trail>>

\* Running::stop waits for the accept loop alone; main then ends the process, and
\* with it the connection task and everything it still holds.
Exit ==
    /\ Exits
    /\ serve = "stopped"
    /\ conn # "gone"
    /\ conn' = "gone"
    /\ st' = [r \in Requests |-> IF r \in Pending THEN "dropped" ELSE st[r]]
    /\ ignored' = {} /\ holding' = [h \in DOMAIN holding |-> {}]
    /\ upstream' = "closed"
    /\ UNCHANGED <<settings, fc, taken, reading, old, status, left, wire, answers, order, server,
                   shutdown, serve, trail>>

\* The settings change while clients are connected.
SetFailMode ==
    /\ fail_closed' \in FailModes \ {fail_closed}
    /\ UNCHANGED <<summarise, futures, channel, server, tasks, ignored, holding, trail>>

SetSummarise ==
    /\ summarise' \in Groups \ {summarise}
    /\ UNCHANGED <<fail_closed, futures, channel, server, tasks, ignored, holding, trail>>

Future(r) ==
    \/ Poll(r) \/ Forwarded(r) \/ Rejected(r) \/ ReadFailed(r) \/ NoResponse(r) \/ Respond(r)
    \/ \E i \in Items : Count(r, i) \/ RecordOutcome(r, i)

Next ==
    \/ \E r \in Requests : Handle(r) \/ Future(r)
    \/ \E a \in answers : Answered(a) \/ ReadAnswered(a)
    \/ Serve \/ UpstreamLost \/ LossNoticed
    \/ Close \/ Leave \/ DrainTimeout \/ CloseTimeout \/ Drained \/ Gone
    \/ SummaryDue \/ Shutdown \/ StopServing \/ Stopped \/ Exit
    \/ \E h \in DOMAIN holding : RecordSummary(h)
    \/ SetFailMode \/ SetSummarise

Spec == Init /\ [][Next]_vars

\* Every future and task runs on, each wait has a timeout, and the audit pipeline
\* answers (AuditWriter, CallsReturn).  Nothing is asked of the client or the server.
Fairness ==
    /\ \A r \in Requests : WF_vars(Future(r))
    /\ WF_vars(shutdown /\ Close) /\ WF_vars(conn = "closing" /\ Leave)
    /\ WF_vars(DrainTimeout) /\ WF_vars(Drained) /\ WF_vars(Gone)
    /\ WF_vars(SummaryDue) /\ WF_vars(StopServing) /\ WF_vars(Stopped)
    /\ \A h \in {"conn", "serve"} : WF_vars(RecordSummary(h))

FairSpec == Spec /\ Fairness
-------------------------------------------------------------------------------
(* Properties.                                                             *)

Write == [req : Requests, item : Items, status : Statuses]
WasValue == [item : Items, was : Values]

\* The states of the connection's futures, its channel, its tasks and the trail.
TypeOK ==
    /\ fail_closed \in BOOLEAN /\ summarise \subseteq Noisy
    /\ st \in [Requests -> {"new", "pushed", "intent", "sent", "recording", "done", "dropped"}]
    /\ fc \in [Requests -> BOOLEAN]
    /\ taken \in [Requests -> SUBSET Items]
    /\ reading \in [Requests -> {"no", "asked", "over"}]
    /\ old \in [Requests -> SUBSET WasValue]
    /\ status \in [Requests -> [Items -> Statuses]]
    /\ left \in [Requests -> SUBSET Items]
    /\ wire \in Seq([op : {"read", "change"}, req : Requests])
    /\ answers \subseteq [op : {"read"}, req : Requests, values : SUBSET WasValue]
                   \cup [op : {"change"}, req : Requests, good : SUBSET Items, fault : BOOLEAN]
    /\ upstream \in {"none", "up", "dying", "closed"}
    /\ value \in [Items -> Values]
    /\ applied \subseteq [req : Requests, item : Items, was : Values]
    /\ order \in Seq([req : Requests, late : BOOLEAN])
    /\ conn \in {"open", "closing", "drain", "forced", "summing", "gone"}
    /\ ignored \subseteq Write
    /\ holding \in [{"conn", "serve"} -> SUBSET Write]
    /\ trail \subseteq [what : {"intent"}, req : Requests, items : SUBSET Items]
                 \cup [what : {"outcome"}, req : Requests, item : Items, status : Statuses,
                       old : SUBSET WasValue]
                 \cup [what : {"summary"}, writes : SUBSET Write]
    /\ shutdown \in BOOLEAN /\ serve \in {"serving", "stopping", "stopped"}

Outcomes == {o \in trail : o.what = "outcome"}
Summarised == UNION {s.writes : s \in {t \in trail : t.what = "summary"}}
\* The statuses the gateway reported, or will report, for an item of a request.
Reported == {[req |-> o.req, item |-> o.item, status |-> o.status] : o \in Outcomes}
            \cup Summarised \cup ignored \cup holding["conn"] \cup holding["serve"]

\* The fail-closed guarantee (forward, record_committed of the intent): whatever the
\* store, the client, the upstream channel and the settings do, the server has applied no
\* change of a request forwarded in fail-closed mode without a committed intent that
\* names it.  Summarised writes are not held back.
IntentFirst ==
    \A c \in applied :
        fc[c.req] /\ c.item \notin taken[c.req] =>
            \E t \in trail : t.what = "intent" /\ t.req = c.req /\ c.item \in t.items

\* item_status and SendError.maybe_sent: an outcome "Good" was applied, and an outcome
\* "Bad" is never applied, not even after it was reported.  Both for records and summaries.
OutcomeTruthful ==
    \A w \in Reported :
        LET done == \E c \in applied : c.req = w.req /\ c.item = w.item
        IN  (w.status = "Good" => done) /\ (w.status = "Bad" => ~done)

\* finish_audited: once the connection is gone, each change the server applied, and any it
\* still may apply, has its record, also when the client hung up, the channel broke or the
\* target was stopped while the request was on its way.
Underway(r, i) == i \in Touches[r] /\ \E k \in DOMAIN wire : wire[k] = [op |-> "change", req |-> r]
Changed(r, i) == \E c \in applied : c.req = r /\ c.item = i
ChangesRecorded ==
    conn = "gone" =>
        \A r \in Requests, i \in Items :
            Changed(r, i) \/ Underway(r, i) => \E w \in Reported : w.req = r /\ w.item = i

\* IgnoredWrites: no write is in two summaries, or both counted and summarised, or both
\* summarised and recorded on its own, however add, the timer, the accept loop and the
\* connection interleave.
CountedOnce ==
    LET places == {s.writes : s \in {t \in trail : t.what = "summary"}}
        summaries == places \cup {ignored, holding["conn"], holding["serve"]}
    IN  /\ \A A, B \in summaries : A # B => A \cap B = {}
        /\ \A h, k \in {"conn", "serve"} : h # k => holding[h] \cap holding[k] = {}
        /\ \A h \in {"conn", "serve"} : ignored \cap (holding[h] \cup Summarised) = {}
        /\ \A o \in Outcomes, w \in Summarised \cup ignored : o.req # w.req \/ o.item # w.item

\* Upstream::send of the read and of the change in one poll: an old value in the trail is
\* the value the change replaced.
OldValueTrue ==
    \A o \in Outcomes, c \in applied :
        o.req = c.req /\ o.item = c.item => \A v \in o.old : v.was = c.was

\* The order of forwarded requests (handle, first poll, intent, finish_audited): a request
\* that is overtaken was waiting for its intent and the other needed none, or both were still
\* to be sent when the connection began to drain.
Held(r) == fc[r] /\ Touches[r] # taken[r]
Overtakes(j, k) == j < k /\ order[j].req > order[k].req
ForwardedInOrder ==
    \A j, k \in DOMAIN order : Overtakes(j, k) =>
        \/ Held(order[k].req) /\ ~Held(order[j].req)
        \/ order[j].late /\ order[k].late

\* The comment at the head of connection.rs, of requests that are not held for an intent:
\* "Newly pushed futures are first polled in push order, so requests reach the upstream
\* channel in the order the client sent them".
SentInPushOrder ==
    \A j, k \in DOMAIN order : Overtakes(j, k) => Held(order[k].req) \/ Held(order[j].req)

\* Noisy nodes are "summarised per node and interval, never dropped silently": a summarised
\* write that was applied is counted, being recorded, or in a summary.
NeverDroppedSilently ==
    \A c \in applied :
        /\ c.item \in taken[c.req]
        /\ st[c.req] = "done"
        => \E w \in Reported : w.req = c.req /\ w.item = c.item

\* A target that is stopped lets go of the client and leaves no write uncounted: the
\* connection ends, and no summary stays in memory with nobody left to record it.
StopSettles ==
    shutdown ~> [](conn = "gone" /\ ignored = {} /\ \A h \in DOMAIN holding : holding[h] = {})
===============================================================================
