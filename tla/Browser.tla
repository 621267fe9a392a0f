------------------------------- MODULE Browser --------------------------------
(***************************************************************************)
(* The sessions of the web UI's OPC UA browser (web/browser.rs): one per   *)
(* user and target in a map, each with an upstream session and the task of *)
(* its event loop, which runs on when nobody holds the entry any more.     *)
(*                                                                         *)
(* Interleaved: connects of one user at once, requests that read through a *)
(* session, the calls that end sessions (of a user, of a target, all, the  *)
(* idle ones), upstreams that go away, and requests dropped halfway        *)
(* because their HTTP client left.                                         *)
(***************************************************************************)
EXTENDS Integers, FiniteSets

CONSTANTS
    BrUsers, BrTargets,
    Connects,   \* calls of connect, numbered as they begin; each opens at most one upstream session
    MaxDrops    \* bound of the model: requests dropped by their client

ASSUME BrAssumption == MaxDrops \in Nat /\ Connects \subseteq Nat \ {0}

VARIABLES
    connect,  \* where each call of connect is
    entry,    \* BrowserSessions.map: the call of connect whose session is in it, or none
    upstream, \* the upstream session of each call: "none", "open", "lost" or "closed"
    closing,  \* entries taken out of the map by somebody who is closing them, in order
    opened,   \* SessionCreated records in the trail, by session
    closed,   \* how many SessionClosed records the trail has, by session
    dropped   \* history: sessions whose owner was dropped halfway

brVars == <<connect, entry, upstream, closing, opened, closed, dropped>>

Connecting(r) == connect[r].at = "start" /\ \A q \in Connects : connect[q].at = "start" => r <= q
Slots == BrUsers \X BrTargets
Nobody == 0

BrInit ==
    /\ connect = [r \in Connects |-> [at |-> "start"]]
    /\ entry = [k \in Slots |-> Nobody]
    /\ upstream = [r \in Connects |-> "none"]
    /\ closing = {}
    /\ opened = {}
    /\ closed = [r \in Connects |-> 0]
    /\ dropped = {}

\* Removes the entries of these slots from the map and hands them to close.
Take(slots) ==
    /\ entry' = [k \in Slots |-> IF k \in slots THEN Nobody ELSE entry[k]]
    /\ closing' = closing \cup {entry[k] : k \in {x \in slots : entry[x] # Nobody}}

Step(r, where) == connect' = [connect EXCEPT ![r].at = where]

\* connect takes the user's old session on the target out of the map and closes it first
ConnectTake(r) ==
    /\ Connecting(r)
    /\ \E k \in Slots :
         /\ connect' = [connect EXCEPT ![r] = [at |-> "closing_old", slot |-> k,
                                               old |-> entry[k]]]
         /\ Take({k})
    /\ UNCHANGED <<upstream, opened, closed, dropped>>

\* then opens a session upstream; a refusal or a timeout ends the call
ConnectOpen(r) ==
    /\ connect[r].at = "closing_old" /\ connect[r].old \notin closing
    /\ \/ Step(r, "connected") /\ upstream' = [upstream EXCEPT ![r] = "open"]
       \/ Step(r, "done") /\ UNCHANGED upstream
    /\ UNCHANGED <<entry, closing, opened, closed, dropped>>

\* SessionCreated is stored before the session goes into the map
ConnectRecord(r) ==
    /\ connect[r].at = "connected"
    /\ opened' = opened \cup {r}
    /\ Step(r, "recorded")
    /\ UNCHANGED <<entry, upstream, closing, closed, dropped>>

\* Mutant: the replaced session is dropped without a close.
InsertForgets(r, k) ==
    entry' = [entry EXCEPT ![k] = r] /\ UNCHANGED closing

\* insert; the session that another connect put there meanwhile is closed
InsertEntry(r, k) ==
    entry' = [entry EXCEPT ![k] = r] /\ closing' = closing \cup ({entry[k]} \ {Nobody})

ConnectInsert(r) ==
    /\ connect[r].at = "recorded"
    /\ InsertEntry(r, connect[r].slot)
    /\ Step(r, "done")
    /\ UNCHANGED <<upstream, opened, closed, dropped>>

\* disconnect, and the sessions the reaper found idle
Disconnect ==
    /\ \E k \in Slots : entry[k] # Nobody /\ Take({k})
    /\ UNCHANGED <<connect, upstream, opened, closed, dropped>>

\* close_user, close_target, close_all
CloseMany ==
    /\ \E slots \in {{k \in Slots : k[1] = u} : u \in BrUsers}
                    \cup {{k \in Slots : k[2] = t} : t \in BrTargets} \cup {Slots} :
         /\ \E k \in slots : entry[k] # Nobody
         /\ Take(slots)
    /\ UNCHANGED <<connect, upstream, opened, closed, dropped>>

\* close: disconnects and records SessionClosed
Close ==
    /\ \E r \in closing :
         /\ closing' = closing \ {r}
         /\ upstream' = [upstream EXCEPT ![r] = "closed"]
         /\ closed' = [closed EXCEPT ![r] = @ + 1]
    /\ UNCHANGED <<connect, entry, opened, dropped>>

\* session and get, for browse, attributes and values: an entry whose event loop has
\* finished is dropped from the map, without a record
Get ==
    /\ \E k \in Slots :
         /\ entry[k] # Nobody /\ upstream[entry[k]] = "lost"
         /\ entry' = [entry EXCEPT ![k] = Nobody]
    /\ UNCHANGED <<connect, upstream, closing, opened, closed, dropped>>

\* the upstream or the network goes away; the event loop ends (no retries)
UpstreamLost ==
    /\ \E r \in Connects :
         upstream[r] = "open" /\ upstream' = [upstream EXCEPT ![r] = "lost"]
    /\ UNCHANGED <<connect, entry, closing, opened, closed, dropped>>

\* the HTTP client leaves: its handler is dropped at the await it is at
DropConnect(r) ==
    /\ Cardinality(dropped) < MaxDrops
    /\ connect[r].at \in {"connected", "recorded"}
    /\ Step(r, "done")
    /\ dropped' = dropped \cup {r}
    /\ UNCHANGED <<entry, upstream, closing, opened, closed>>

DropClosing ==
    /\ Cardinality(dropped) < MaxDrops
    /\ \E r \in closing :
         /\ closing' = closing \ {r}
         /\ dropped' = dropped \cup {r}
         /\ connect' = [c \in Connects |->
              IF connect[c].at = "closing_old" /\ connect[c].old = r
              THEN [connect[c] EXCEPT !.at = "done"] ELSE connect[c]]
    /\ UNCHANGED <<entry, upstream, opened, closed>>

BrNext ==
    \/ \E r \in Connects : \/ ConnectTake(r) \/ ConnectOpen(r) \/ ConnectRecord(r)
                           \/ ConnectInsert(r) \/ DropConnect(r)
    \/ Disconnect \/ CloseMany \/ Close \/ Get \/ UpstreamLost \/ DropClosing
-------------------------------------------------------------------------------
\* The entries and the stages are the ones the code has.
BrTypeOK ==
    /\ \A r \in Connects : connect[r].at \in {"start", "closing_old", "connected", "recorded",
                                              "done"}
    /\ \A k \in Slots : entry[k] \in Connects \cup {Nobody}
    /\ closing \subseteq Connects /\ opened \subseteq Connects /\ dropped \subseteq Connects

\* Two connects at once never leak a session: whatever is open upstream is in the map,
\* or still belongs to its connect, or is being closed (or its request was dropped).
NoSessionLeaks ==
    \A r \in Connects : upstream[r] = "open" =>
        \/ \E k \in Slots : entry[k] = r
        \/ connect[r].at \in {"connected", "recorded"}
        \/ r \in closing
        \/ r \in dropped

\* The trail tells each session's end once, and never before its beginning; a session it
\* tells the end of is closed upstream and is no longer handed to anybody.
EndsRecordedOnce ==
    \A r \in Connects :
        /\ closed[r] <= 1
        /\ closed[r] = 1 => r \in opened /\ upstream[r] = "closed" /\ \A k \in Slots : entry[k] # r

\* The sessions of the browser are accounted for: none leaks, and the trail tells each end once.
SessionsAccounted == NoSessionLeaks /\ EndsRecordedOnce

BrSpec == BrInit /\ [][BrNext]_brVars
===============================================================================
