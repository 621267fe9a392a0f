----------------------------- MODULE ServiceProofs -----------------------------
(***************************************************************************)
(* Proofs about the services around the relay: the OPC UA browser (module  *)
(* Browser), the export of the trail (module Export) and the alarms that   *)
(* an assistant acknowledges (module Assistant).                           *)
(***************************************************************************)
EXTENDS Browser, Export, Assistant, SequenceTheorems, WellFoundedInduction, TLAPS

-------------------------------------------------------------------------------
(***************************************************************************)
(* The sessions of the browser                                             *)
(***************************************************************************)
ConnectStages == {"closing_old", "connected", "recorded", "done"}
ConnectCalls == [at : {"start"}] \cup [at : ConnectStages, slot : Slots, old : Connects \cup {Nobody}]

BrTyped ==
    /\ connect \in [Connects -> ConnectCalls]
    /\ entry \in [Slots -> Connects \cup {Nobody}]
    /\ upstream \in [Connects -> {"none", "open", "lost", "closed"}]
    /\ closed \in [Connects -> Nat]
    /\ closing \subseteq Connects

\* where the session of call r is: with its call, in one slot of the map, with whoever
\* closes it, or over
SessionOK(r) ==
    /\ connect[r].at \in {"start", "closing_old"} => upstream[r] = "none" /\ r \notin opened
    /\ connect[r].at # "done" => r \notin closing /\ closed[r] = 0 /\ \A k \in Slots : entry[k] # r
    /\ connect[r].at = "recorded" => r \in opened
    /\ r \in closing => r \in opened /\ closed[r] = 0 /\ \A k \in Slots : entry[k] # r
    /\ \A k \in Slots : entry[k] = r =>
         r \in opened /\ closed[r] = 0 /\ \A l \in Slots : entry[l] = r => l = k
    /\ closed[r] \in {0, 1}
    /\ closed[r] = 1 => r \in opened /\ upstream[r] = "closed"
    /\ upstream[r] = "open" =>
         \/ \E k \in Slots : entry[k] = r
         \/ connect[r].at \in {"connected", "recorded"}
         \/ r \in closing
         \/ r \in dropped

BrInv == BrTyped /\ \A r \in Connects : SessionOK(r)

\* A call is put at its next stage; the other calls stay where they are.
LEMMA StepTo ==
    ASSUME BrTyped, NEW r \in Connects, NEW where \in ConnectStages,
           connect[r].at # "start", Step(r, where)
    PROVE  /\ connect' \in [Connects -> ConnectCalls]
           /\ connect'[r].at = where
           /\ \A q \in Connects : q # r => connect'[q] = connect[q]
<1>1. connect[r] \in [at : ConnectStages, slot : Slots, old : Connects \cup {Nobody}]
  BY DEF BrTyped, ConnectCalls
<1>2. PICK c : c = [connect[r] EXCEPT !.at = where]
  OBVIOUS
<1>3. c \in ConnectCalls /\ c.at = where
  BY <1>1, <1>2 DEF ConnectCalls
<1>4. connect' = [connect EXCEPT ![r] = c]
  BY <1>2 DEF Step
<1> QED
  BY <1>3, <1>4 DEF BrTyped

\* What is taken out of the map is with whoever closes it.
LEMMA TakeKeeps ==
    ASSUME BrInv, NEW slots \in SUBSET Slots, Take(slots),
           UNCHANGED <<upstream, opened, closed, dropped>>,
           connect' \in [Connects -> ConnectCalls],
           \A q \in Connects :
              \/ connect'[q] = connect[q]
              \/ connect[q].at = "start" /\ connect'[q].at = "closing_old"
    PROVE  BrInv'
<1>1. BrTyped /\ \A q \in Connects : SessionOK(q)
  BY DEF BrInv
<1>2. /\ entry' = [k \in Slots |-> IF k \in slots THEN Nobody ELSE entry[k]]
      /\ closing' = closing \cup {entry[k] : k \in {x \in slots : entry[x] # Nobody}}
  BY DEF Take
<1>3. closing' \subseteq Connects
  BY <1>1, <1>2 DEF BrTyped
<1>4. BrTyped'
  BY <1>1, <1>2, <1>3 DEF BrTyped
<1>5. Nobody \notin Connects
  BY BrAssumption DEF Nobody
<1>6. ASSUME NEW q \in Connects
      PROVE  SessionOK(q)'
  <2>1. SessionOK(q)
    BY <1>1
  <2>2. \A k \in Slots : entry'[k] = q <=> k \notin slots /\ entry[k] = q
    BY <1>2, <1>5
  <2>3. q \in closing' <=> q \in closing \/ \E k \in slots : entry[k] = q
    BY <1>2, <1>5
  <2>4. q \in closing' => q \in opened /\ closed[q] = 0 /\ \A k \in Slots : entry'[k] # q
    BY <2>1, <2>2, <2>3 DEF SessionOK
  <2>5. connect[q].at # "done" => q \notin closing'
    BY <2>1, <2>3 DEF SessionOK
  <2>6. \A k \in Slots : entry'[k] = q =>
          q \in opened /\ closed[q] = 0 /\ \A l \in Slots : entry'[l] = q => l = k
    BY <2>1, <2>2 DEF SessionOK
  <2>7. upstream[q] = "open" =>
         \/ \E k \in Slots : entry'[k] = q
         \/ connect[q].at \in {"connected", "recorded"}
         \/ q \in closing'
         \/ q \in dropped
    BY <2>1, <2>2, <2>3 DEF SessionOK
  <2>8. CASE connect'[q] = connect[q]
    BY <2>1, <2>2, <2>4, <2>5, <2>6, <2>7, <2>8 DEF SessionOK
  <2>9. CASE connect[q].at = "start" /\ connect'[q].at = "closing_old"
    BY <2>1, <2>2, <2>4, <2>5, <2>6, <2>7, <2>9 DEF SessionOK
  <2> QED
    BY <2>8, <2>9
<1> QED
  BY <1>4, <1>6 DEF BrInv

\* The steps of connect up to the insertion into the map, and its end when its client leaves.
LEMMA ConnectKeeps ==
    ASSUME BrInv, NEW r \in Connects, ConnectOpen(r) \/ ConnectRecord(r) \/ DropConnect(r)
    PROVE  BrInv'
<1>1. BrTyped /\ \A q \in Connects : SessionOK(q)
  BY DEF BrInv
<1>2. PICK where \in {"connected", "recorded", "done"} : Step(r, where)
  BY DEF ConnectOpen, ConnectRecord, DropConnect
<1>3. connect[r].at \in {"closing_old", "connected", "recorded"}
      /\ UNCHANGED <<entry, closing, closed>>
  BY DEF ConnectOpen, ConnectRecord, DropConnect
<1>4. /\ connect' \in [Connects -> ConnectCalls]
      /\ connect'[r].at = where
      /\ \A q \in Connects : q # r => connect'[q] = connect[q]
  BY <1>1, <1>2, <1>3, StepTo DEF ConnectStages
<1>5. upstream' \in [Connects -> {"none", "open", "lost", "closed"}]
      /\ \A q \in Connects : q # r => upstream'[q] = upstream[q]
  BY <1>1 DEF ConnectOpen, ConnectRecord, DropConnect, BrTyped
<1>6. BrTyped'
  BY <1>1, <1>3, <1>4, <1>5 DEF BrTyped
<1>7. /\ opened \subseteq opened' /\ opened' \subseteq opened \cup {r}
      /\ dropped \subseteq dropped'
  BY DEF ConnectOpen, ConnectRecord, DropConnect
<1>8. ASSUME NEW q \in Connects, q # r
      PROVE  SessionOK(q)'
  <2>1. SessionOK(q) /\ (q \in opened' <=> q \in opened) /\ (q \in dropped => q \in dropped')
    BY <1>1, <1>7, <1>8
  <2> QED
    BY <1>3, <1>4, <1>5, <1>8, <2>1 DEF SessionOK
<1>9. SessionOK(r)'
  <2>1. SessionOK(r) /\ connect[r].at # "done"
    BY <1>1, <1>3
  <2>2. r \notin closing' /\ closed'[r] = 0 /\ \A k \in Slots : entry'[k] # r
    BY <1>3, <2>1 DEF SessionOK
  <2>3. CASE ConnectOpen(r)
    <3>1. connect'[r].at = "connected" \/ (connect'[r].at = "done" /\ upstream'[r] = "none")
      <4>1. CASE Step(r, "connected")
        BY <1>1, <1>3, <4>1, StepTo DEF ConnectStages
      <4>2. CASE Step(r, "done") /\ UNCHANGED upstream
        BY <1>1, <1>3, <2>1, <2>3, <4>2, StepTo DEF ConnectStages, SessionOK, ConnectOpen
      <4> QED
        BY <2>3, <4>1, <4>2 DEF ConnectOpen
    <3> QED
      BY <2>2, <3>1 DEF SessionOK
  <2>4. CASE ConnectRecord(r)
    <3>1. connect'[r].at = "recorded" /\ r \in opened'
      BY <1>1, <1>3, <2>4, StepTo DEF ConnectRecord, ConnectStages
    <3> QED
      BY <2>2, <3>1 DEF SessionOK
  <2>5. CASE DropConnect(r)
    <3>1. connect'[r].at = "done" /\ r \in dropped'
      BY <1>1, <1>3, <2>5, StepTo DEF DropConnect, ConnectStages
    <3> QED
      BY <2>2, <3>1 DEF SessionOK
  <2> QED
    BY <2>3, <2>4, <2>5
<1> QED
  BY <1>6, <1>8, <1>9 DEF BrInv

\* insert hands the session it replaces to close.
LEMMA ConnectInsertKeeps ==
    ASSUME BrInv, NEW r \in Connects, ConnectInsert(r)
    PROVE  BrInv'
<1>1. BrTyped /\ \A q \in Connects : SessionOK(q)
  BY DEF BrInv
<1>2. connect[r].at = "recorded" /\ Step(r, "done") /\ UNCHANGED <<upstream, opened, closed, dropped>>
  BY DEF ConnectInsert
<1>3. PICK k : k = connect[r].slot
  OBVIOUS
<1>4. k \in Slots
  BY <1>1, <1>2, <1>3 DEF BrTyped, ConnectCalls
<1>5. entry' = [entry EXCEPT ![k] = r] /\ closing' = closing \cup ({entry[k]} \ {Nobody})
  BY <1>3 DEF ConnectInsert, InsertEntry
<1>6. /\ connect' \in [Connects -> ConnectCalls]
      /\ connect'[r].at = "done"
      /\ \A q \in Connects : q # r => connect'[q] = connect[q]
  BY <1>1, <1>2, StepTo DEF ConnectStages
<1>7. /\ entry' \in [Slots -> Connects \cup {Nobody}]
      /\ entry'[k] = r
      /\ \A l \in Slots : l # k => entry'[l] = entry[l]
  BY <1>1, <1>4, <1>5 DEF BrTyped
<1>8. BrTyped'
  BY <1>1, <1>2, <1>4, <1>5, <1>6, <1>7 DEF BrTyped
<1>9. Nobody \notin Connects
  BY BrAssumption DEF Nobody
<1>10. SessionOK(r) /\ r \notin closing /\ \A l \in Slots : entry[l] # r
  BY <1>1, <1>2 DEF SessionOK
<1>11. ASSUME NEW q \in Connects, q # r
       PROVE  SessionOK(q)'
  <2>1. SessionOK(q) /\ connect'[q] = connect[q]
    BY <1>1, <1>6, <1>11
  <2>2. CASE q = entry[k]
    <3>1. q \in closing' /\ \A l \in Slots : entry'[l] # q
      BY <1>4, <1>5, <1>7, <1>9, <1>11, <2>1, <2>2 DEF SessionOK
    <3>2. connect[q].at = "done" /\ q \in opened /\ closed[q] = 0
      BY <1>4, <2>1, <2>2 DEF SessionOK
    <3> QED
      BY <1>2, <2>1, <3>1, <3>2 DEF SessionOK
  <2>3. CASE q # entry[k]
    <3>1. (q \in closing' <=> q \in closing) /\ \A l \in Slots : entry'[l] = q <=> entry[l] = q
      BY <1>4, <1>5, <1>7, <1>11, <2>3
    <3> QED
      BY <1>2, <2>1, <3>1 DEF SessionOK
  <2> QED
    BY <2>2, <2>3
<1>12. SessionOK(r)'
  <2>1. r \notin closing' /\ \A l \in Slots : entry'[l] = r <=> l = k
    BY <1>4, <1>5, <1>7, <1>10
  <2>2. r \in opened /\ closed[r] = 0
    BY <1>2, <1>10 DEF SessionOK
  <2> QED
    BY <1>2, <1>4, <1>6, <2>1, <2>2 DEF SessionOK
<1> QED
  BY <1>8, <1>11, <1>12 DEF BrInv

\* A session is closed and its end recorded.
LEMMA CloseKeeps ==
    ASSUME BrInv, Close
    PROVE  BrInv'
<1>1. BrTyped /\ \A q \in Connects : SessionOK(q)
  BY DEF BrInv
<1>2. PICK r \in closing :
         /\ closing' = closing \ {r}
         /\ upstream' = [upstream EXCEPT ![r] = "closed"]
         /\ closed' = [closed EXCEPT ![r] = @ + 1]
  BY DEF Close
<1>3. UNCHANGED <<connect, entry, opened, dropped>>
  BY DEF Close
<1>4. r \in Connects /\ closed[r] = 0
  BY <1>1 DEF BrTyped, SessionOK
<1>5. /\ upstream' \in [Connects -> {"none", "open", "lost", "closed"}]
      /\ upstream'[r] = "closed" /\ \A q \in Connects : q # r => upstream'[q] = upstream[q]
      /\ closed' \in [Connects -> Nat]
      /\ closed'[r] = 1 /\ \A q \in Connects : q # r => closed'[q] = closed[q]
  BY <1>1, <1>2, <1>4 DEF BrTyped
<1>6. BrTyped'
  BY <1>1, <1>2, <1>3, <1>5 DEF BrTyped
<1>7. ASSUME NEW q \in Connects, q # r
      PROVE  SessionOK(q)'
  <2>1. SessionOK(q) /\ (q \in closing' <=> q \in closing)
    BY <1>1, <1>2, <1>7
  <2> QED
    BY <1>3, <1>5, <1>7, <2>1 DEF SessionOK
<1>8. SessionOK(r)'
  <2>1. /\ connect[r].at = "done" /\ r \in opened /\ r \notin closing'
        /\ \A k \in Slots : entry[k] # r
    BY <1>1, <1>2, <1>4 DEF SessionOK
  <2> QED
    BY <1>3, <1>5, <2>1 DEF SessionOK
<1> QED
  BY <1>6, <1>7, <1>8 DEF BrInv

\* An entry whose upstream is lost is dropped from the map.
LEMMA GetKeeps ==
    ASSUME BrInv, Get
    PROVE  BrInv'
<1>1. BrTyped /\ \A q \in Connects : SessionOK(q)
  BY DEF BrInv
<1>2. PICK k \in Slots :
         /\ entry[k] # Nobody /\ upstream[entry[k]] = "lost"
         /\ entry' = [entry EXCEPT ![k] = Nobody]
  BY DEF Get
<1>3. UNCHANGED <<connect, upstream, closing, opened, closed, dropped>>
  BY DEF Get
<1>4. /\ entry' \in [Slots -> Connects \cup {Nobody}]
      /\ entry'[k] = Nobody /\ \A l \in Slots : l # k => entry'[l] = entry[l]
  BY <1>1, <1>2 DEF BrTyped
<1>5. BrTyped'
  BY <1>1, <1>3, <1>4 DEF BrTyped
<1>6. ASSUME NEW q \in Connects
      PROVE  SessionOK(q)'
  <2>1. SessionOK(q) /\ q # Nobody
    BY <1>1, BrAssumption DEF Nobody
  <2>2. \A l \in Slots : entry'[l] = q <=> l # k /\ entry[l] = q
    BY <1>4, <2>1
  <2>3. upstream[q] = "open" => \A l \in Slots : entry[l] = q => entry'[l] = q
    BY <1>2, <2>2
  <2> QED
    BY <1>3, <2>1, <2>2, <2>3 DEF SessionOK
<1> QED
  BY <1>5, <1>6 DEF BrInv

LEMMA UpstreamLostKeeps ==
    ASSUME BrInv, UpstreamLost
    PROVE  BrInv'
<1>1. BrTyped /\ \A q \in Connects : SessionOK(q)
  BY DEF BrInv
<1>2. PICK r \in Connects : upstream[r] = "open" /\ upstream' = [upstream EXCEPT ![r] = "lost"]
  BY DEF UpstreamLost
<1>3. UNCHANGED <<connect, entry, closing, opened, closed, dropped>>
  BY DEF UpstreamLost
<1>4. BrTyped'
  BY <1>1, <1>2, <1>3 DEF BrTyped
<1>5. ASSUME NEW q \in Connects
      PROVE  SessionOK(q)'
  <2>1. SessionOK(q)
    BY <1>1
  <2>2. CASE q = r
    BY <1>1, <1>2, <1>3, <2>1, <2>2 DEF SessionOK, BrTyped
  <2>3. CASE q # r
    BY <1>1, <1>2, <1>3, <2>1, <2>3 DEF SessionOK, BrTyped
  <2> QED
    BY <2>2, <2>3
<1> QED
  BY <1>4, <1>5 DEF BrInv

\* The request that closes a session is dropped.
LEMMA DropClosingKeeps ==
    ASSUME BrInv, DropClosing
    PROVE  BrInv'
<1>1. BrTyped /\ \A q \in Connects : SessionOK(q)
  BY DEF BrInv
<1>2. PICK r \in closing :
         /\ closing' = closing \ {r}
         /\ dropped' = dropped \cup {r}
         /\ connect' = [c \in Connects |->
              IF connect[c].at = "closing_old" /\ connect[c].old = r
              THEN [connect[c] EXCEPT !.at = "done"] ELSE connect[c]]
  BY DEF DropClosing
<1>3. UNCHANGED <<entry, upstream, opened, closed>>
  BY DEF DropClosing
<1>4. \A c \in Connects :
        /\ connect'[c] \in ConnectCalls
        /\ \/ connect'[c] = connect[c]
           \/ connect[c].at = "closing_old" /\ connect'[c].at = "done"
  <2> TAKE c \in Connects
  <2>1. connect[c] \in ConnectCalls
    BY <1>1 DEF BrTyped
  <2>2. CASE connect[c].at = "closing_old" /\ connect[c].old = r
    <3>1. connect'[c] = [connect[c] EXCEPT !.at = "done"]
      BY <1>2, <2>2
    <3> QED
      BY <2>1, <2>2, <3>1 DEF ConnectCalls, ConnectStages
  <2>3. CASE ~(connect[c].at = "closing_old" /\ connect[c].old = r)
    BY <1>2, <2>1, <2>3
  <2> QED
    BY <2>2, <2>3
<1>5. connect' \in [Connects -> ConnectCalls]
  BY <1>2, <1>4
<1>6. BrTyped'
  BY <1>1, <1>2, <1>3, <1>5 DEF BrTyped
<1>7. ASSUME NEW q \in Connects
      PROVE  SessionOK(q)'
  <2>1. /\ SessionOK(q)
        /\ q \in closing' => q \in closing
        /\ q \in closing => q \in closing' \/ q \in dropped'
        /\ q \in dropped => q \in dropped'
    BY <1>1, <1>2
  <2>2. CASE connect'[q] = connect[q]
    BY <1>3, <2>1, <2>2 DEF SessionOK
  <2>3. CASE connect[q].at = "closing_old" /\ connect'[q].at = "done"
    BY <1>3, <2>1, <2>3 DEF SessionOK
  <2> QED
    BY <1>4, <2>2, <2>3
<1> QED
  BY <1>6, <1>7 DEF BrInv

LEMMA BrInvariance == BrSpec => []BrInv
<1>1. BrInit => BrInv
  <2> SUFFICES ASSUME BrInit PROVE BrInv
    OBVIOUS
  <2>1. BrTyped
    BY DEF BrInit, BrTyped, ConnectCalls
  <2>2. \A r \in Connects : SessionOK(r)
    BY BrAssumption DEF BrInit, SessionOK, Nobody
  <2> QED
    BY <2>1, <2>2 DEF BrInv
<1>2. BrInv /\ [BrNext]_brVars => BrInv'
  <2> SUFFICES ASSUME BrInv, [BrNext]_brVars PROVE BrInv'
    OBVIOUS
  <2>0. BrTyped
    BY DEF BrInv
  <2>1. CASE UNCHANGED brVars
    BY <2>1 DEF brVars, BrInv, BrTyped, SessionOK
  <2>2. ASSUME NEW r \in Connects, ConnectTake(r)
        PROVE  BrInv'
    <3>1. PICK k \in Slots : Take({k}) /\
            connect' = [connect EXCEPT ![r] = [at |-> "closing_old", slot |-> k, old |-> entry[k]]]
      BY <2>2 DEF ConnectTake
    <3>2. PICK c : c = [at |-> "closing_old", slot |-> k, old |-> entry[k]]
      OBVIOUS
    <3>3. c \in ConnectCalls /\ c.at = "closing_old"
      BY <2>0, <3>2 DEF ConnectCalls, ConnectStages, BrTyped
    <3>4. connect' = [connect EXCEPT ![r] = c]
      BY <3>1, <3>2
    <3>5. connect' \in [Connects -> ConnectCalls] /\ connect'[r] = c
          /\ \A q \in Connects : q # r => connect'[q] = connect[q]
      BY <2>0, <3>3, <3>4 DEF BrTyped
    <3>6. connect[r].at = "start" /\ UNCHANGED <<upstream, opened, closed, dropped>>
      BY <2>2 DEF ConnectTake, Connecting
    <3> QED
      BY <3>1, <3>3, <3>5, <3>6, TakeKeeps
  <2>3. CASE Disconnect
    BY <2>0, <2>3, TakeKeeps DEF Disconnect, BrTyped
  <2>4. CASE CloseMany
    <3>1. PICK slots \in SUBSET Slots : Take(slots)
      BY <2>4 DEF CloseMany
    <3> QED
      BY <2>0, <2>4, <3>1, TakeKeeps DEF CloseMany, BrTyped
  <2> QED
    BY <2>1, <2>2, <2>3, <2>4, ConnectKeeps, ConnectInsertKeeps, CloseKeeps, GetKeeps,
       UpstreamLostKeeps, DropClosingKeeps DEF BrNext
<1> QED
  BY <1>1, <1>2, PTL DEF BrSpec

(***************************************************************************)
(* No session of the browser leaks, and the trail tells the end of each    *)
(* once and after its beginning (BrowserSessions: connect, close).         *)
(***************************************************************************)
THEOREM BrowserSessionsAccounted == BrSpec => []SessionsAccounted
<1>1. BrInv => SessionsAccounted
  <2> SUFFICES ASSUME BrInv, NEW r \in Connects
               PROVE  /\ upstream[r] = "open" =>
                           \/ \E k \in Slots : entry[k] = r
                           \/ connect[r].at \in {"connected", "recorded"}
                           \/ r \in closing
                           \/ r \in dropped
                      /\ closed[r] <= 1
                      /\ closed[r] = 1 => /\ r \in opened /\ upstream[r] = "closed"
                                          /\ \A k \in Slots : entry[k] # r
    BY DEF SessionsAccounted, NoSessionLeaks, EndsRecordedOnce
  <2>1. SessionOK(r)
    BY DEF BrInv
  <2> QED
    BY <2>1 DEF SessionOK
<1> QED
  BY <1>1, BrInvariance, PTL

\* Type correctness of the browser's sessions: the stages of its connects, and what is in
\* the map, is being closed or was dropped are sessions that somebody began, for any number
\* of users, targets and connects: BrowserSessions of web/browser.rs.
THEOREM BrowserTyped == BrSpec => []BrTypeOK
<1> DEFINE Begun == opened \subseteq Connects /\ dropped \subseteq Connects
<1>1. BrInit => Begun
  BY DEF BrInit
<1>2. BrInv /\ Begun /\ [BrNext]_brVars => Begun'
  <2> SUFFICES ASSUME BrInv, Begun, [BrNext]_brVars PROVE Begun'
    OBVIOUS
  <2>1. CASE UNCHANGED brVars
    BY <2>1 DEF brVars
  <2>2. ASSUME NEW r \in Connects,
               \/ ConnectTake(r) \/ ConnectOpen(r) \/ ConnectRecord(r)
               \/ ConnectInsert(r) \/ DropConnect(r)
        PROVE  Begun'
    BY <2>2 DEF ConnectTake, ConnectOpen, ConnectRecord, ConnectInsert, DropConnect
  <2>3. CASE Disconnect \/ CloseMany \/ Close \/ Get \/ UpstreamLost
    BY <2>3 DEF Disconnect, CloseMany, Close, Get, UpstreamLost
  <2>4. CASE DropClosing
    BY <2>4 DEF DropClosing, BrInv, BrTyped
  <2> QED
    BY <2>1, <2>2, <2>3, <2>4 DEF BrNext
<1>3. BrInv /\ Begun => BrTypeOK
  BY DEF BrInv, BrTyped, BrTypeOK, ConnectCalls, ConnectStages
<1> QED
  BY <1>1, <1>2, <1>3, BrInvariance, PTL DEF BrSpec

-------------------------------------------------------------------------------
(***************************************************************************)
(* The export of the trail                                                 *)
(***************************************************************************)
Positions == [seq : Nat, hash : Nat]
Entries == [seq : Nat, hash : Nat, prev : Nat]
TaskStages == {"begin", "head", "after", "gap", "again", "send", "set", "rest"}
Tasks == [at : TaskStages, key : Dests, position : Positions, head : Nat, batch : Seq(Entries)]

ExpTyped ==
    /\ trail \in Seq(Nat) /\ first \in Nat \ {0} /\ made \in Nat
    /\ memory \in [PositionKeys -> Positions] /\ saved \in [PositionKeys -> Positions]
    /\ task \in Tasks \cup {NoTask} /\ late \subseteq [key : Dests, position : Positions]
    /\ delivered \in [Dests -> SUBSET Nat] /\ excused \in [Dests -> SUBSET Nat]
    /\ took \in [Dests -> Nat]

\* from where it began, the destination has the records of the trail up to number n, or is
\* known to do without
Covered(d, n) == InTrail(took[d] + 1, n) \subseteq delivered[d] \cup excused[d]

\* the position is one of the records made, and if that is where the trail has it, what
\* comes before it is covered; one without a hash was taken over
Vouches(d, p) ==
    /\ p.hash <= made
    /\ p.hash = NoHash => p.seq <= took[d]
    /\ (p.seq \in 1 .. Len(trail) /\ trail[p.seq] = p.hash) => Covered(d, p.seq)

\* a batch is a piece of the trail, and what comes before it is covered
BatchOK(d, batch) ==
    batch # <<>> =>
        /\ batch[1].seq \in Nat \ {0}
        /\ batch[1].seq + Len(batch) - 1 <= Len(trail)
        /\ \A i \in 1 .. Len(batch) :
             batch[i].seq = batch[1].seq + i - 1 /\ batch[i].hash = trail[batch[1].seq + i - 1]
        /\ Covered(d, batch[1].seq - 1)

PositionsOK(positions) ==
    /\ \A d \in Dests : Vouches(d, positions[d])
    /\ positions["kind"].hash <= made

LateOK == \A l \in late : Vouches(l.key, l.position) /\ l.position.hash # NoHash

\* the batch is stored: the position behind it may be saved
Stored(d, batch) ==
    /\ NextPosition(batch) \in Positions /\ Vouches(d, NextPosition(batch))
    /\ NextPosition(batch).hash # NoHash

TaskOK ==
    task # NoTask =>
        /\ Vouches(task.key, task.position)
        /\ task.at \in {"gap", "send"} => BatchOK(task.key, task.batch)
        /\ task.at = "send" => task.batch # <<>>
        /\ task.at = "set" => Stored(task.key, task.batch)

ExpInv ==
    /\ ExpTyped
    /\ \A i \in 1 .. Len(trail) : trail[i] \in 1 .. made
    /\ PositionsOK(memory) /\ PositionsOK(saved) /\ LateOK
    /\ TaskOK

\* What holds of the trail, apart from its types, and what the step keeps of it: it grows,
\* with records that are new, and what the destinations have and do without grows too.
TrailGrows ==
    /\ trail' \in Seq(Nat) /\ made' \in Nat /\ made' >= made /\ Len(trail') >= Len(trail)
    /\ \A i \in 1 .. Len(trail) : trail'[i] = trail[i]
    /\ \A i \in Len(trail) + 1 .. Len(trail') : trail'[i] \in made + 1 .. made'
    /\ \A d \in Dests : delivered[d] \subseteq delivered'[d] /\ excused[d] \subseteq excused'[d]
    /\ took' \in [Dests -> Nat] /\ \A d \in Dests : took[d] <= took'[d]

LEMMA GrowsCovered ==
    ASSUME ExpTyped, TrailGrows, NEW d \in Dests, NEW n \in 0 .. Len(trail), Covered(d, n)
    PROVE  Covered(d, n)'
<1>1. \A i \in took'[d] + 1 .. n : i \in took[d] + 1 .. n /\ i \in 1 .. Len(trail)
  <2>1. /\ took[d] \in Nat /\ took'[d] \in Nat /\ took[d] <= took'[d] /\ n \in Nat
        /\ n <= Len(trail) /\ Len(trail) \in Nat
    BY DEF ExpTyped, TrailGrows
  <2> QED
    BY <2>1
<1>2. \A i \in took'[d] + 1 .. n : trail'[i] = trail[i]
  BY <1>1 DEF TrailGrows
<1>3. \A i \in took'[d] + 1 .. n : trail[i] \in delivered[d] \cup excused[d]
  BY <1>1 DEF Covered, InTrail
<1> QED
  BY <1>2, <1>3 DEF Covered, InTrail, TrailGrows

\* A position that vouches for what is before it goes on to do so.
LEMMA GrowsVouches ==
    ASSUME ExpTyped, TrailGrows, NEW d \in Dests, NEW p \in Positions, Vouches(d, p)
    PROVE  Vouches(d, p)'
<1>1. p.hash \in Nat /\ p.seq \in Nat /\ p.hash <= made /\ made \in Nat /\ Len(trail) \in Nat
      /\ Len(trail') \in Nat
  BY DEF Positions, Vouches, ExpTyped, TrailGrows
<1>2. p.hash <= made'
  BY <1>1 DEF TrailGrows
<1>3. ASSUME p.seq \in 1 .. Len(trail'), trail'[p.seq] = p.hash
      PROVE  Covered(d, p.seq)'
  <2>1. p.seq \in 1 .. Len(trail)
    <3>1. SUFFICES ASSUME p.seq \in Len(trail) + 1 .. Len(trail') PROVE FALSE
      BY <1>1, <1>3
    <3>2. trail'[p.seq] >= made + 1
      BY <1>1, <3>1 DEF TrailGrows
    <3> QED
      BY <1>1, <1>3, <3>2
  <2>2. trail[p.seq] = p.hash
    BY <1>3, <2>1 DEF TrailGrows
  <2>3. Covered(d, p.seq)
    BY <2>1, <2>2 DEF Vouches
  <2> QED
    BY <1>1, <2>1, <2>3, GrowsCovered
<1>4. p.hash = NoHash => p.seq <= took'[d]
  <2>1. took[d] \in Nat /\ took'[d] \in Nat /\ took[d] <= took'[d]
    BY DEF ExpTyped, TrailGrows
  <2> QED
    BY <1>1, <2>1 DEF Vouches
<1> QED
  BY <1>2, <1>3, <1>4 DEF Vouches

LEMMA GrowsBatch ==
    ASSUME ExpTyped, TrailGrows, NEW d \in Dests, NEW b \in Seq(Entries), BatchOK(d, b)
    PROVE  BatchOK(d, b)'
<1> SUFFICES ASSUME b # <<>> PROVE BatchOK(d, b)'
  BY DEF BatchOK
<1>1. /\ b[1].seq \in Nat \ {0} /\ Len(b) \in Nat /\ Len(trail) \in Nat /\ Len(trail') \in Nat
      /\ Len(b) >= 1 /\ b[1].seq + Len(b) - 1 <= Len(trail)
  BY EmptySeq DEF BatchOK, ExpTyped, TrailGrows
<1>2. b[1].seq + Len(b) - 1 <= Len(trail')
  BY <1>1 DEF TrailGrows
<1>3. \A i \in 1 .. Len(b) :
        b[i].seq = b[1].seq + i - 1 /\ b[i].hash = trail'[b[1].seq + i - 1]
  <2> TAKE i \in 1 .. Len(b)
  <2>1. b[1].seq + i - 1 \in 1 .. Len(trail)
    BY <1>1
  <2>2. trail'[b[1].seq + i - 1] = trail[b[1].seq + i - 1]
    BY <2>1 DEF TrailGrows
  <2> QED
    BY <2>2 DEF BatchOK
<1>4. Covered(d, b[1].seq - 1)'
  <2>1. b[1].seq - 1 \in 0 .. Len(trail) /\ Covered(d, b[1].seq - 1)
    BY <1>1 DEF BatchOK
  <2> QED
    BY <2>1, GrowsCovered
<1> QED
  BY <1>1, <1>2, <1>3, <1>4 DEF BatchOK

LEMMA GrowsPositions ==
    ASSUME ExpTyped, TrailGrows, NEW ps \in [PositionKeys -> Positions], PositionsOK(ps)
    PROVE  PositionsOK(ps)'
<1>1. \A d \in Dests : ps[d] \in Positions
  BY DEF PositionKeys
<1>2. \A d \in Dests : Vouches(d, ps[d])'
  BY <1>1, GrowsVouches DEF PositionsOK
<1>3. ps["kind"].hash <= made'
  <2>1. ps["kind"].hash \in Nat /\ made \in Nat /\ made' \in Nat /\ made <= made'
    BY DEF PositionKeys, Positions, ExpTyped, TrailGrows
  <2> QED
    BY <2>1 DEF PositionsOK
<1> QED
  BY <1>2, <1>3 DEF PositionsOK

LEMMA GrowsLate ==
    ASSUME ExpTyped, TrailGrows, NEW ls, ls \subseteq [key : Dests, position : Positions],
           \A l \in ls : Vouches(l.key, l.position)
    PROVE  \A l \in ls : Vouches(l.key, l.position)'
<1> TAKE l \in ls
<1>1. PICK d \in Dests, p \in Positions : d = l.key /\ p = l.position
  OBVIOUS
<1>2. Vouches(d, p)
  BY <1>1
<1>3. Vouches(d, p)'
  BY <1>2, GrowsVouches
<1> QED
  BY <1>1, <1>3

\* The trail does not change, or one record is added to it.
LEMMA Grown ==
    ASSUME ExpInv,
           \/ UNCHANGED <<trail, made>>
           \/ trail' = Append(trail, NextRecord) /\ made' = NextRecord,
           \A d \in Dests : delivered[d] \subseteq delivered'[d] /\ excused[d] \subseteq excused'[d],
           \/ UNCHANGED took
           \/ took' \in [Dests -> Nat] /\ \A d \in Dests : took[d] <= took'[d]
    PROVE  TrailGrows /\ (\A i \in 1 .. Len(trail) : trail[i] \in 1 .. made)'
<1>0. trail \in Seq(Nat) /\ made \in Nat /\ Len(trail) \in Nat
      /\ \A i \in 1 .. Len(trail) : trail[i] \in 1 .. made
  BY DEF ExpInv, ExpTyped
<1> took' \in [Dests -> Nat] /\ \A d \in Dests : took[d] <= took'[d]
  BY DEF ExpInv, ExpTyped
<1>1. CASE UNCHANGED <<trail, made>>
  BY <1>0, <1>1 DEF TrailGrows
<1>2. CASE trail' = Append(trail, NextRecord) /\ made' = NextRecord
  <2>1. made' = made + 1 /\ made' \in Nat
    BY <1>0, <1>2 DEF NextRecord
  <2>2. /\ trail' \in Seq(Nat) /\ Len(trail') = Len(trail) + 1
        /\ \A i \in 1 .. Len(trail) : trail'[i] = trail[i]
        /\ trail'[Len(trail) + 1] = made + 1
    BY <1>0, <1>2, <2>1, AppendProperties DEF NextRecord
  <2>3. \A i \in Len(trail) + 1 .. Len(trail') : trail'[i] \in made + 1 .. made'
    BY <1>0, <2>1, <2>2
  <2>4. \A i \in 1 .. Len(trail') : trail'[i] \in 1 .. made'
    <3> TAKE i \in 1 .. Len(trail')
    <3>1. CASE i \in 1 .. Len(trail)
      <4>1. trail'[i] = trail[i] /\ trail[i] \in 1 .. made
        BY <1>0, <2>2, <3>1
      <4> QED
        BY ONLY <1>0, <2>1, <4>1
    <3>2. CASE i = Len(trail) + 1
      BY ONLY <1>0, <2>1, <2>2, <3>2
    <3> QED
      BY ONLY <1>0, <2>2, <3>1, <3>2
  <2> QED
    BY <1>0, <2>1, <2>2, <2>3, <2>4 DEF TrailGrows
<1> QED
  BY <1>1, <1>2

\* A step of the trail or of the task that leaves the positions alone.
LEMMA TaskKeeps ==
    ASSUME ExpInv, TrailGrows, (\A i \in 1 .. Len(trail) : trail[i] \in 1 .. made)',
           first' \in Nat \ {0}, UNCHANGED <<memory, saved, late>>,
           delivered' \in [Dests -> SUBSET Nat], excused' \in [Dests -> SUBSET Nat],
           task' \in Tasks \cup {NoTask},
           TaskOK'
    PROVE  ExpInv'
<1>1. ExpTyped'
  BY DEF ExpInv, ExpTyped, TrailGrows
<1>2. PositionsOK(memory)' /\ PositionsOK(saved)'
  <2>1. ExpTyped /\ memory \in [PositionKeys -> Positions] /\ saved \in [PositionKeys -> Positions]
        /\ PositionsOK(memory) /\ PositionsOK(saved)
    BY DEF ExpInv, ExpTyped
  <2>2. PICK m, s : m = memory /\ s = saved
    OBVIOUS
  <2>3. PositionsOK(m)' /\ PositionsOK(s)'
    BY <2>1, <2>2, GrowsPositions
  <2> QED
    BY <2>2, <2>3 DEF PositionsOK, Vouches, Covered
<1>3. LateOK'
  <2>1. PICK ls : ls = late
    OBVIOUS
  <2>2. ls \subseteq [key : Dests, position : Positions] /\ \A l \in ls : Vouches(l.key, l.position)
    BY <2>1 DEF ExpInv, ExpTyped, LateOK
  <2>3. \A l \in ls : Vouches(l.key, l.position)'
    BY <2>2, GrowsLate DEF ExpInv
  <2> QED
    BY <2>1, <2>3 DEF ExpInv, LateOK
<1> QED
  BY <1>1, <1>2, <1>3 DEF ExpInv

\* What is shown of the task's key, position and batch by name holds of the task.
LEMMA TaskOKAt ==
    ASSUME NEW d \in Dests, NEW p \in Positions, NEW b, NEW at,
           task' # NoTask => task'.key = d /\ task'.position = p /\ task'.batch = b /\ task'.at = at,
           task' # NoTask => Vouches(d, p)',
           task' # NoTask => (at \in {"gap", "send"} => BatchOK(d, b)'),
           at = "send" => b # <<>>,
           task' # NoTask => (at = "set" => Stored(d, b)')
    PROVE  TaskOK'
BY DEF TaskOK, Vouches, BatchOK, Covered, InTrail, Stored, NextPosition

\* The trail grows, or the task goes on to a stage that has no batch to send.
LEMMA QuietKeepsExport ==
    ASSUME ExpInv, Append1 \/ Prune \/ ReadHead \/ ReadFails \/ Rests
    PROVE  ExpInv'
<1>0. ExpTyped /\ TaskOK
  BY DEF ExpInv
<1>1. /\ UNCHANGED <<memory, saved, late, delivered, excused, took>>
      /\ \/ UNCHANGED <<trail, made>>
         \/ trail' = Append(trail, NextRecord) /\ made' = NextRecord
  BY DEF Append1, Prune, ReadHead, ReadFails, Rests
<1>2. TrailGrows /\ (\A i \in 1 .. Len(trail) : trail[i] \in 1 .. made)'
  BY <1>1, Grown
<1>3. first' \in Nat \ {0}
  BY <1>0 DEF Append1, Prune, ReadHead, ReadFails, Rests, ExpTyped
<1>4. CASE task = NoTask
  <2>1. task' = NoTask
    BY <1>4 DEF Append1, Prune, ReadHead, ReadFails, Rests, NoTask
  <2>2. TaskOK'
    BY <2>1 DEF TaskOK
  <2> QED
    BY <1>0, <1>1, <1>2, <1>3, <2>1, <2>2, TaskKeeps DEF ExpTyped
<1>5. CASE task # NoTask
  <2>1. task \in Tasks
    BY <1>0, <1>5 DEF ExpTyped
  <2>2. PICK d, p : d = task.key /\ p = task.position
    OBVIOUS
  <2>3. d \in Dests /\ p \in Positions /\ Vouches(d, p)
    BY <1>0, <1>5, <2>1, <2>2 DEF TaskOK, Tasks
  <2>4. Vouches(d, p)'
    BY <1>0, <1>2, <2>3, GrowsVouches
  <2>5. CASE Append1 \/ Prune
    <3>1. task' = task
      BY <2>5 DEF Append1, Prune
    <3>2. PICK b, at : b = task.batch /\ at = task.at
      OBVIOUS
    <3>3. at \in {"gap", "send"} => BatchOK(d, b)'
      BY <1>0, <1>2, <1>5, <2>1, <2>2, <2>3, <3>2, GrowsBatch DEF TaskOK, Tasks
    <3>4. at = "send" => b # <<>>
      BY <1>0, <1>5, <3>2 DEF TaskOK
    <3>5. task'.key = d /\ task'.position = p /\ task'.batch = b /\ task'.at = at
      BY <2>2, <3>1, <3>2
    <3>7. at = "set" => Stored(d, b)'
      <4> SUFFICES ASSUME at = "set" PROVE Stored(d, b)'
        OBVIOUS
      <4>1. PICK np : np = NextPosition(b)
        OBVIOUS
      <4>2. np \in Positions /\ Vouches(d, np)
        BY <1>0, <1>5, <2>2, <3>2, <4>1 DEF TaskOK, Stored
      <4>5. np.hash # NoHash
        BY <1>0, <1>5, <2>2, <3>2, <4>1 DEF TaskOK, Stored
      <4>3. Vouches(d, np)'
        BY <1>0, <1>2, <2>3, <4>2, GrowsVouches
      <4> QED
        BY <4>1, <4>2, <4>3, <4>5 DEF Stored, Vouches, Covered, NextPosition
    <3>6. TaskOK'
      BY <2>3, <2>4, <3>3, <3>4, <3>5, <3>7, TaskOKAt
    <3> QED
      BY <1>0, <1>1, <1>2, <1>3, <3>1, <3>6, TaskKeeps DEF ExpTyped
  <2>6. CASE ReadHead \/ ReadFails \/ Rests
    <3>1. /\ task' \in Tasks /\ task'.key = d /\ task'.position = p
          /\ task'.at \notin {"gap", "send", "set"}
      <4>1. Len(trail) \in Nat /\ <<>> \in Seq(Entries)
        BY <1>0 DEF ExpTyped
      <4>2. CASE ReadHead
        <5>1. PICK t : t = [task EXCEPT !.at = "after"]
          OBVIOUS
        <5>2. t \in Tasks /\ t.key = d /\ t.position = p /\ t.at = "after"
          BY <2>1, <2>2, <5>1 DEF Tasks, TaskStages
        <5>3. task' = [t EXCEPT !.head = HeadSeq]
          BY <4>2, <5>1 DEF ReadHead
        <5> QED
          BY <4>1, <5>2, <5>3 DEF Tasks, HeadSeq
      <4>3. CASE ReadFails
        BY <2>1, <2>2, <4>3 DEF ReadFails, Tasks, TaskStages
      <4>4. CASE Rests
        <5>1. PICK t : t = [task EXCEPT !.at = "head"]
          OBVIOUS
        <5>2. t \in Tasks /\ t.key = d /\ t.position = p /\ t.at = "head"
          BY <2>1, <2>2, <5>1 DEF Tasks, TaskStages
        <5>3. task' = [t EXCEPT !.batch = <<>>]
          BY <4>4, <5>1 DEF Rests
        <5> QED
          BY <4>1, <5>2, <5>3 DEF Tasks
      <4> QED
        BY <2>6, <4>2, <4>3, <4>4
    <3>2. PICK b, at : b = task'.batch /\ at = task'.at
      OBVIOUS
    <3>3. TaskOK'
      BY <2>3, <2>4, <3>1, <3>2, TaskOKAt
    <3> QED
      BY <1>0, <1>1, <1>2, <1>3, <3>1, <3>3, TaskKeeps DEF ExpTyped
  <2> QED
    BY <2>5, <2>6
<1> QED
  BY <1>4, <1>5

\* AuditReader::after: a piece of the trail behind the number given.
LEMMA AfterIsAPiece ==
    ASSUME ExpTyped, NEW seq \in Nat, NEW b, b = After(seq)
    PROVE  /\ b \in Seq(Entries)
           /\ b # <<>> =>
                /\ b[1].seq \in Nat /\ b[1].seq >= seq + 1 /\ b[1].seq >= 1
                /\ b[1].seq + Len(b) - 1 <= Len(trail)
                /\ \A i \in 1 .. Len(b) :
                     b[i].seq = b[1].seq + i - 1 /\ b[i].hash = trail[b[1].seq + i - 1]
                /\ b[1].prev = IF b[1].seq = 1 THEN NoHash ELSE trail[b[1].seq - 1]
<1>0. trail \in Seq(Nat) /\ Len(trail) \in Nat /\ first \in Nat \ {0} /\ BatchSize \in Nat \ {0}
  BY ExportAssumption DEF ExpTyped
<1>1. PICK from : from = IF seq + 1 > first THEN seq + 1 ELSE first
  OBVIOUS
<1>2. from \in Nat /\ from >= 1 /\ from >= seq + 1
  BY <1>0, <1>1
<1>3. PICK to : to = IF from + BatchSize - 1 < Len(trail) THEN from + BatchSize - 1 ELSE Len(trail)
  OBVIOUS
<1>4. to \in Nat /\ to <= Len(trail)
  BY <1>0, <1>2, <1>3
<1>5. PICK all : all = [i \in 1 .. Len(trail) |-> [seq |-> i, hash |-> trail[i],
                                        prev |-> IF i = 1 THEN NoHash ELSE trail[i - 1]]]
  OBVIOUS
<1>6. b = SubSeq(all, from, to)
  BY <1>1, <1>3, <1>5 DEF After
<1>7. \A i \in from .. to :
        /\ all[i] \in Entries /\ all[i].seq = i /\ all[i].hash = trail[i]
        /\ all[i].prev = IF i = 1 THEN NoHash ELSE trail[i - 1]
  <2> TAKE i \in from .. to
  <2>1. i \in 1 .. Len(trail) /\ trail[i] \in Nat
    BY <1>0, <1>2, <1>4
  <2>2. PICK prev : prev = IF i = 1 THEN NoHash ELSE trail[i - 1]
    OBVIOUS
  <2>3. prev \in Nat
    <3>1. i # 1 => i - 1 \in 1 .. Len(trail)
      BY <1>0, <2>1
    <3> QED
      BY <1>0, <2>2, <3>1 DEF NoHash
  <2>4. all[i] = [seq |-> i, hash |-> trail[i], prev |-> prev]
    BY <1>5, <2>1, <2>2
  <2> QED
    BY <2>1, <2>2, <2>3, <2>4 DEF Entries
<1>8. /\ b \in Seq(Entries)
      /\ Len(b) = IF from <= to THEN to - from + 1 ELSE 0
      /\ \A i \in 1 .. to - from + 1 : b[i] = all[from + i - 1]
  <2>1. \A i \in from .. to : all[i] \in Entries
    BY <1>7
  <2> QED
    BY <1>2, <1>4, <1>6, <2>1, SubSeqProperties
<1>9. ASSUME b # <<>>
      PROVE  /\ b[1].seq \in Nat /\ b[1].seq >= seq + 1 /\ b[1].seq >= 1
             /\ b[1].seq + Len(b) - 1 <= Len(trail)
             /\ \A i \in 1 .. Len(b) :
                  b[i].seq = b[1].seq + i - 1 /\ b[i].hash = trail[b[1].seq + i - 1]
             /\ b[1].prev = IF b[1].seq = 1 THEN NoHash ELSE trail[b[1].seq - 1]
  <2>1. from <= to
    BY <1>2, <1>4, <1>6, <1>9, SubSeqEmpty
  <2>2. 1 \in 1 .. to - from + 1 /\ from \in from .. to /\ from + 1 - 1 = from
    BY <1>2, <1>4, <2>1
  <2>3. b[1] = all[from]
    BY <1>8, <2>2
  <2>4. b[1].seq = from /\ b[1].prev = IF from = 1 THEN NoHash ELSE trail[from - 1]
    BY <1>7, <2>2, <2>3
  <2>5. Len(b) = to - from + 1
    BY <1>8, <2>1
  <2>6. \A i \in 1 .. Len(b) : b[i].seq = from + i - 1 /\ b[i].hash = trail[from + i - 1]
    <3> TAKE i \in 1 .. Len(b)
    <3>1. b[i] = all[from + i - 1] /\ from + i - 1 \in from .. to
      BY <1>2, <1>4, <1>8, <2>5
    <3> QED
      BY <1>7, <3>1
  <2>7. from + Len(b) - 1 = to
    BY <1>2, <1>4, <2>5
  <2>8. /\ b[1].seq \in Nat /\ b[1].seq >= seq + 1 /\ b[1].seq >= 1
        /\ b[1].seq + Len(b) - 1 <= Len(trail)
    BY <1>2, <1>4, <2>4, <2>7
  <2> QED
    BY <2>4, <2>6, <2>8
<1> QED
  BY <1>8, <1>9

\* The first batch is behind the position, and what it skips is excused.
LEMMA ReadAfterKeeps ==
    ASSUME ExpInv, ReadAfter
    PROVE  ExpInv'
<1>0. ExpTyped /\ TaskOK /\ \A i \in 1 .. Len(trail) : trail[i] \in 1 .. made
  BY DEF ExpInv
<1>1. task \in Tasks /\ task # NoTask
  BY <1>0 DEF ReadAfter, ExpTyped, NoTask
<1>2. PICK d, p, b : d = task.key /\ p = task.position /\ b = After(p.seq)
  OBVIOUS
<1>3. PICK noticed \in BOOLEAN : noticed = Gap(p, b, task.head)
  BY Zenon DEF Gap
<1>4. PICK at : at = IF noticed THEN "gap" ELSE IF b = <<>> THEN "rest" ELSE "send"
  OBVIOUS
<1>5. /\ task' = [task EXCEPT !.batch = b, !.at = at]
      /\ UNCHANGED <<trail, first, made, memory, saved, late, delivered, took>>
  BY <1>2, <1>3, <1>4 DEF ReadAfter
<1>6. PICK more : more = IF noticed \/ p.seq = 0
                         THEN InTrail(1, b[1].seq - 1) ELSE {}
  OBVIOUS
<1>7. excused' = IF b = <<>> THEN excused ELSE [excused EXCEPT ![d] = @ \cup more]
  BY <1>2, <1>3, <1>6 DEF ReadAfter
<1>8. d \in Dests /\ p \in Positions /\ Vouches(d, p)
  BY <1>0, <1>1, <1>2 DEF TaskOK, Tasks
<1>9. /\ b \in Seq(Entries)
      /\ b # <<>> =>
           /\ b[1].seq \in Nat /\ b[1].seq >= p.seq + 1 /\ b[1].seq >= 1
           /\ b[1].seq + Len(b) - 1 <= Len(trail)
           /\ \A i \in 1 .. Len(b) :
                b[i].seq = b[1].seq + i - 1 /\ b[i].hash = trail[b[1].seq + i - 1]
           /\ b[1].prev = IF b[1].seq = 1 THEN NoHash ELSE trail[b[1].seq - 1]
  <2>1. p.seq \in Nat
    BY <1>8 DEF Positions
  <2>2. PICK s : s = p.seq
    OBVIOUS
  <2>3. s \in Nat /\ b = After(s) /\ ExpTyped
    BY <1>0, <1>2, <2>1, <2>2
  <2>4. /\ b \in Seq(Entries)
        /\ b # <<>> =>
             /\ b[1].seq \in Nat /\ b[1].seq >= s + 1 /\ b[1].seq >= 1
             /\ b[1].seq + Len(b) - 1 <= Len(trail)
             /\ \A i \in 1 .. Len(b) :
                  b[i].seq = b[1].seq + i - 1 /\ b[i].hash = trail[b[1].seq + i - 1]
             /\ b[1].prev = IF b[1].seq = 1 THEN NoHash ELSE trail[b[1].seq - 1]
    BY ONLY <2>3, AfterIsAPiece
  <2> QED
    BY ONLY <2>2, <2>4
<1>10. b # <<>> => Len(b) \in Nat /\ Len(b) >= 1 /\ b[1].seq - 1 \in 0 .. Len(trail)
  BY <1>0, <1>9, EmptySeq DEF ExpTyped
<1>11. excused' \in [Dests -> SUBSET Nat] /\ \A e \in Dests : excused[e] \subseteq excused'[e]
  <2>1. b # <<>> => more \subseteq Nat
    BY <1>0, <1>6, <1>10 DEF InTrail, ExpTyped
  <2> QED
    BY <1>0, <1>7, <1>8, <2>1 DEF ExpTyped
<1>12. TrailGrows /\ (\A i \in 1 .. Len(trail) : trail[i] \in 1 .. made)'
  BY <1>5, <1>11, Grown
<1>13. Vouches(d, p)'
  BY <1>0, <1>8, <1>12, GrowsVouches
<1>14. ASSUME b # <<>>
       PROVE  Covered(d, b[1].seq - 1)'
  <2>1. CASE noticed \/ p.seq = 0
    <3>1. InTrail(1, b[1].seq - 1) \subseteq excused'[d]
      BY <1>0, <1>6, <1>7, <1>8, <1>14, <2>1 DEF ExpTyped
    <3>2. took[d] \in Nat
      BY <1>0, <1>8 DEF ExpTyped
    <3> QED
      BY <1>5, <3>1, <3>2 DEF Covered, InTrail
  <2>3. CASE ~noticed /\ p.seq # 0 /\ p.hash = NoHash
    <3>1. b[1].seq = p.seq + 1
      BY <1>3, <1>14, <2>3 DEF Gap
    <3>2. p.seq \in Nat /\ took[d] \in Nat /\ p.seq <= took[d]
      BY <1>0, <1>8, <2>3 DEF Positions, Vouches, ExpTyped
    <3>3. \A i \in took'[d] + 1 .. b[1].seq - 1 : FALSE
      BY <1>5, <3>1, <3>2
    <3> QED
      BY <3>3 DEF Covered, InTrail
  <2>2. CASE ~noticed /\ p.seq # 0 /\ p.hash # NoHash
    <3>1. b[1].seq = p.seq + 1 /\ b[1].prev = p.hash
      BY <1>3, <1>14, <2>2 DEF Gap
    <3>2. p.seq \in Nat /\ p.hash \in Nat
      BY <1>8 DEF Positions
    <3>3. p.seq \in 1 .. Len(trail) /\ trail[p.seq] = p.hash /\ b[1].seq - 1 = p.seq
      <4>1. b[1].seq - 1 = p.seq /\ b[1].seq # 1
        BY <2>2, <3>1, <3>2
      <4>2. trail[p.seq] = p.hash
        BY <1>9, <1>14, <3>1, <4>1
      <4> QED
        BY <1>10, <1>14, <2>2, <3>2, <4>1, <4>2
    <3>4. Covered(d, p.seq)
      BY <1>8, <3>3 DEF Vouches
    <3>5. Covered(d, b[1].seq - 1)
      BY <3>3, <3>4
    <3> QED
      BY <1>0, <1>8, <1>10, <1>12, <1>14, <3>5, GrowsCovered
  <2> QED
    BY <2>1, <2>2, <2>3
<1>15. BatchOK(d, b)'
  BY <1>5, <1>9, <1>14 DEF BatchOK
<1>16. /\ task' \in Tasks /\ task'.key = d /\ task'.position = p /\ task'.batch = b
       /\ task'.at = at
  <2>1. PICK t : t = [task EXCEPT !.batch = b]
    OBVIOUS
  <2>2. t \in Tasks /\ t.key = d /\ t.position = p /\ t.batch = b
    BY <1>1, <1>2, <1>9, <2>1 DEF Tasks
  <2>3. task' = [t EXCEPT !.at = at] /\ at \in TaskStages
    BY <1>4, <1>5, <2>1 DEF TaskStages
  <2> QED
    BY <2>2, <2>3 DEF Tasks
<1>17. TaskOK'
  <2>1. (at = "send" => b # <<>>) /\ at # "set"
    BY <1>4
  <2> QED
    BY <1>8, <1>13, <1>15, <1>16, <2>1, TaskOKAt
<1> QED
  BY <1>0, <1>5, <1>11, <1>12, <1>16, <1>17, TaskKeeps DEF ExpTyped

\* The gap is recorded, or could not be.
LEMMA RecordGapKeeps ==
    ASSUME ExpInv, RecordGap
    PROVE  ExpInv'
<1>0. ExpTyped /\ TaskOK
  BY DEF ExpInv
<1>1. task \in Tasks /\ task # NoTask /\ task.at = "gap"
  BY <1>0 DEF RecordGap, ExpTyped, NoTask
<1>2. /\ UNCHANGED <<first, memory, saved, late, delivered, excused, took>>
      /\ \/ UNCHANGED <<trail, made>>
         \/ trail' = Append(trail, NextRecord) /\ made' = NextRecord
  BY DEF RecordGap
<1>3. TrailGrows /\ (\A i \in 1 .. Len(trail) : trail[i] \in 1 .. made)'
  BY <1>2, Grown
<1>4. PICK d, b : d = task.key /\ b = task.batch
  OBVIOUS
<1>5. d \in Dests /\ b \in Seq(Entries) /\ BatchOK(d, b) /\ Vouches(d, task.position)
      /\ task.position \in Positions
  BY <1>0, <1>1, <1>4 DEF TaskOK, Tasks
<1>6. BatchOK(d, b)'
  BY <1>0, <1>3, <1>5, GrowsBatch
<1>7. PICK p, at :
        /\ p \in Positions /\ Vouches(d, p) /\ at \in {"again", "rest", "send"}
        /\ at = "send" => b # <<>>
        /\ task' \in Tasks /\ task'.key = d /\ task'.position = p /\ task'.batch = b
        /\ task'.at = at
  <2>1. CASE task.position.seq > task.head
    <3>1. Start \in Positions /\ Vouches(d, Start)
      BY <1>0, <1>5 DEF Start, Positions, Vouches, NoHash, ExpTyped
    <3>2. PICK t : t = [task EXCEPT !.position = Start]
      OBVIOUS
    <3>3. t \in Tasks /\ t.key = d /\ t.position = Start /\ t.batch = b
      BY <1>1, <1>4, <3>1, <3>2 DEF Tasks
    <3>4. task' = [t EXCEPT !.at = "again"]
      BY <2>1, <3>2 DEF RecordGap
    <3>5. task' \in Tasks /\ task'.key = d /\ task'.position = Start /\ task'.batch = b
          /\ task'.at = "again"
      BY <3>3, <3>4 DEF Tasks, TaskStages
    <3> QED
      BY <3>1, <3>5
  <2>2. CASE ~(task.position.seq > task.head)
    <3>1. PICK at : at = IF b = <<>> THEN "rest" ELSE "send"
      OBVIOUS
    <3>2. task' = [task EXCEPT !.at = at]
      BY <1>4, <2>2, <3>1 DEF RecordGap
    <3>3. task' \in Tasks /\ task'.key = d /\ task'.position = task.position /\ task'.batch = b
          /\ task'.at = at
      BY <1>1, <1>4, <3>1, <3>2 DEF Tasks, TaskStages
    <3>4. at \in {"again", "rest", "send"} /\ (at = "send" => b # <<>>)
      BY <3>1
    <3> QED
      BY <1>5, <3>3, <3>4
  <2> QED
    BY <2>1, <2>2
<1>8. Vouches(d, p)'
  BY <1>0, <1>3, <1>5, <1>7, GrowsVouches
<1>9. TaskOK'
  BY <1>5, <1>6, <1>7, <1>8, TaskOKAt
<1> QED
  BY <1>0, <1>2, <1>3, <1>7, <1>9, TaskKeeps DEF ExpTyped

\* A trail that is a new one is exported from its start.
LEMMA ReadAgainKeeps ==
    ASSUME ExpInv, ReadAgain
    PROVE  ExpInv'
<1>0. ExpTyped /\ TaskOK /\ \A i \in 1 .. Len(trail) : trail[i] \in 1 .. made
  BY DEF ExpInv
<1>1. task \in Tasks /\ task # NoTask
  BY <1>0 DEF ReadAgain, ExpTyped, NoTask
<1>2. PICK d, p, b : d = task.key /\ p = task.position /\ b = After(0)
  OBVIOUS
<1>3. PICK at : at = IF b = <<>> THEN "rest" ELSE "send"
  OBVIOUS
<1>4. /\ task' = [task EXCEPT !.batch = b, !.at = at]
      /\ excused' = IF b = <<>> THEN excused
                    ELSE [excused EXCEPT ![d] = @ \cup InTrail(1, b[1].seq - 1)]
      /\ UNCHANGED <<trail, first, made, memory, saved, late, delivered, took>>
  BY <1>2, <1>3 DEF ReadAgain
<1>5. d \in Dests /\ p \in Positions /\ Vouches(d, p)
  BY <1>0, <1>1, <1>2 DEF TaskOK, Tasks
<1>6. /\ b \in Seq(Entries)
      /\ b # <<>> =>
           /\ b[1].seq \in Nat /\ b[1].seq >= 1
           /\ b[1].seq + Len(b) - 1 <= Len(trail)
           /\ \A i \in 1 .. Len(b) :
                b[i].seq = b[1].seq + i - 1 /\ b[i].hash = trail[b[1].seq + i - 1]
  BY <1>0, <1>2, AfterIsAPiece
<1>7. b # <<>> => Len(b) \in Nat /\ Len(b) >= 1 /\ b[1].seq - 1 \in 0 .. Len(trail)
  BY <1>0, <1>6, EmptySeq DEF ExpTyped
<1>8. excused' \in [Dests -> SUBSET Nat] /\ \A e \in Dests : excused[e] \subseteq excused'[e]
  <2>1. b # <<>> => InTrail(1, b[1].seq - 1) \subseteq Nat
    BY <1>0, <1>7 DEF InTrail, ExpTyped
  <2> QED
    BY <1>0, <1>4, <1>5, <2>1 DEF ExpTyped
<1>9. TrailGrows /\ (\A i \in 1 .. Len(trail) : trail[i] \in 1 .. made)'
  BY <1>4, <1>8, Grown
<1>10. Vouches(d, p)'
  BY <1>0, <1>5, <1>9, GrowsVouches
<1>11. ASSUME b # <<>>
       PROVE  Covered(d, b[1].seq - 1)'
  <2>1. InTrail(1, b[1].seq - 1) \subseteq excused'[d]
    BY <1>0, <1>4, <1>5, <1>11 DEF ExpTyped
  <2>2. took[d] \in Nat
    BY <1>0, <1>5 DEF ExpTyped
  <2> QED
    BY <1>4, <2>1, <2>2 DEF Covered, InTrail
<1>12. BatchOK(d, b)'
  BY <1>4, <1>6, <1>11 DEF BatchOK
<1>13. /\ task' \in Tasks /\ task'.key = d /\ task'.position = p /\ task'.batch = b
       /\ task'.at = at
  <2>1. PICK t : t = [task EXCEPT !.batch = b]
    OBVIOUS
  <2>2. t \in Tasks /\ t.key = d /\ t.position = p /\ t.batch = b
    BY <1>1, <1>2, <1>6, <2>1 DEF Tasks
  <2>3. task' = [t EXCEPT !.at = at] /\ at \in TaskStages
    BY <1>3, <1>4, <2>1 DEF TaskStages
  <2> QED
    BY <2>2, <2>3 DEF Tasks
<1>14. TaskOK'
  <2>1. (at = "send" => b # <<>>) /\ at # "set"
    BY <1>3
  <2> QED
    BY <1>5, <1>10, <1>12, <1>13, <2>1, TaskOKAt
<1> QED
  BY <1>0, <1>4, <1>8, <1>9, <1>13, <1>14, TaskKeeps DEF ExpTyped

\* The records of a batch, or of the part of it that the database stored, are numbers.
LEMMA GotIsMore ==
    ASSUME ExpTyped, task \in Tasks, NEW b \in Seq(Entries), delivered' = Got(b)
    PROVE  /\ delivered' \in [Dests -> SUBSET Nat]
           /\ \A e \in Dests : delivered[e] \subseteq delivered'[e]
           /\ \A i \in 1 .. Len(b) : b[i].hash \in delivered'[task.key]
<1>1. task.key \in Dests
  BY DEF Tasks
<1>2. PICK more : more = {b[i].hash : i \in DOMAIN b}
  OBVIOUS
<1>3. more \subseteq Nat /\ \A i \in 1 .. Len(b) : b[i].hash \in more
  <2>1. DOMAIN b = 1 .. Len(b) /\ \A i \in 1 .. Len(b) : b[i] \in Entries
    OBVIOUS
  <2>2. \A i \in 1 .. Len(b) : b[i].hash \in Nat
    BY <2>1 DEF Entries
  <2> QED
    BY <1>2, <2>1, <2>2
<1>4. delivered' = [delivered EXCEPT ![task.key] = @ \cup more]
  BY <1>2 DEF Got
<1> QED
  BY <1>1, <1>3, <1>4 DEF ExpTyped

LEMMA SendFailsKeeps ==
    ASSUME ExpInv, SendFails
    PROVE  ExpInv'
<1>0. ExpTyped /\ TaskOK
  BY DEF ExpInv
<1>1. task \in Tasks /\ task # NoTask
  BY <1>0 DEF SendFails, ExpTyped, NoTask
<1>2. PICK n \in 0 .. Len(task.batch) : delivered' = Got(SubSeq(task.batch, 1, n))
  BY DEF SendFails
<1>3. task.batch \in Seq(Entries) /\ Len(task.batch) \in Nat
  BY <1>1 DEF Tasks
<1>4. SubSeq(task.batch, 1, n) \in Seq(Entries)
  <2>1. \A i \in 1 .. n : task.batch[i] \in Entries
    BY <1>3
  <2> QED
    BY <1>3, <2>1, SubSeqProperties
<1>5. /\ delivered' \in [Dests -> SUBSET Nat]
      /\ \A e \in Dests : delivered[e] \subseteq delivered'[e]
  BY <1>0, <1>1, <1>2, <1>4, GotIsMore
<1>6. /\ task' = [task EXCEPT !.at = "rest"]
      /\ UNCHANGED <<trail, first, made, memory, saved, late, excused, took>>
  BY DEF SendFails
<1>7. TrailGrows /\ (\A i \in 1 .. Len(trail) : trail[i] \in 1 .. made)'
  BY <1>5, <1>6, Grown
<1>8. PICK d, p, b : d = task.key /\ p = task.position /\ b = task.batch
  OBVIOUS
<1>9. d \in Dests /\ p \in Positions /\ Vouches(d, p)
  BY <1>0, <1>1, <1>8 DEF TaskOK, Tasks
<1>10. Vouches(d, p)'
  BY <1>0, <1>7, <1>9, GrowsVouches
<1>11. /\ task' \in Tasks /\ task'.key = d /\ task'.position = p /\ task'.batch = b
       /\ task'.at = "rest"
  BY <1>1, <1>6, <1>8 DEF Tasks, TaskStages
<1>12. TaskOK'
  BY <1>9, <1>10, <1>11, TaskOKAt
<1> QED
  BY <1>0, <1>5, <1>6, <1>7, <1>11, <1>12, TaskKeeps DEF ExpTyped

\* The position of a destination is replaced by one that vouches for what is before it.
LEMMA NewPosition ==
    ASSUME NEW ps \in [PositionKeys -> Positions], PositionsOK(ps)', NEW d \in Dests,
           NEW p \in Positions, Vouches(d, p)', NEW qs, qs = [ps EXCEPT ![d] = p]
    PROVE  qs \in [PositionKeys -> Positions] /\ PositionsOK(qs)'
<1>1. /\ qs \in [PositionKeys -> Positions] /\ qs[d] = p
      /\ \A e \in PositionKeys : e # d => qs[e] = ps[e]
  BY DEF PositionKeys
<1>2. "kind" # d /\ "kind" \in PositionKeys
  BY ExportAssumption DEF PositionKeys
<1>3. \A e \in Dests : Vouches(e, qs[e])'
  <2> TAKE e \in Dests
  <2>1. CASE e = d
    BY <1>1, <2>1
  <2>2. CASE e # d
    BY <1>1, <2>2 DEF PositionsOK, PositionKeys
  <2> QED
    BY <2>1, <2>2
<1> QED
  BY <1>1, <1>2, <1>3 DEF PositionsOK

\* The task reads the position of its destination.
LEMMA ReadPositionKeeps ==
    ASSUME ExpInv, ReadPosition
    PROVE  ExpInv'
<1>0. ExpTyped /\ TaskOK /\ PositionsOK(memory)
  BY DEF ExpInv
<1>1. task \in Tasks /\ task # NoTask
  BY <1>0 DEF ReadPosition, ExpTyped, NoTask
<1>2. PICK d, b : d = task.key /\ b = task.batch
  OBVIOUS
<1>3. PICK p : p = memory[d]
  OBVIOUS
<1>4. d \in Dests /\ p \in Positions /\ Vouches(d, p)
  BY <1>0, <1>1, <1>2, <1>3 DEF Tasks, PositionsOK, ExpTyped, PositionKeys
<1>5. UNCHANGED <<trail, first, made, memory, saved, late, delivered, excused, took>>
  BY DEF ReadPosition
<1>6. TrailGrows /\ (\A i \in 1 .. Len(trail) : trail[i] \in 1 .. made)'
  BY <1>5, Grown
<1>7. Vouches(d, p)'
  BY <1>0, <1>4, <1>6, GrowsVouches
<1>8. /\ task' \in Tasks /\ task'.key = d /\ task'.position = p /\ task'.batch = b
      /\ task'.at = "head"
  <2>1. PICK t : t = [task EXCEPT !.at = "head"]
    OBVIOUS
  <2>2. t \in Tasks /\ t.key = d /\ t.batch = b /\ t.at = "head"
    BY <1>1, <1>2, <2>1 DEF Tasks, TaskStages
  <2>3. task' = [t EXCEPT !.position = p]
    BY <1>2, <1>3, <2>1 DEF ReadPosition
  <2> QED
    BY <1>4, <2>2, <2>3 DEF Tasks
<1>9. TaskOK'
  BY <1>4, <1>7, <1>8, TaskOKAt
<1> QED
  BY <1>0, <1>5, <1>6, <1>8, <1>9, TaskKeeps DEF ExpTyped

\* The batch is stored: the position behind it vouches for all that is before.
LEMMA SendKeeps ==
    ASSUME ExpInv, Send
    PROVE  ExpInv'
<1>0. ExpTyped /\ TaskOK /\ \A i \in 1 .. Len(trail) : trail[i] \in 1 .. made
  BY DEF ExpInv
<1>1. task \in Tasks /\ task # NoTask /\ task.at = "send"
  BY <1>0 DEF Send, ExpTyped, NoTask
<1>2. PICK d, p, b : d = task.key /\ p = task.position /\ b = task.batch
  OBVIOUS
<1>3. /\ d \in Dests /\ p \in Positions /\ b \in Seq(Entries) /\ b # <<>>
      /\ Vouches(d, p) /\ BatchOK(d, b)
  BY <1>0, <1>1, <1>2 DEF TaskOK, Tasks
<1>4. PICK n, f : n = Len(b) /\ f = b[1].seq
  OBVIOUS
<1>5. /\ n \in Nat /\ n >= 1 /\ f \in Nat /\ f >= 1 /\ Len(trail) \in Nat /\ f + n - 1 <= Len(trail)
      /\ \A i \in 1 .. n : b[i].seq = f + i - 1 /\ b[i].hash = trail[f + i - 1]
      /\ Covered(d, f - 1)
  BY <1>0, <1>3, <1>4, EmptySeq DEF BatchOK, ExpTyped
<1>6. delivered' = Got(b)
      /\ UNCHANGED <<trail, first, made, memory, saved, late, excused, took>>
  BY <1>2 DEF Send
<1>7. /\ delivered' \in [Dests -> SUBSET Nat]
      /\ \A e \in Dests : delivered[e] \subseteq delivered'[e]
      /\ \A i \in 1 .. n : b[i].hash \in delivered'[d]
  BY <1>0, <1>1, <1>2, <1>3, <1>4, <1>6, GotIsMore
<1>8. TrailGrows /\ (\A i \in 1 .. Len(trail) : trail[i] \in 1 .. made)'
  BY <1>6, <1>7, Grown
<1>9. PICK np : np = NextPosition(b)
  OBVIOUS
<1>10. /\ np \in Positions /\ np.seq = f + n - 1 /\ np.hash = trail[f + n - 1]
       /\ np.hash \in 1 .. made
  <2>1. b[n].seq = f + n - 1 /\ b[n].hash = trail[f + n - 1] /\ f + n - 1 \in 1 .. Len(trail)
    BY <1>5
  <2>2. np = [seq |-> b[n].seq, hash |-> b[n].hash]
    BY <1>4, <1>9 DEF NextPosition, Last
  <2>3. trail[f + n - 1] \in 1 .. made /\ made \in Nat
    BY <1>0, <2>1 DEF ExpTyped
  <2> QED
    BY <2>1, <2>2, <2>3 DEF Positions
<1>11. Covered(d, f + n - 1)'
  <2>0. took[d] \in Nat
    BY <1>0, <1>3 DEF ExpTyped
  <2>1. \A i \in took[d] + 1 .. f + n - 1 : trail[i] \in delivered'[d] \cup excused'[d]
    <3> TAKE i \in took[d] + 1 .. f + n - 1
    <3>1. CASE i <= f - 1
      <4>1. i \in took[d] + 1 .. f - 1
        BY <1>5, <2>0, <3>1
      <4>2. trail[i] \in delivered[d] \cup excused[d]
        BY <1>5, <4>1 DEF Covered, InTrail
      <4> QED
        BY <1>3, <1>6, <1>7, <4>2
    <3>2. CASE i > f - 1
      <4>1. i - f + 1 \in 1 .. n /\ f + (i - f + 1) - 1 = i
        BY <1>5, <2>0, <3>2
      <4>2. b[i - f + 1].hash = trail[i]
        BY <1>5, <4>1
      <4> QED
        BY <1>7, <4>1, <4>2
    <3> QED
      BY <1>5, <2>0, <3>1, <3>2
  <2> QED
    BY <1>6, <2>1 DEF Covered, InTrail
<1>12. Vouches(d, np)'
  BY <1>0, <1>6, <1>10, <1>11 DEF Vouches, ExpTyped, NoHash
<1>13. Vouches(d, p)'
  BY <1>0, <1>3, <1>8, GrowsVouches
<1>14. /\ task' \in Tasks /\ task'.key = d /\ task'.position = p /\ task'.batch = b
       /\ task'.at = "set"
  BY <1>1, <1>2 DEF Send, Tasks, TaskStages
<1>15. Stored(d, b)'
  BY <1>9, <1>10, <1>12 DEF Stored, Vouches, Covered, NextPosition, NoHash
<1>16. TaskOK'
  BY <1>3, <1>13, <1>14, <1>15, TaskOKAt
<1> QED
  BY <1>0, <1>6, <1>7, <1>8, <1>14, <1>16, TaskKeeps DEF ExpTyped

\* ExportState::set: the new position vouches for what is before it, in memory and, when it
\* is written, in the file.
LEMMA SetKeeps ==
    ASSUME ExpInv, TrailGrows, NEW d \in Dests, NEW p \in Positions, Vouches(d, p), SetPosition(d, p)
    PROVE  /\ memory' \in [PositionKeys -> Positions] /\ PositionsOK(memory)'
           /\ saved' \in [PositionKeys -> Positions] /\ PositionsOK(saved)'
<1>0. ExpTyped /\ PositionsOK(memory) /\ PositionsOK(saved)
  BY DEF ExpInv
<1>1. PICK m, q, f : m = memory /\ q = memory' /\ f = saved
  OBVIOUS
<1>2. /\ m \in [PositionKeys -> Positions] /\ f \in [PositionKeys -> Positions]
      /\ PositionsOK(m)' /\ PositionsOK(f)'
  BY <1>0, <1>1, GrowsPositions DEF ExpTyped
<1>3. Vouches(d, p)'
  BY <1>0, GrowsVouches
<1>4. q = [m EXCEPT ![d] = p]
  BY <1>1 DEF SetPosition
<1>5. q \in [PositionKeys -> Positions] /\ PositionsOK(q)'
  BY <1>2, <1>3, <1>4, NewPosition
<1>6. memory' \in [PositionKeys -> Positions] /\ PositionsOK(memory)'
  BY <1>1, <1>5 DEF PositionsOK
<1>7. saved' = q \/ saved' = f
  BY <1>1 DEF SetPosition
<1>8. saved' \in [PositionKeys -> Positions] /\ PositionsOK(saved)'
  BY <1>2, <1>5, <1>7 DEF PositionsOK
<1> QED
  BY <1>6, <1>8

LEMMA SaveKeeps ==
    ASSUME ExpInv, Save
    PROVE  ExpInv'
<1>0. ExpTyped /\ TaskOK
  BY DEF ExpInv
<1>1. task \in Tasks /\ task # NoTask /\ task.at = "set"
  BY <1>0 DEF Save, ExpTyped, NoTask
<1>2. PICK d, p, b, np : d = task.key /\ p = task.position /\ b = task.batch /\ np = NextPosition(b)
  OBVIOUS
<1>3. d \in Dests /\ p \in Positions /\ Vouches(d, p) /\ np \in Positions /\ Vouches(d, np)
  BY <1>0, <1>1, <1>2 DEF TaskOK, Tasks, Stored
<1>4. UNCHANGED <<trail, first, made, late, delivered, excused, took>> /\ SetPosition(d, np)
  BY <1>2 DEF Save
<1>5. TrailGrows /\ (\A i \in 1 .. Len(trail) : trail[i] \in 1 .. made)'
  BY <1>4, Grown
<1>6. /\ memory' \in [PositionKeys -> Positions] /\ PositionsOK(memory)'
      /\ saved' \in [PositionKeys -> Positions] /\ PositionsOK(saved)'
  BY <1>3, <1>4, <1>5, SetKeeps
<1>7. PICK r : r = IF saved' = memory' THEN np ELSE p
  OBVIOUS
<1>8. /\ task' \in Tasks /\ task'.key = d /\ task'.position = r /\ task'.batch = b
      /\ task'.at = "rest"
  <2>1. PICK t : t = [task EXCEPT !.at = "rest"]
    OBVIOUS
  <2>2. t \in Tasks /\ t.key = d /\ t.position = p /\ t.batch = b /\ t.at = "rest"
    BY <1>1, <1>2, <2>1 DEF Tasks, TaskStages
  <2>3. task' = [t EXCEPT !.position = r]
    BY <1>2, <1>7, <2>1 DEF Save
  <2>4. r \in Positions
    BY <1>3, <1>7
  <2> QED
    BY <2>2, <2>3, <2>4 DEF Tasks
<1>9. r \in Positions /\ Vouches(d, r)
  BY <1>3, <1>7
<1>10. Vouches(d, r)'
  BY <1>0, <1>3, <1>5, <1>9, GrowsVouches
<1>11. TaskOK'
  BY <1>3, <1>8, <1>9, <1>10, TaskOKAt
<1>12. ExpTyped'
  BY <1>0, <1>4, <1>6, <1>8 DEF ExpTyped
<1>13. LateOK'
  BY <1>4 DEF ExpInv, LateOK, Vouches, Covered, InTrail
<1> QED
  BY <1>5, <1>6, <1>11, <1>12, <1>13 DEF ExpInv

\* An aborted task saves its position behind the one that followed it.
LEMMA LateSaveKeeps ==
    ASSUME ExpInv, LateSave
    PROVE  ExpInv'
<1>0. ExpTyped
  BY DEF ExpInv
<1>1. PICK l \in late :
        /\ SetPosition(l.key, l.position) /\ late' = late \ {l}
        /\ UNCHANGED <<trail, first, made, task, delivered, excused, took>>
  BY DEF LateSave
<1>2. PICK d \in Dests, p \in Positions : d = l.key /\ p = l.position
  BY <1>0 DEF ExpTyped
<1>3. Vouches(d, p) /\ SetPosition(d, p)
  BY <1>1, <1>2 DEF ExpInv, LateOK
<1>4. TrailGrows /\ (\A i \in 1 .. Len(trail) : trail[i] \in 1 .. made)'
  BY <1>1, Grown
<1>5. /\ memory' \in [PositionKeys -> Positions] /\ PositionsOK(memory)'
      /\ saved' \in [PositionKeys -> Positions] /\ PositionsOK(saved)'
  BY <1>3, <1>4, SetKeeps
<1>6. ExpTyped'
  BY <1>0, <1>1, <1>5 DEF ExpTyped
<1>7. LateOK'
  BY <1>1 DEF ExpInv, LateOK, Vouches, Covered, InTrail
<1>8. TaskOK'
  BY <1>1 DEF ExpInv, TaskOK, Vouches, BatchOK, Covered, InTrail, Stored
<1> QED
  BY <1>4, <1>5, <1>6, <1>7, <1>8 DEF ExpInv

\* position_for: what the destination takes over is up to where it took over.
LEMMA TakesOver ==
    ASSUME made' \in Nat, took' \in [Dests -> Nat],
           NEW ps \in [PositionKeys -> Positions], PositionsOK(ps)', NEW d \in Dests,
           ps[d] = Start => ps["kind"].seq <= took'[d]
    PROVE  TakenOver(ps, d) \in [PositionKeys -> Positions] /\ PositionsOK(TakenOver(ps, d))'
<1>0. d \in PositionKeys /\ "kind" \in PositionKeys /\ d # "kind"
  BY ExportAssumption DEF PositionKeys
<1>1. CASE ps[d] # Start
  BY <1>1 DEF TakenOver
<1>2. CASE ps[d] = Start
  <2>1. PICK k : k = ps["kind"]
    OBVIOUS
  <2>2. k \in Positions /\ k.hash <= made' /\ k.seq <= took'[d]
    BY <1>0, <1>2, <2>1 DEF PositionsOK
  <2>3. Vouches(d, k)'
    <3>1. took'[d] \in Nat /\ k.seq \in Nat
      BY <2>2 DEF Positions
    <3>2. \A i \in took'[d] + 1 .. k.seq : FALSE
      BY <2>2, <3>1
    <3> QED
      BY <2>2, <3>2 DEF Vouches, Covered, InTrail
  <2>4. PICK qs : qs = [ps EXCEPT ![d] = k]
    OBVIOUS
  <2>5. PICK rs : rs = [qs EXCEPT !["kind"] = Start]
    OBVIOUS
  <2>6. /\ rs \in [PositionKeys -> Positions] /\ rs["kind"] = Start /\ rs[d] = k
        /\ \A e \in Dests : e # d => rs[e] = ps[e]
    BY <1>0, <2>2, <2>4, <2>5, ExportAssumption DEF PositionKeys, Start, Positions, NoHash
  <2>7. Start.hash <= made'
    BY DEF Start, NoHash
  <2>8. PositionsOK(rs)'
    BY <2>3, <2>6, <2>7 DEF PositionsOK
  <2>9. TakenOver(ps, d) = rs
    BY <1>2, <2>1, <2>4, <2>5 DEF TakenOver
  <2> QED
    BY <2>6, <2>8, <2>9
<1> QED
  BY <1>1, <1>2

\* What is noted of a takeover.
LEMMA TookMore ==
    ASSUME took \in [Dests -> Nat], NEW ps \in [PositionKeys -> Positions], NEW d \in Dests,
           took' = TookOver(ps, d)
    PROVE  /\ took' \in [Dests -> Nat] /\ \A e \in Dests : took[e] <= took'[e]
           /\ ps[d] = Start => ps["kind"].seq <= took'[d]
<1>1. PICK n \in Nat : n = ps["kind"].seq
  BY DEF PositionKeys, Positions
<1>2. PICK m : m = IF took[d] < n THEN n ELSE took[d]
  OBVIOUS
<1>3. m \in Nat /\ took[d] <= m /\ n <= m
  BY <1>1, <1>2
<1>4. took' = IF ps[d] # Start THEN took ELSE [took EXCEPT ![d] = m]
  BY <1>1, <1>2 DEF TookOver
<1>5. CASE ps[d] # Start
  BY <1>4, <1>5
<1>6. CASE ps[d] = Start
  BY <1>1, <1>3, <1>4, <1>6
<1> QED
  BY <1>5, <1>6

\* A task that starts has no position yet.
LEMMA TaskStarts ==
    ASSUME NEW d \in Dests, made' \in Nat, took' \in [Dests -> Nat], task' = Task(d)
    PROVE  task' \in Tasks /\ TaskOK'
<1>1. Start \in Positions /\ Vouches(d, Start)'
  BY DEF Vouches, NoHash, Start, Positions
<1>2. /\ task' \in Tasks /\ task'.key = d /\ task'.position = Start
      /\ task'.at = "begin" /\ task'.batch = <<>>
  BY <1>1 DEF Task, Tasks, TaskStages
<1> QED
  BY <1>1, <1>2, TaskOKAt

LEMMA ApplyKeeps ==
    ASSUME ExpInv, Apply
    PROVE  ExpInv'
<1>0. ExpTyped /\ PositionsOK(memory) /\ PositionsOK(saved) /\ LateOK /\ TaskOK
  BY DEF ExpInv
<1>1. UNCHANGED <<trail, first, made, saved, delivered, excused>>
  BY DEF Apply
<1>2. \/ task' = NoTask /\ UNCHANGED <<memory, took>>
      \/ \E d \in Dests : /\ memory' = TakenOver(memory, d) /\ took' = TookOver(memory, d)
                          /\ task' = Task(d)
  BY DEF Apply
<1>3. took' \in [Dests -> Nat] /\ \A d \in Dests : took[d] <= took'[d]
  <2>1. CASE UNCHANGED took
    BY <1>0, <2>1 DEF ExpTyped
  <2>2. ASSUME NEW d \in Dests, took' = TookOver(memory, d)
        PROVE  took' \in [Dests -> Nat] /\ \A e \in Dests : took[e] <= took'[e]
    BY <1>0, <2>2, TookMore DEF ExpTyped
  <2> QED
    BY <1>2, <2>1, <2>2
<1>4. TrailGrows /\ (\A i \in 1 .. Len(trail) : trail[i] \in 1 .. made)'
  BY <1>1, <1>3, Grown
<1>5. PICK m, s, ls : m = memory /\ s = saved /\ ls = late
  OBVIOUS
<1>6. /\ m \in [PositionKeys -> Positions] /\ PositionsOK(m)'
      /\ s \in [PositionKeys -> Positions] /\ PositionsOK(s)'
  BY <1>0, <1>4, <1>5, GrowsPositions DEF ExpTyped
<1>7. made' \in Nat
  BY <1>4 DEF TrailGrows
<1>8. /\ memory' \in [PositionKeys -> Positions] /\ PositionsOK(memory)'
      /\ task' \in Tasks \cup {NoTask} /\ TaskOK'
  <2>1. CASE task' = NoTask /\ memory' = memory
    BY <1>5, <1>6, <2>1 DEF TaskOK, PositionsOK
  <2>2. ASSUME NEW d \in Dests, memory' = TakenOver(memory, d), took' = TookOver(memory, d),
               task' = Task(d)
        PROVE  /\ memory' \in [PositionKeys -> Positions] /\ PositionsOK(memory)'
               /\ task' \in Tasks /\ TaskOK'
    <3>1. m[d] = Start => m["kind"].seq <= took'[d]
      BY <1>0, <1>5, <1>6, <2>2, TookMore DEF ExpTyped
    <3>2. PICK q : q = TakenOver(m, d)
      OBVIOUS
    <3>3. q \in [PositionKeys -> Positions] /\ PositionsOK(q)'
      BY <1>3, <1>6, <1>7, <3>1, <3>2, TakesOver
    <3>4. memory' = q
      BY <1>5, <2>2, <3>2
    <3>5. PositionsOK(memory)'
      BY <3>3, <3>4 DEF PositionsOK
    <3>6. task' \in Tasks /\ TaskOK'
      BY <1>3, <1>7, <2>2, TaskStarts
    <3> QED
      BY <3>3, <3>4, <3>5, <3>6
  <2> QED
    BY <1>2, <2>1, <2>2
<1>9. PositionsOK(saved)'
  BY <1>1, <1>5, <1>6 DEF PositionsOK
<1>10. late' \subseteq [key : Dests, position : Positions] /\ LateOK'
  <2>1. ls \subseteq [key : Dests, position : Positions] /\ \A l \in ls : Vouches(l.key, l.position)'
    BY <1>0, <1>4, <1>5, GrowsLate DEF ExpTyped, LateOK
  <2>2. CASE late' = late
    BY <1>0, <1>5, <2>1, <2>2 DEF LateOK
  <2>3. CASE task.at = "set"
    <3>1. PICK d, p : d = task.key /\ p = NextPosition(task.batch)
      OBVIOUS
    <3>2. d \in Dests /\ p \in Positions /\ Vouches(d, p) /\ p.hash # NoHash
      <4>1. task \in Tasks /\ task # NoTask
        BY <1>0, <2>3 DEF ExpTyped, NoTask
      <4> QED
        BY <1>0, <2>3, <3>1, <4>1 DEF TaskOK, Stored, Tasks
    <3>3. Vouches(d, p)'
      BY <1>0, <1>4, <3>2, GrowsVouches
    <3>4. PICK l : l = [key |-> d, position |-> p]
      OBVIOUS
    <3>5. l \in [key : Dests, position : Positions] /\ Vouches(l.key, l.position)'
          /\ l.position.hash # NoHash
      BY <3>2, <3>3, <3>4
    <3>6. late' = ls \cup {l}
      BY <1>5, <2>3, <3>1, <3>4 DEF Apply
    <3> QED
      BY <1>0, <1>5, <2>1, <3>5, <3>6 DEF LateOK
  <2> QED
    BY <2>2, <2>3 DEF Apply
<1>11. ExpTyped'
  BY <1>0, <1>1, <1>3, <1>8, <1>10 DEF ExpTyped
<1> QED
  BY <1>4, <1>8, <1>9, <1>10, <1>11 DEF ExpInv

\* The process starts again, and the trail may have been cut.
LEMMA RestartKeeps ==
    ASSUME ExpInv, Restart
    PROVE  ExpInv'
<1>0. ExpTyped /\ PositionsOK(saved) /\ \A i \in 1 .. Len(trail) : trail[i] \in 1 .. made
  BY DEF ExpInv
<1>1. PICK d, n, open :
         /\ d \in Dests /\ n \in {0} \cup first .. Len(trail)
         /\ open = saved \/ open = [k \in PositionKeys |-> Start]
         /\ trail' = SubSeq(trail, 1, n)
         /\ first' = IF n = 0 THEN 1 ELSE first
         /\ saved' = open
         /\ memory' = TakenOver(open, d) /\ took' = TookOver(open, d)
         /\ task' = Task(d) /\ late' = {}
  BY DEF Restart
<1> d \in Dests /\ n \in {0} \cup first .. Len(trail) BY <1>1
<1>2. UNCHANGED <<made, delivered, excused>>
  BY DEF Restart
<1>3. /\ n \in Nat /\ n <= Len(trail) /\ Len(trail) \in Nat /\ trail \in Seq(Nat) /\ made \in Nat
      /\ first' \in Nat \ {0}
  BY <1>0, <1>1 DEF ExpTyped
<1>4. trail' \in Seq(Nat) /\ Len(trail') = n /\ \A i \in 1 .. n : trail'[i] = trail[i]
  <2>1. \A i \in 1 .. n : trail[i] \in Nat
    BY <1>3
  <2>2. /\ SubSeq(trail, 1, n) \in Seq(Nat)
        /\ Len(SubSeq(trail, 1, n)) = IF 1 <= n THEN n - 1 + 1 ELSE 0
        /\ \A i \in 1 .. n - 1 + 1 : SubSeq(trail, 1, n)[i] = trail[1 + i - 1]
    BY <1>3, <2>1, SubSeqProperties
  <2>3. \A i \in 1 .. n : i \in 1 .. n - 1 + 1 /\ 1 + i - 1 = i
    BY <1>3
  <2> QED
    BY <1>1, <1>3, <2>2, <2>3
<1>5. (\A i \in 1 .. Len(trail) : trail[i] \in 1 .. made)'
  <2>1. ASSUME NEW i \in 1 .. n
        PROVE  trail'[i] \in 1 .. made
    <3>1. i \in 1 .. Len(trail) /\ trail'[i] = trail[i]
      BY <1>3, <1>4
    <3> QED
      BY <1>0, <3>1
  <2> QED
    BY <1>2, <1>4, <2>1
<1>13. open \in [PositionKeys -> Positions]
  <2>1. Start \in Positions
    BY DEF Start, Positions, NoHash
  <2> QED
    BY <1>0, <1>1, <2>1 DEF ExpTyped
<1>14. /\ took' \in [Dests -> Nat] /\ \A e \in Dests : took[e] <= took'[e]
       /\ open[d] = Start => open["kind"].seq <= took'[d]
  BY <1>0, <1>1, <1>13, TookMore DEF ExpTyped
<1>6. ASSUME NEW e \in Dests, NEW p \in Positions, Vouches(e, p)
      PROVE  Vouches(e, p)'
  <2>0. took[e] \in Nat /\ took'[e] \in Nat /\ took[e] <= took'[e] /\ p.seq \in Nat
    BY <1>0, <1>14 DEF ExpTyped, Positions
  <2>1. ASSUME p.seq \in 1 .. Len(trail'), trail'[p.seq] = p.hash
        PROVE  Covered(e, p.seq)'
    <3>1. p.seq \in 1 .. n /\ p.seq \in 1 .. Len(trail) /\ trail[p.seq] = p.hash
      BY <1>3, <1>4, <2>1
    <3>2. Covered(e, p.seq)
      BY <1>6, <3>1 DEF Vouches
    <3>3. \A i \in 1 .. p.seq : trail'[i] = trail[i]
      BY <1>3, <1>4, <3>1
    <3>4. \A i \in took'[e] + 1 .. p.seq : i \in took[e] + 1 .. p.seq /\ i \in 1 .. p.seq
      BY <2>0
    <3> QED
      BY <1>2, <3>2, <3>3, <3>4 DEF Covered, InTrail
  <2> QED
    BY <1>2, <1>6, <2>0, <2>1 DEF Vouches
<1>7. PositionsOK(open)'
  <2>1. CASE open = saved
    <3>1. open \in [PositionKeys -> Positions] /\ PositionsOK(open)
      BY <1>0, <2>1 DEF ExpTyped
    <3>2. \A e \in Dests : open[e] \in Positions
      BY <3>1 DEF PositionKeys
    <3> QED
      BY <1>2, <1>6, <3>1, <3>2 DEF PositionsOK
  <2>2. CASE open = [k \in PositionKeys |-> Start]
    <3>1. Start \in Positions /\ Start.hash <= made'
      BY <1>2, <1>3 DEF Start, Positions, NoHash
    <3>2. \A e \in Dests : Vouches(e, Start)'
      BY <1>2, <1>3, <1>14 DEF Vouches, NoHash, Start
    <3> QED
      BY <2>2, <3>1, <3>2 DEF PositionsOK, PositionKeys
  <2> QED
    BY <1>1, <2>1, <2>2
<1>8. PICK q : q = TakenOver(open, d)
  OBVIOUS
<1>9. q \in [PositionKeys -> Positions] /\ PositionsOK(q)'
  <2>1. made' \in Nat
    BY <1>2, <1>3
  <2> QED
    BY <1>7, <1>8, <1>13, <1>14, <2>1, TakesOver
<1>10. PositionsOK(memory)' /\ PositionsOK(saved)' /\ LateOK'
  BY <1>1, <1>7, <1>8, <1>9 DEF PositionsOK, LateOK
<1>11. task' \in Tasks /\ TaskOK'
  BY <1>1, <1>2, <1>3, <1>14, TaskStarts
<1>12. ExpTyped'
  BY <1>0, <1>1, <1>2, <1>3, <1>4, <1>8, <1>9, <1>11, <1>13, <1>14 DEF ExpTyped
<1> QED
  BY <1>5, <1>10, <1>11, <1>12 DEF ExpInv

LEMMA ExpInitially == ExpInit => ExpInv
<1> SUFFICES ASSUME ExpInit PROVE ExpInv
  OBVIOUS
<1>1. PICK d : d = CHOOSE e \in Dests : TRUE
  OBVIOUS
<1>2. d \in Dests /\ d # "kind"
  BY <1>1, ExportAssumption
<1>3. PICK hash \in {NoHash, 1} :
        /\ trail = <<1, 2>> /\ made = 2 /\ first = 1
        /\ saved = [k \in PositionKeys |-> IF k = "kind" THEN [seq |-> 1, hash |-> hash] ELSE Start]
        /\ delivered = [e \in Dests |-> IF e = d THEN {1} ELSE {}]
        /\ memory = TakenOver(saved, d)
        /\ took = [e \in Dests |-> IF e = d THEN 1 ELSE 0]
        /\ task = Task(d) /\ late = {}
        /\ excused = [e \in Dests |-> {}]
  BY <1>1 DEF ExpInit
<1>4. /\ trail \in Seq(Nat) /\ Len(trail) = 2 /\ \A i \in 1 .. Len(trail) : trail[i] \in 1 .. made
  BY <1>3
<1>5. took \in [Dests -> Nat] /\ took[d] = 1 /\ delivered[d] = {1} /\ excused[d] = {}
  BY <1>2, <1>3
<1>6. PICK k : k = [seq |-> 1, hash |-> hash]
  OBVIOUS
<1>7. k \in Positions /\ k.hash <= made /\ k.seq = 1 /\ Start \in Positions
      /\ Start.hash = 0 /\ Start.seq = 0
  BY <1>3, <1>6 DEF Positions, NoHash, Start
<1>8. \A e \in Dests : Vouches(e, Start)
  BY <1>3, <1>5, <1>7 DEF Vouches, NoHash
<1>9. Vouches(d, k)
  <2>1. \A i \in took[d] + 1 .. k.seq : FALSE
    BY <1>5, <1>7
  <2> QED
    BY <1>5, <1>7, <2>1 DEF Vouches, Covered, InTrail
<1>10. saved \in [PositionKeys -> Positions] /\ saved["kind"] = k
       /\ \A e \in Dests : saved[e] = Start
  BY <1>2, <1>3, <1>6, <1>7, ExportAssumption DEF PositionKeys
<1>11. PICK qs : qs = [saved EXCEPT ![d] = k]
  OBVIOUS
<1>12. memory = [qs EXCEPT !["kind"] = Start]
  BY <1>2, <1>3, <1>10, <1>11 DEF TakenOver
<1>13. /\ memory \in [PositionKeys -> Positions] /\ memory["kind"] = Start /\ memory[d] = k
       /\ \A e \in Dests : e # d => memory[e] = Start
  BY <1>2, <1>7, <1>10, <1>11, <1>12, ExportAssumption DEF PositionKeys
<1>14. PositionsOK(saved) /\ PositionsOK(memory)
  BY <1>3, <1>7, <1>8, <1>9, <1>10, <1>13 DEF PositionsOK
<1>15. task \in Tasks /\ task.key = d /\ task.position = Start /\ task.at = "begin"
  BY <1>2, <1>3, <1>7 DEF Task, Tasks, TaskStages
<1>16. TaskOK /\ LateOK
  BY <1>2, <1>3, <1>8, <1>15 DEF TaskOK, LateOK
<1>17. delivered \in [Dests -> SUBSET Nat] /\ excused \in [Dests -> SUBSET Nat]
  BY <1>3
<1> QED
  BY <1>3, <1>4, <1>5, <1>10, <1>13, <1>14, <1>15, <1>16, <1>17 DEF ExpInv, ExpTyped

LEMMA ExpInvariance == ExpSpec => []ExpInv
<1>1. ExpInv /\ [ExpNext]_expVars => ExpInv'
  <2> SUFFICES ASSUME ExpInv, [ExpNext]_expVars PROVE ExpInv'
    OBVIOUS
  <2>1. CASE UNCHANGED expVars
    BY <2>1 DEF expVars, ExpInv, ExpTyped, PositionsOK, TaskOK, LateOK, Vouches, BatchOK, Covered,
                InTrail, Stored
  <2> QED
    BY <2>1, QuietKeepsExport, ReadPositionKeeps, ReadAfterKeeps, RecordGapKeeps, ReadAgainKeeps,
       SendKeeps, SaveKeeps, LateSaveKeeps, SendFailsKeeps, ApplyKeeps, RestartKeeps DEF ExpNext
<1> QED
  BY <1>1, ExpInitially, PTL DEF ExpSpec

(***************************************************************************)
(* The export is at least once: a saved position that is a record of the   *)
(* trail vouches for every record up to it, from where the destination     *)
(* began (export/mod.rs, run).  A destination that took over the position  *)
(* per kind of an older version began behind that position, whoever it was *)
(* that had exported up to there.                                          *)
(***************************************************************************)
THEOREM ExportSkipsNothing == ExpSpec => []NothingSkipped
<1>1. ExpInv => NothingSkipped
  <2> SUFFICES ASSUME ExpInv, NEW d \in Dests,
                      saved[d].seq \in DOMAIN trail, saved[d].hash = trail[saved[d].seq]
               PROVE  InTrail(took[d] + 1, saved[d].seq) \subseteq delivered[d] \cup excused[d]
    BY DEF NothingSkipped
  <2>1. Vouches(d, saved[d]) /\ DOMAIN trail = 1 .. Len(trail)
    BY DEF ExpInv, PositionsOK, ExpTyped
  <2> QED
    BY <2>1 DEF Vouches, Covered
<1> QED
  BY <1>1, ExpInvariance, PTL

\* What was exported, and what a destination does without, are records that were made, and
\* the trail starts no later than behind its end.
WithinMade ==
    /\ first <= Len(trail) + 1
    /\ \A d \in Dests : delivered[d] \subseteq 1 .. made /\ excused[d] \subseteq 1 .. made

\* The records of a piece of the trail were made.
LEMMA TrailIsMade ==
    ASSUME ExpInv, NEW n \in Int, n <= Len(trail)
    PROVE  InTrail(1, n) \subseteq 1 .. made
<1>1. \A i \in 1 .. n : i \in 1 .. Len(trail)
  BY DEF ExpInv, ExpTyped
<1> QED
  BY <1>1 DEF InTrail, ExpInv

\* The records of the batch that is sent were made.
LEMMA BatchIsMade ==
    ASSUME ExpInv, task.at = "send"
    PROVE  /\ task \in Tasks /\ task.key \in Dests
           /\ {task.batch[i].hash : i \in DOMAIN task.batch} \subseteq 1 .. made
<1>1. task \in Tasks /\ task # NoTask
  BY DEF ExpInv, ExpTyped, NoTask
<1>2. PICK b : b = task.batch
  OBVIOUS
<1>3. BatchOK(task.key, b) /\ b # <<>> /\ b \in Seq(Entries)
  BY <1>1, <1>2 DEF ExpInv, TaskOK, Tasks
<1>4. PICK s \in Nat \ {0} : s = b[1].seq
  BY <1>3 DEF BatchOK
<1>5. /\ Len(b) \in Nat /\ DOMAIN b = 1 .. Len(b) /\ s + Len(b) - 1 <= Len(trail) /\ Len(trail) \in Nat
      /\ \A i \in 1 .. Len(b) : b[i].hash = trail[s + i - 1]
  BY <1>3, <1>4 DEF BatchOK, ExpInv, ExpTyped
<1>6. \A i \in 1 .. Len(b) : s + i - 1 \in 1 .. Len(trail)
  BY <1>5
<1>7. \A i \in 1 .. Len(b) : b[i].hash \in 1 .. made
  BY <1>5, <1>6 DEF ExpInv
<1> QED
  BY <1>1, <1>2, <1>5, <1>7 DEF Tasks

\* Reading ahead excuses only records of the trail.
LEMMA ReadsWithinMade ==
    ASSUME ExpInv, WithinMade, ReadAfter \/ ReadAgain
    PROVE  WithinMade'
<1>1. task \in Tasks /\ ExpTyped
  BY DEF ExpInv, ExpTyped, NoTask, ReadAfter, ReadAgain
<1>2. PICK seq \in Nat : seq = IF ReadAfter THEN task.position.seq ELSE 0
  BY <1>1 DEF Tasks, Positions
<1> DEFINE b == After(seq)
<1>3. InTrail(1, b[1].seq - 1) \subseteq 1 .. made \/ b = <<>>
  <2> SUFFICES ASSUME b # <<>> PROVE InTrail(1, b[1].seq - 1) \subseteq 1 .. made
    OBVIOUS
  <2>1. b[1].seq \in Nat /\ b[1].seq + Len(b) - 1 <= Len(trail) /\ b \in Seq(Entries)
    BY <1>1, AfterIsAPiece
  <2>2. Len(b) \in Nat \ {0} /\ Len(trail) \in Nat
    BY <1>1, <2>1, EmptySeq DEF ExpTyped
  <2>3. b[1].seq - 1 \in Int /\ b[1].seq - 1 <= Len(trail)
    BY <2>1, <2>2
  <2> QED
    BY <2>3, TrailIsMade
<1>4. /\ UNCHANGED <<trail, first, made, delivered>>
      /\ \/ excused' = excused
         \/ /\ b # <<>>
            /\ \E more \in {InTrail(1, b[1].seq - 1), {}} :
                 excused' = [excused EXCEPT ![task.key] = @ \cup more]
  <2>1. CASE ReadAfter
    BY <1>2, <2>1, Zenon DEF ReadAfter
  <2>2. CASE ReadAgain /\ ~ReadAfter
    BY <1>2, <2>2, Zenon DEF ReadAgain
  <2> QED
    BY <2>1, <2>2
<1>5. excused \in [Dests -> SUBSET Nat] /\ task.key \in Dests
  BY <1>1 DEF ExpTyped, Tasks
<1>6. \A d \in Dests : excused'[d] \subseteq excused[d] \cup 1 .. made
  BY <1>3, <1>4, <1>5
<1> QED
  BY <1>4, <1>6 DEF WithinMade

\* A destination gets only records of the batch.
LEMMA SendsWithinMade ==
    ASSUME ExpInv, WithinMade, Send \/ SendFails
    PROVE  WithinMade'
<1>1. task.at = "send" /\ UNCHANGED <<trail, first, made, excused>>
  BY DEF Send, SendFails
<1>2. task.key \in Dests /\ task.batch \in Seq(Entries)
      /\ {task.batch[i].hash : i \in DOMAIN task.batch} \subseteq 1 .. made
  BY <1>1, BatchIsMade DEF Tasks
<1>3. PICK b : delivered' = Got(b) /\ {b[i].hash : i \in DOMAIN b} \subseteq 1 .. made
  <2>1. CASE Send
    BY <1>2, <2>1 DEF Send
  <2>2. CASE SendFails
    <3>1. PICK n \in 0 .. Len(task.batch) : delivered' = Got(SubSeq(task.batch, 1, n))
      BY <2>2 DEF SendFails
    <3>2. PICK b : b = SubSeq(task.batch, 1, n)
      OBVIOUS
    <3>3. PICK c : c = task.batch
      OBVIOUS
    <3>4. c \in Seq(Entries) /\ Len(c) \in Nat /\ DOMAIN c = 1 .. Len(c) /\ n \in 0 .. Len(c)
      BY <1>2, <3>3
    <3>5. Len(b) = n /\ \A i \in 1 .. n : i \in DOMAIN c /\ b[i] = c[i]
      BY <3>2, <3>3, <3>4, SubSeqProperties
    <3>6. DOMAIN b = 1 .. n
      BY <3>2, <3>3, <3>4, SubSeqProperties
    <3>7. {b[i].hash : i \in DOMAIN b} \subseteq {c[i].hash : i \in DOMAIN c}
      BY <3>5, <3>6
    <3>8. delivered' = Got(b) /\ {b[i].hash : i \in DOMAIN b} \subseteq 1 .. made
      BY <1>2, <3>1, <3>2, <3>3, <3>7
    <3> QED
      BY <3>8
  <2> QED
    BY <2>1, <2>2
<1>4. \A d \in Dests : delivered'[d] \subseteq delivered[d] \cup 1 .. made
  BY <1>2, <1>3 DEF Got, ExpInv, ExpTyped
<1> QED
  BY <1>1, <1>4 DEF WithinMade

\* The trail grows, or is cut to what it was at an earlier number.
LEMMA TrailsWithinMade ==
    ASSUME ExpInv, WithinMade, Append1 \/ Prune \/ RecordGap \/ Restart
    PROVE  WithinMade'
<1>1. /\ trail \in Seq(Nat) /\ Len(trail) \in Nat /\ first \in Nat \ {0} /\ made \in Nat
      /\ first <= Len(trail) + 1 /\ delivered' = delivered /\ excused' = excused
  BY DEF ExpInv, ExpTyped, WithinMade, Append1, Prune, RecordGap, Restart
<1>2. PICK m, f, t : m = made' /\ f = first' /\ t = trail'
  OBVIOUS
<1>3. m \in Nat /\ m >= made
  BY <1>1, <1>2 DEF Append1, Prune, RecordGap, Restart, NextRecord
<1>4. t \in Seq(Nat) /\ f \in Nat /\ f <= Len(t) + 1
  <2>1. CASE Append1 \/ Prune \/ RecordGap
    <3>1. t = trail \/ t = Append(trail, made + 1)
      BY <1>2, <2>1 DEF Append1, Prune, RecordGap, NextRecord
    <3>2. t \in Seq(Nat) /\ Len(t) >= Len(trail) /\ Len(t) \in Nat
      BY <1>1, <3>1
    <3>3. f \in Nat /\ f <= Len(trail) + 1
      BY <1>1, <1>2, <2>1 DEF Append1, Prune, RecordGap
    <3> QED
      BY <1>1, <3>2, <3>3
  <2>2. CASE Restart
    <3>1. PICK n \in {0} \cup first .. Len(trail) :
            t = SubSeq(trail, 1, n) /\ f = IF n = 0 THEN 1 ELSE first
      BY <1>2, <2>2 DEF Restart
    <3>2. n \in 0 .. Len(trail)
      BY <1>1
    <3>3. t \in Seq(Nat) /\ Len(t) = n
      BY <1>1, <3>1, <3>2
    <3> QED
      BY <1>1, <3>1, <3>2, <3>3
  <2> QED
    BY <2>1, <2>2
<1>5. 1 .. made \subseteq 1 .. m
  BY <1>1, <1>3
<1>6. \A d \in Dests : delivered'[d] \subseteq 1 .. m /\ excused'[d] \subseteq 1 .. m
  BY <1>1, <1>5 DEF WithinMade
<1> QED
  BY <1>2, <1>4, <1>6 DEF WithinMade

\* Type correctness of the export: positions name records that were made or none, a
\* destination has only records that were made, and the trail starts no later than behind
\* its end, through every restart, cut and change of settings: run of export/mod.rs.
THEOREM ExportTyped == ExpSpec => []ExpTypeOK
<1>1. ExpInit => WithinMade
  <2> SUFFICES ASSUME ExpInit PROVE WithinMade
    OBVIOUS
  <2>1. trail = <<1, 2>> /\ Len(trail) = 2 /\ first = 1 /\ made = 2
    BY DEF ExpInit
  <2>2. \A d \in Dests : delivered[d] \subseteq {1} /\ excused[d] = {}
    BY DEF ExpInit
  <2> QED
    BY <2>1, <2>2 DEF WithinMade
<1>2. ExpInv /\ WithinMade /\ [ExpNext]_expVars => WithinMade'
  <2> SUFFICES ASSUME ExpInv, WithinMade, [ExpNext]_expVars PROVE WithinMade'
    OBVIOUS
  <2>1. CASE \/ ReadPosition \/ ReadHead \/ Save \/ LateSave \/ ReadFails \/ Rests \/ Apply
             \/ UNCHANGED expVars
    <3>1. UNCHANGED <<trail, first, made, delivered, excused>>
      BY <2>1 DEF ReadPosition, ReadHead, Save, LateSave, ReadFails, Rests, Apply, expVars
    <3> QED
      BY <3>1 DEF WithinMade
  <2> QED
    BY <2>1, ReadsWithinMade, SendsWithinMade, TrailsWithinMade DEF ExpNext
<1>3. ExpInv /\ WithinMade => ExpTypeOK
  <2> SUFFICES ASSUME ExpInv, WithinMade PROVE ExpTypeOK
    OBVIOUS
  <2>1. ASSUME NEW k \in PositionKeys
        PROVE  {memory[k].hash, saved[k].hash} \subseteq 0 .. made
    <3>1. /\ memory[k] \in Positions /\ saved[k] \in Positions /\ made \in Nat
          /\ memory[k].hash <= made /\ saved[k].hash <= made
      BY DEF ExpInv, ExpTyped, PositionsOK, Vouches, PositionKeys, NoHash
    <3> QED
      BY <3>1 DEF Positions
  <2>2. first \in 1 .. Len(trail) + 1
    BY DEF ExpInv, ExpTyped, WithinMade
  <2>3. task.at \in {"off", "begin", "head", "after", "gap", "again", "send", "set", "rest"}
    BY DEF ExpInv, ExpTyped, Tasks, TaskStages, NoTask
  <2>4. ASSUME NEW l \in late
        PROVE  l.key \in Dests /\ l.position.hash \in 1 .. made
    <3>1. l.key \in Dests /\ l.position \in Positions /\ made \in Nat
      BY DEF ExpInv, ExpTyped
    <3>2. l.position.hash <= made /\ l.position.hash # NoHash
      BY DEF ExpInv, LateOK, Vouches
    <3> QED
      BY <3>1, <3>2 DEF Positions, NoHash
  <2> QED
    BY <2>1, <2>2, <2>3, <2>4 DEF ExpTypeOK, WithinMade
<1> QED
  BY <1>1, <1>2, <1>3, ExpInvariance, PTL DEF ExpSpec

-------------------------------------------------------------------------------
(***************************************************************************)
(* The alarms that an assistant acknowledges                               *)
(***************************************************************************)
LogRecords == [kind : {"alarm"}, severity : Severities]
              \cup [kind : {"ack"}, severity : Severities, upTo : Nat, via : {"mcp", "web"}]
              \cup [kind : {"query"}]

\* alarm i was shown to the assistant's user, or acknowledged in the web UI
SeenAlarm(s, i) ==
    \/ i \in shown[s]
    \/ \E j \in Acks : log[j].via = "web" /\ log[j].severity = s /\ i <= log[j].upTo

SeenUpTo(s, n) == ~clipped => \A i \in Alarms(s, 0, n) : SeenAlarm(s, i)

AstTyped ==
    /\ log \in Seq(LogRecords)
    /\ shown \in [Severities -> SUBSET (1 .. Len(log))]
    /\ DOMAIN calls = Calls
    /\ clipped \in BOOLEAN

\* the mark a call has read, and the number it will acknowledge up to, have nothing unseen below
CallSeen(call) ==
    /\ call.at = "listing" =>
         call.severity \in Severities /\ call.mark \in 0 .. Len(log) /\ SeenUpTo(call.severity, call.mark)
    /\ call.at = "acking" =>
         call.severity \in Severities /\ call.upTo \in 0 .. Len(log) /\ SeenUpTo(call.severity, call.upTo)
    /\ call.at = "counted" => call.severity \in Severities
    /\ call.at = "webAcking" => call.severity \in Severities /\ call.upTo \in 0 .. Len(log)

AstInv ==
    /\ AstTyped
    /\ \A k \in Acks :
         /\ log[k].upTo <= Len(log)
         /\ log[k].via = "mcp" => SeenUpTo(log[k].severity, log[k].upTo)
    /\ \A s \in Severities : \A u \in shown[s] : SeenUpTo(s, u)
    /\ \A c \in Calls : CallSeen(calls[c])

\* A nonempty set of positions of a sequence has a greatest element.
LEMMA GreatestPosition ==
    ASSUME NEW N \in Nat, NEW S \in SUBSET (1 .. N), S # {}
    PROVE  \E x \in S : \A y \in S : y <= x
<1>1. \A x, y \in Nat : <<y, x>> \in OpToRel(<, Nat) <=> y < x
  BY DEF OpToRel
<1>2. PICK R : IsWellFoundedOn(R, Nat) /\ \A x, y \in Nat : <<y, x>> \in R <=> y < x
  BY <1>1, NatLessThanWellFounded
<1>3. PICK T : T = {n \in Nat : N - n \in S}
  OBVIOUS
<1>4. T \subseteq Nat /\ T # {} /\ \A y \in S : N - y \in T
  <2>1. \A y \in S : N - y \in Nat /\ N - (N - y) = y
    OBVIOUS
  <2> QED
    BY <1>3, <2>1
<1>5. PICK m \in T : \A y \in T : ~(<<y, m>> \in R)
  BY <1>2, <1>4, WFMin
<1>6. \A y \in T : ~(y < m)
  BY <1>2, <1>4, <1>5, Zenon
<1>7. N - m \in S /\ m \in Nat
  BY <1>3
<1>8. ASSUME NEW y \in S
      PROVE  y <= N - m
  <2>1. N - y \in T /\ N - y \in Nat /\ y \in Nat
    BY <1>4
  <2>2. ~(N - y < m)
    BY <1>6, <2>1
  <2> QED
    BY <1>7, <2>1, <2>2
<1> QED
  BY <1>7, <1>8

\* The trail grows, more alarms are shown, and answers stay clipped.
LogGrows ==
    /\ log' \in Seq(LogRecords) /\ Len(log') >= Len(log)
    /\ \A i \in 1 .. Len(log) : log'[i] = log[i]
    /\ shown' \in [Severities -> SUBSET (1 .. Len(log'))]
    /\ \A s \in Severities : shown[s] \subseteq shown'[s]
    /\ clipped' \in BOOLEAN /\ (clipped => clipped')

LEMMA SeenGrows ==
    ASSUME AstTyped, LogGrows, NEW s \in Severities, NEW n \in 0 .. Len(log), SeenUpTo(s, n)
    PROVE  SeenUpTo(s, n)'
<1>0. Len(log) \in Nat /\ Len(log') \in Nat /\ DOMAIN log = 1 .. Len(log) /\ DOMAIN log' = 1 .. Len(log')
  BY DEF AstTyped, LogGrows
<1> SUFFICES ASSUME ~clipped', NEW i \in Alarms(s, 0, n)' PROVE SeenAlarm(s, i)'
  BY DEF SeenUpTo
<1>1. ~clipped
  BY DEF LogGrows
<1>2. i \in 1 .. Len(log) /\ log'[i] = Alarm(s) /\ i > 0 /\ i <= n
  BY <1>0 DEF Alarms, Alarm
<1>3. i \in Alarms(s, 0, n)
  BY <1>0, <1>2 DEF Alarms, LogGrows
<1>4. SeenAlarm(s, i)
  BY <1>1, <1>3 DEF SeenUpTo
<1>5. CASE i \in shown[s]
  BY <1>5 DEF SeenAlarm, LogGrows
<1>6. ASSUME NEW j \in Acks, log[j].via = "web", log[j].severity = s, i <= log[j].upTo
      PROVE  SeenAlarm(s, i)'
  <2>1. j \in 1 .. Len(log) /\ log[j].kind = "ack" /\ j \in 1 .. Len(log')
    BY <1>0 DEF Acks, LogGrows
  <2>2. log'[j] = log[j]
    BY <2>1 DEF LogGrows
  <2>3. j \in Acks'
    BY <1>0, <2>1, <2>2 DEF Acks
  <2> QED
    BY <1>6, <2>2, <2>3 DEF SeenAlarm
<1> QED
  BY <1>4, <1>5, <1>6 DEF SeenAlarm

LEMMA CallGrows ==
    ASSUME AstTyped, LogGrows, NEW call, CallSeen(call)
    PROVE  CallSeen(call)'
<1>0. Len(log) \in Nat /\ Len(log') \in Nat /\ Len(log') >= Len(log)
  BY DEF AstTyped, LogGrows
<1>1. \A n \in 0 .. Len(log) : n \in 0 .. Len(log')
  BY <1>0
<1>2. call.at = "listing" => SeenUpTo(call.severity, call.mark)'
  BY SeenGrows DEF CallSeen
<1>3. call.at = "acking" => SeenUpTo(call.severity, call.upTo)'
  BY SeenGrows DEF CallSeen
<1> QED
  BY <1>1, <1>2, <1>3 DEF CallSeen

\* A step after which what is new has nothing unseen below.
LEMMA AstStep ==
    ASSUME AstInv, LogGrows,
           DOMAIN calls' = Calls, \A d \in Calls : calls'[d] = calls[d] \/ CallSeen(calls[d])',
           \A k \in Len(log) + 1 .. Len(log') : log'[k].kind = "ack" =>
              /\ log'[k].upTo \in 0 .. Len(log) /\ log'[k].severity \in Severities
              /\ log'[k].via = "mcp" => SeenUpTo(log'[k].severity, log'[k].upTo),
           \A s \in Severities : \A u \in shown'[s] \ shown[s] : SeenUpTo(s, u)'
    PROVE  AstInv'
<1>0. AstTyped /\ Len(log) \in Nat /\ Len(log') \in Nat /\ Len(log') >= Len(log)
      /\ DOMAIN log = 1 .. Len(log) /\ DOMAIN log' = 1 .. Len(log')
  BY DEF AstInv, AstTyped, LogGrows
<1>1. AstTyped'
  BY <1>0 DEF AstTyped, LogGrows
<1>2. ASSUME NEW k \in Acks'
      PROVE  /\ log'[k].upTo <= Len(log')
             /\ log'[k].via = "mcp" => SeenUpTo(log'[k].severity, log'[k].upTo) /\
                                        log'[k].severity \in Severities /\ log'[k].upTo \in 0 .. Len(log)
  <2>1. k \in 1 .. Len(log') /\ log'[k].kind = "ack"
    BY <1>0, <1>2 DEF Acks
  <2>2. CASE k \in 1 .. Len(log)
    <3>1. log'[k] = log[k] /\ k \in Acks
      BY <1>0, <2>1, <2>2 DEF LogGrows, Acks
    <3>2. log[k] \in LogRecords
      BY <1>0, <2>2 DEF AstTyped
    <3>3. log[k].severity \in Severities /\ log[k].upTo \in Nat
      BY <2>1, <3>1, <3>2 DEF LogRecords
    <3>4. log[k].upTo <= Len(log) /\ (log[k].via = "mcp" => SeenUpTo(log[k].severity, log[k].upTo))
      BY <3>1 DEF AstInv
    <3> QED
      BY <1>0, <3>1, <3>3, <3>4
  <2>3. CASE k \in Len(log) + 1 .. Len(log')
    BY <1>0, <2>1, <2>3
  <2> QED
    BY <1>0, <2>1, <2>2, <2>3
<1>3. (\A k \in Acks :
         /\ log[k].upTo <= Len(log)
         /\ log[k].via = "mcp" => SeenUpTo(log[k].severity, log[k].upTo))'
  <2> SUFFICES ASSUME NEW k \in Acks'
               PROVE  (/\ log[k].upTo <= Len(log)
                       /\ log[k].via = "mcp" => SeenUpTo(log[k].severity, log[k].upTo))'
    OBVIOUS
  <2>1. PICK s, n : s = log'[k].severity /\ n = log'[k].upTo
    OBVIOUS
  <2>2. log'[k].upTo <= Len(log')
    BY <1>2
  <2>3. log'[k].via = "mcp" => s \in Severities /\ n \in 0 .. Len(log) /\ SeenUpTo(s, n)
    BY <1>2, <2>1
  <2>4. log'[k].via = "mcp" => SeenUpTo(s, n)'
    BY <1>0, <2>3, SeenGrows
  <2> QED
    BY <2>1, <2>2, <2>4 DEF SeenUpTo, Alarms, SeenAlarm
<1>4. \A s \in Severities : \A u \in shown'[s] : SeenUpTo(s, u)'
  <2> TAKE s \in Severities
  <2> TAKE u \in shown'[s]
  <2>1. CASE u \in shown[s]
    <3>1. u \in 0 .. Len(log) /\ SeenUpTo(s, u)
      BY <1>0, <2>1 DEF AstInv, AstTyped
    <3> QED
      BY <1>0, <3>1, SeenGrows
  <2>2. CASE u \notin shown[s]
    BY <2>2
  <2> QED
    BY <2>1, <2>2
<1>5. \A d \in Calls : CallSeen(calls[d])'
  <2> TAKE d \in Calls
  <2>1. PICK x : x = calls'[d]
    OBVIOUS
  <2>2. CallSeen(x)'
    <3>1. CASE CallSeen(calls[d])'
      BY <2>1, <3>1 DEF CallSeen, SeenUpTo, Alarms, SeenAlarm
    <3>2. CASE calls'[d] = calls[d]
      <4>1. x = calls[d] /\ CallSeen(x)
        BY <2>1, <3>2 DEF AstInv
      <4> QED
        BY <1>0, <4>1, CallGrows
    <3> QED
      BY <3>1, <3>2
  <2> QED
    BY <2>1, <2>2 DEF CallSeen, SeenUpTo, Alarms, SeenAlarm
<1> QED
  BY <1>1, <1>3, <1>4, <1>5 DEF AstInv

\* The mark of a severity has nothing unseen below.
LEMMA MarkSeen ==
    ASSUME AstInv, NEW s \in Severities, NEW m, m = Mark(s)
    PROVE  m \in 0 .. Len(log) /\ SeenUpTo(s, m)
<1>0. AstTyped /\ Len(log) \in Nat /\ DOMAIN log = 1 .. Len(log)
  BY DEF AstInv, AstTyped
<1>1. PICK of : of = {i \in RecentAcks : log[i].severity = s}
  OBVIOUS
<1>2. of \subseteq Acks /\ Acks \subseteq 1 .. Len(log)
  BY <1>0, <1>1 DEF RecentAcks, Acks
<1>3. CASE of = {}
  <2>1. m = 0
    BY <1>1, <1>3 DEF Mark
  <2>2. Alarms(s, 0, 0) = {}
    BY <1>0 DEF Alarms
  <2> QED
    BY <1>0, <2>1, <2>2 DEF SeenUpTo
<1>4. CASE of # {}
  <2>1. \E i \in of : \A j \in of : j <= i
    BY <1>0, <1>2, <1>4, GreatestPosition
  <2>2. PICK k : k = CHOOSE i \in of : \A j \in of : j <= i
    OBVIOUS
  <2>3. k \in of
    BY <2>1, <2>2
  <2>4. m = log[k].upTo
    BY <1>1, <1>4, <2>2 DEF Mark
  <2>5. k \in Acks /\ log[k].severity = s
    BY <1>1, <1>2, <2>3
  <2>6. log[k] \in LogRecords /\ log[k].kind = "ack"
    BY <1>0, <1>2, <2>5 DEF AstTyped, Acks
  <2>7. log[k].upTo \in Nat /\ log[k].via \in {"mcp", "web"} /\ log[k].upTo <= Len(log)
    BY <2>5, <2>6 DEF LogRecords, AstInv
  <2>8. CASE log[k].via = "mcp"
    BY <1>0, <2>4, <2>5, <2>7, <2>8 DEF AstInv
  <2>9. CASE log[k].via = "web"
    <3>1. \A i \in Alarms(s, 0, m) : i <= m
      BY DEF Alarms
    <3>2. \A i \in Alarms(s, 0, m) : SeenAlarm(s, i)
      BY <2>4, <2>5, <2>9, <3>1 DEF SeenAlarm
    <3> QED
      BY <1>0, <2>4, <2>7, <3>2 DEF SeenUpTo
  <2> QED
    BY <2>7, <2>8, <2>9
<1> QED
  BY <1>3, <1>4

\* The trail is left alone, or gets a record; what is shown does not change.
LEMMA LogGrown ==
    ASSUME AstInv, UNCHANGED <<shown, clipped>>,
           \/ log' = log
           \/ \E r \in LogRecords : log' = Append(log, r)
    PROVE  LogGrows
<1>0. log \in Seq(LogRecords) /\ Len(log) \in Nat
      /\ shown \in [Severities -> SUBSET (1 .. Len(log))] /\ clipped \in BOOLEAN
  BY DEF AstInv, AstTyped
<1>1. CASE log' = log
  BY <1>0, <1>1 DEF LogGrows
<1>2. ASSUME NEW r \in LogRecords, log' = Append(log, r)
      PROVE  LogGrows
  <2>1. /\ log' \in Seq(LogRecords) /\ Len(log') = Len(log) + 1
        /\ \A i \in 1 .. Len(log) : log'[i] = log[i]
    BY <1>0, <1>2, AppendProperties
  <2>2. shown' \in [Severities -> SUBSET (1 .. Len(log'))]
    <3>1. 1 .. Len(log) \subseteq 1 .. Len(log')
      BY <1>0, <2>1
    <3> QED
      BY <1>0, <3>1
  <2> QED
    BY <1>0, <2>1, <2>2 DEF LogGrows
<1> QED
  BY <1>1, <1>2

\* One call moves on: the others are as they were.
LEMMA MovesOne ==
    ASSUME DOMAIN calls = Calls, NEW c \in Calls, NEW call,
           calls' = [calls EXCEPT ![c] = call], CallSeen(call)'
    PROVE  DOMAIN calls' = Calls /\ \A d \in Calls : calls'[d] = calls[d] \/ CallSeen(calls[d])'
<1>1. DOMAIN calls' = Calls /\ calls'[c] = call /\ \A d \in Calls : d # c => calls'[d] = calls[d]
  OBVIOUS
<1>2. CallSeen(calls[c])'
  BY <1>1 DEF CallSeen, SeenUpTo, Alarms, SeenAlarm
<1> QED
  BY <1>1, <1>2

\* A step that records nothing but moves one call.
LEMMA CallStep ==
    ASSUME AstInv, UNCHANGED <<log, shown, clipped>>,
           NEW c \in Calls, NEW call, calls' = [calls EXCEPT ![c] = call], CallSeen(call)
    PROVE  AstInv'
<1>1. LogGrows
  BY LogGrown
<1>2. CallSeen(call)'
  BY <1>1, CallGrows DEF AstInv
<1>3. \A k \in Len(log) + 1 .. Len(log') : FALSE
  BY DEF AstInv, AstTyped
<1>4. DOMAIN calls' = Calls /\ \A d \in Calls : calls'[d] = calls[d] \/ CallSeen(calls[d])'
  BY <1>2, MovesOne DEF AstInv, AstTyped
<1> QED
  BY <1>1, <1>3, <1>4, AstStep

\* A step that records something and moves one call.
LEMMA RecordStep ==
    ASSUME AstInv, UNCHANGED <<shown, clipped>>, NEW r \in LogRecords, log' = Append(log, r),
           NEW c \in Calls, NEW call, calls' = [calls EXCEPT ![c] = call], CallSeen(call),
           r.kind = "ack" =>
              /\ r.upTo \in 0 .. Len(log) /\ r.severity \in Severities
              /\ r.via = "mcp" => SeenUpTo(r.severity, r.upTo)
    PROVE  AstInv'
<1>0. log \in Seq(LogRecords) /\ Len(log) \in Nat
  BY DEF AstInv, AstTyped
<1>1. LogGrows
  BY LogGrown
<1>2. CallSeen(call)'
  BY <1>1, CallGrows DEF AstInv
<1>3. Len(log') = Len(log) + 1 /\ log'[Len(log) + 1] = r
  BY <1>0, AppendProperties
<1>4. \A k \in Len(log) + 1 .. Len(log') : k = Len(log) + 1
  BY <1>0, <1>3
<1>5. DOMAIN calls' = Calls /\ \A d \in Calls : calls'[d] = calls[d] \/ CallSeen(calls[d])'
  BY <1>2, MovesOne DEF AstInv, AstTyped
<1> QED
  BY <1>1, <1>3, <1>4, <1>5, AstStep

LEMMA RaiseKeeps ==
    ASSUME AstInv, Raise
    PROVE  AstInv'
<1>0. log \in Seq(LogRecords) /\ Len(log) \in Nat /\ DOMAIN calls = Calls
  BY DEF AstInv, AstTyped
<1>1. PICK s \in Severities : log' = Append(log, Alarm(s))
  BY DEF Raise
<1>2. Alarm(s) \in LogRecords /\ Alarm(s).kind # "ack"
  BY DEF Alarm, LogRecords
<1>3. UNCHANGED <<calls, shown, clipped>>
  BY DEF Raise
<1>4. LogGrows
  BY <1>1, <1>2, <1>3, LogGrown
<1>5. Len(log') = Len(log) + 1 /\ log'[Len(log) + 1] = Alarm(s)
  BY <1>0, <1>1, <1>2, AppendProperties
<1>6. \A k \in Len(log) + 1 .. Len(log') : log'[k].kind # "ack"
  BY <1>0, <1>2, <1>5
<1> QED
  BY <1>0, <1>3, <1>4, <1>6, AstStep

\* The assistant's calls up to the acknowledgement, and those about the settings.
LEMMA CallsKeep ==
    ASSUME AstInv, \/ ReadMark \/ AckReads \/ WebAckCounts \/ WebAckHead
                   \/ SettingsRead \/ SettingsPut \/ WebPut
    PROVE  AstInv'
<1>0. Len(log) \in Nat /\ UNCHANGED <<log, shown, clipped>>
  BY DEF AstInv, AstTyped, ReadMark, AckReads, WebAckCounts, WebAckHead, SettingsRead, SettingsPut,
         WebPut
<1>1. CallSeen(Over)
  BY DEF CallSeen, Over
<1>2. CASE ReadMark
  <2>1. PICK c, s, m :
          /\ c \in Calls /\ s \in Severities
          /\ m = Mark(s) /\ calls' = [calls EXCEPT ![c] = [at |-> "listing", severity |-> s, mark |-> m]]
    BY <1>2 DEF ReadMark
  <2> c \in Calls /\ s \in Severities BY <2>1
  <2>2. m \in 0 .. Len(log) /\ SeenUpTo(s, m)
    BY <2>1, MarkSeen
  <2>3. PICK call : call = [at |-> "listing", severity |-> s, mark |-> m]
    OBVIOUS
  <2>4. call.at = "listing" /\ call.severity = s /\ call.mark = m
    BY <2>3
  <2>5. CallSeen(call)
    BY <2>2, <2>4 DEF CallSeen
  <2> QED
    BY <1>0, <2>1, <2>3, <2>5, CallStep
<1>3. CASE AckReads
  <2>1. PICK c, s, upTo, call :
          /\ c \in Calls /\ s \in Severities
          /\ upTo \in shown[s]
          /\ call = Over \/ call = [at |-> "acking", severity |-> s, upTo |-> upTo]
          /\ calls' = [calls EXCEPT ![c] = call]
    BY <1>3 DEF AckReads
  <2> c \in Calls /\ s \in Severities BY <2>1
  <2>2. upTo \in 0 .. Len(log) /\ SeenUpTo(s, upTo)
    BY <1>0, <2>1 DEF AstInv, AstTyped
  <2>3. CallSeen(call)
    <3>1. CASE call = [at |-> "acking", severity |-> s, upTo |-> upTo]
      <4>1. call.at = "acking" /\ call.severity = s /\ call.upTo = upTo
        BY <3>1
      <4> QED
        BY <2>2, <4>1 DEF CallSeen
    <3> QED
      BY <1>1, <2>1, <3>1
  <2> QED
    BY <1>0, <2>1, <2>3, CallStep
<1>4. CASE WebAckCounts
  <2>1. PICK c, s, call :
          /\ c \in Calls /\ s \in Severities
          /\ call = Over \/ call = [at |-> "counted", severity |-> s]
          /\ calls' = [calls EXCEPT ![c] = call]
    BY <1>4 DEF WebAckCounts
  <2> c \in Calls /\ s \in Severities BY <2>1
  <2>2. CallSeen([at |-> "counted", severity |-> s])
    BY DEF CallSeen
  <2> QED
    BY <1>0, <1>1, <2>1, <2>2, CallStep
<1>5. CASE WebAckHead
  <2>1. PICK c \in Calls : calls[c].at = "counted" /\ calls' = [calls EXCEPT ![c] =
             [at |-> "webAcking", severity |-> calls[c].severity, upTo |-> Len(log)]]
    BY <1>5 DEF WebAckHead
  <2>2. PICK call : call = [at |-> "webAcking", severity |-> calls[c].severity, upTo |-> Len(log)]
    OBVIOUS
  <2>3. calls[c].severity \in Severities
    BY <2>1 DEF AstInv, CallSeen
  <2>4. CallSeen(call)
    BY <1>0, <2>2, <2>3 DEF CallSeen
  <2> QED
    BY <1>0, <2>1, <2>2, <2>4, CallStep
<1>6. CASE SettingsRead
  <2>1. PICK c, new, call :
          /\ c \in Calls
          /\ call = Over \/ call = [at |-> "putting", new |-> new]
          /\ calls' = [calls EXCEPT ![c] = call]
    BY <1>6 DEF SettingsRead
  <2> c \in Calls BY <2>1
  <2>2. CallSeen([at |-> "putting", new |-> new])
    BY DEF CallSeen
  <2> QED
    BY <1>0, <1>1, <2>1, <2>2, CallStep
<1>7. CASE SettingsPut \/ WebPut
  <2>1. PICK c \in Calls : calls' = [calls EXCEPT ![c] = Over]
    BY <1>7 DEF SettingsPut, WebPut
  <2> QED
    BY <1>0, <1>1, <2>1, CallStep
<1> QED
  BY <1>2, <1>3, <1>4, <1>5, <1>6, <1>7

\* A tool call begins, recorded or not.
LEMMA BeginToolKeeps ==
    ASSUME AstInv, BeginTool
    PROVE  AstInv'
<1>1. PICK c, tool, call :
        /\ c \in Calls /\ tool \in UNION {Tools(role) : role \in 1..3}
        /\ call = Over \/ call = [at |-> tool]
        /\ log' = log \/ log' = Append(log, [kind |-> "query"])
        /\ calls' = [calls EXCEPT ![c] = call]
  BY DEF BeginTool
<1> c \in Calls /\ tool \in UNION {Tools(role) : role \in 1..3} BY <1>1
<1>2. UNCHANGED <<shown, clipped>>
  BY DEF BeginTool
<1>3. tool \in {"list", "settings", "alarms"}
  BY DEF Tools, Scopes
<1>4. CallSeen(call)
  BY <1>1, <1>3 DEF CallSeen, Over
<1>5. PICK r : r = [kind |-> "query"]
  OBVIOUS
<1>6. r \in LogRecords /\ r.kind # "ack"
  BY <1>5 DEF LogRecords
<1>7. CASE log' = log
  BY <1>1, <1>2, <1>4, <1>7, CallStep
<1>8. CASE log' = Append(log, r)
  BY <1>1, <1>2, <1>4, <1>6, <1>8, RecordStep
<1> QED
  BY <1>1, <1>5, <1>7, <1>8

\* An acknowledgement is recorded.
LEMMA AcksKeep ==
    ASSUME AstInv, AckRecords \/ WebAckRecords
    PROVE  AstInv'
<1>1. PICK c \in Calls :
        /\ \/ calls[c].at = "acking" /\ log' = Append(log, Ack(calls[c].severity, calls[c].upTo, "mcp"))
           \/ calls[c].at = "webAcking" /\ log' = Append(log, Ack(calls[c].severity, calls[c].upTo, "web"))
        /\ calls' = [calls EXCEPT ![c] = Over]
  BY DEF AckRecords, WebAckRecords, McpAck
<1>2. UNCHANGED <<shown, clipped>>
  BY DEF AckRecords, WebAckRecords
<1>3. PICK s, n : s = calls[c].severity /\ n = calls[c].upTo
  OBVIOUS
<1>4. /\ s \in Severities /\ n \in 0 .. Len(log) /\ n \in Nat
      /\ calls[c].at = "acking" => SeenUpTo(s, n)
  BY <1>1, <1>3 DEF AstInv, CallSeen
<1>5. PICK via \in {"mcp", "web"} :
        log' = Append(log, Ack(s, n, via)) /\ (via = "mcp" => calls[c].at = "acking")
  BY <1>1, <1>3
<1>6. PICK r : r = Ack(s, n, via)
  OBVIOUS
<1>7. r \in LogRecords /\ r.severity = s /\ r.upTo = n /\ r.via = via
  BY <1>4, <1>6 DEF Ack, LogRecords
<1>8. CallSeen(Over)
  BY DEF CallSeen, Over
<1> QED
  BY <1>1, <1>2, <1>4, <1>5, <1>6, <1>7, <1>8, RecordStep

\* The alarms after the mark are shown.
LEMMA ListKeeps ==
    ASSUME AstInv, List
    PROVE  AstInv'
<1>0. AstTyped /\ Len(log) \in Nat /\ DOMAIN log = 1 .. Len(log)
  BY DEF AstInv, AstTyped
<1>1. PICK c, s, m, all :
        /\ c \in Calls
        /\ calls[c].at = "listing" /\ s = calls[c].severity /\ m = calls[c].mark
        /\ all = Alarms(s, m, Len(log))
        /\ shown' = [shown EXCEPT ![s] = @ \cup Newest(all)]
        /\ clipped' = (clipped \/ Newest(all) # all)
        /\ calls' = [calls EXCEPT ![c] = Over]
  BY DEF List
<1> c \in Calls BY <1>1
<1>2. log' = log
  BY DEF List
<1>3. s \in Severities /\ m \in 0 .. Len(log) /\ SeenUpTo(s, m)
  BY <1>1 DEF AstInv, CallSeen
<1>4. all \subseteq 1 .. Len(log) /\ Newest(all) \subseteq all
  BY <1>0, <1>1 DEF Alarms, Newest
<1>5. clipped' \in BOOLEAN /\ (clipped => clipped') /\ (~clipped' => ~clipped /\ Newest(all) = all)
  BY <1>1, Zenon
<1>6. /\ shown' \in [Severities -> SUBSET (1 .. Len(log'))]
      /\ shown'[s] = shown[s] \cup Newest(all)
      /\ \A t \in Severities : t # s => shown'[t] = shown[t]
  BY <1>0, <1>1, <1>2, <1>3, <1>4 DEF AstTyped
<1>7. LogGrows
  BY <1>0, <1>2, <1>5, <1>6 DEF LogGrows, AstTyped
<1>8. SeenUpTo(s, m)'
  BY <1>0, <1>3, <1>7, SeenGrows
<1>9. ASSUME NEW u \in Newest(all)
      PROVE  SeenUpTo(s, u)'
  <2>1. u \in 1 .. Len(log)
    BY <1>4
  <2> SUFFICES ASSUME ~clipped', NEW i \in Alarms(s, 0, u)'
               PROVE  SeenAlarm(s, i)'
    BY DEF SeenUpTo
  <2>2. i \in 1 .. Len(log) /\ log[i] = Alarm(s) /\ i <= u
    BY <1>0, <1>2 DEF Alarms, Alarm
  <2>3. CASE i <= m
    <3>1. i \in Alarms(s, 0, m)'
      BY <1>0, <1>2, <2>2, <2>3 DEF Alarms, Alarm
    <3> QED
      BY <1>8, <3>1 DEF SeenUpTo
  <2>4. CASE ~(i <= m)
    <3>1. i \in all
      BY <1>0, <1>1, <1>3, <2>1, <2>2, <2>4 DEF Alarms
    <3>2. i \in shown'[s]
      BY <1>5, <1>6, <3>1
    <3> QED
      BY <3>2 DEF SeenAlarm
  <2> QED
    BY <2>3, <2>4
<1>10. \A t \in Severities : \A u \in shown'[t] \ shown[t] : SeenUpTo(t, u)'
  <2> TAKE t \in Severities
  <2> TAKE u \in shown'[t] \ shown[t]
  <2>1. t = s /\ u \in Newest(all)
    BY <1>6
  <2> QED
    BY <1>9, <2>1
<1>11. DOMAIN calls' = Calls /\ \A d \in Calls : calls'[d] = calls[d] \/ CallSeen(calls[d])'
  <2>1. CallSeen(Over)'
    BY DEF CallSeen, Over
  <2>2. \A d \in Calls : calls'[d] = calls[d] \/ calls'[d] = Over
    BY <1>0, <1>1 DEF AstTyped
  <2> QED
    BY <1>0, <1>1, <2>1, <2>2 DEF AstTyped, CallSeen, Over
<1>12. \A k \in Len(log) + 1 .. Len(log') : FALSE
  BY <1>0, <1>2
<1> QED
  BY <1>7, <1>10, <1>11, <1>12, AstStep

LEMMA AstInvariance == AstSpec => []AstInv
<1>1. AstInit => AstInv
  <2> SUFFICES ASSUME AstInit PROVE AstInv
    OBVIOUS
  <2>1. log = <<>> /\ Len(log) = 0 /\ log \in Seq(LogRecords) /\ Acks = {}
    BY DEF AstInit, Acks
  <2>2. AstTyped
    BY <2>1 DEF AstInit, AstTyped
  <2>3. \A c \in Calls : CallSeen(calls[c])
    BY DEF AstInit, CallSeen, NotCalled
  <2>4. \A s \in Severities : shown[s] = {}
    BY DEF AstInit
  <2> QED
    BY <2>1, <2>2, <2>3, <2>4 DEF AstInv
<1>2. AstInv /\ [AstNext]_astVars => AstInv'
  <2> SUFFICES ASSUME AstInv, [AstNext]_astVars PROVE AstInv'
    OBVIOUS
  <2>1. CASE UNCHANGED astVars
    BY <2>1 DEF astVars, AstInv, AstTyped, CallSeen, SeenUpTo, SeenAlarm, Alarms, Acks
  <2> QED
    BY <2>1, RaiseKeeps, CallsKeep, BeginToolKeeps, AcksKeep, ListKeeps DEF AstNext
<1> QED
  BY <1>1, <1>2, PTL DEF AstSpec

(***************************************************************************)
(* What an assistant acknowledges was shown to its user, or had been       *)
(* acknowledged in the web UI, unless an answer left alarms out            *)
(* (mcp.rs, acknowledge_alarms and unacknowledged).                        *)
(***************************************************************************)
THEOREM NothingAcknowledgedUnseen == AstSpec => []AcknowledgedWereSeen
<1>1. AstInv => AcknowledgedWereSeen
  BY DEF AstInv, AcknowledgedWereSeen, SeenUpTo, SeenAlarm
<1> QED
  BY <1>1, AstInvariance, PTL

\* Type correctness of the assistant's part: its settings are ones that can be set, what was
\* shown is in the trail, and a call is at one of its stages: mcp.rs, web/settings.rs.
THEOREM AssistantTyped == AstSpec => []AstTypeOK
<1> DEFINE Stages == {"unused", "over", "list", "listing", "alarms", "acking", "counted",
                      "webAcking", "settings", "putting"}
           Set == /\ settings \in Settings
                  /\ \A c \in Calls : calls[c].at \in Stages
                  /\ \A c \in Calls : calls[c].at = "putting" => calls[c].new \in Settings
<1>1. AstInit => Set
  <2> SUFFICES ASSUME AstInit PROVE Set
    OBVIOUS
  <2>1. settings \in Settings
    BY DEF AstInit, Settings, Modes, Retentions
  <2>2. \A c \in Calls : calls[c].at = "unused"
    BY DEF AstInit, NotCalled
  <2> QED
    BY <2>1, <2>2
<1>2. ASSUME Set, AstTyped, settings' \in Settings, NEW c \in Calls, NEW r, calls' = [calls EXCEPT ![c] = r],
             r.at \in Stages, r.at = "putting" => r.new \in Settings
      PROVE  Set'
  <2>1. \A d \in Calls : calls'[d] = IF d = c THEN r ELSE calls[d]
    BY <1>2 DEF AstTyped
  <2> QED
    BY <1>2, <2>1
<1>3. AstInv /\ Set /\ [AstNext]_astVars => Set'
  <2> SUFFICES ASSUME AstInv, Set, [AstNext]_astVars PROVE Set'
    OBVIOUS
  <2>0. AstTyped
    BY DEF AstInv
  <2>1. CASE Raise \/ UNCHANGED astVars
    BY <2>1 DEF Raise, astVars
  <2>2. CASE BeginTool
    <3>1. PICK c \in Calls, tool \in UNION {Tools(role) : role \in 1..3}, stored \in {TRUE, FALSE} :
            /\ calls' = [calls EXCEPT ![c] =
                 IF ~stored /\ settings.mode = "closed" THEN Over ELSE [at |-> tool]]
            /\ settings' = settings
      BY <2>2 DEF BeginTool
    <3>2. tool \in {"list", "settings", "alarms"}
      BY DEF Tools, Scopes
    <3>3. PICK r : r = IF ~stored /\ settings.mode = "closed" THEN Over ELSE [at |-> tool]
      OBVIOUS
    <3>4. r.at \in Stages /\ r.at # "putting"
      BY <3>2, <3>3 DEF Over
    <3> QED
      BY <1>2, <2>0, <3>1, <3>3, <3>4
  <2>3. CASE ReadMark \/ List \/ AckReads \/ AckRecords \/ WebAckCounts \/ WebAckHead \/ WebAckRecords
    <3>1. PICK c \in Calls : /\ settings' = settings
                            /\ \E r : /\ r.at \in Stages /\ r.at # "putting"
                                     /\ calls' = [calls EXCEPT ![c] = r]
      BY <2>3 DEF ReadMark, List, AckReads, AckRecords, WebAckCounts, WebAckHead, WebAckRecords, Over
    <3> QED
      BY <1>2, <2>0, <3>1
  <2>4. CASE SettingsRead
    <3>1. PICK c \in Calls, days \in AtMostOne(Retentions), mode \in AtMostOne(Modes) :
            /\ calls' = [calls EXCEPT ![c] =
                 IF MayChange(settings, days, mode)
                 THEN [at |-> "putting", new |-> Overlay(settings, days, mode)] ELSE Over]
            /\ settings' = settings
      BY <2>4 DEF SettingsRead
    <3>2. /\ \E m \in Modes : IF mode = {} THEN m = settings.mode ELSE m \in mode
          /\ \E d \in Retentions : IF days = {} THEN d = settings.days ELSE d \in days
      BY DEF AtMostOne, Settings
    <3>3. Overlay(settings, days, mode) \in Settings
      BY <3>2 DEF Overlay, Settings
    <3>4. PICK r : r = IF MayChange(settings, days, mode)
                     THEN [at |-> "putting", new |-> Overlay(settings, days, mode)] ELSE Over
      OBVIOUS
    <3>5. r.at \in Stages /\ (r.at = "putting" => r.new \in Settings)
      BY <3>3, <3>4 DEF Over
    <3> QED
      BY <1>2, <2>0, <3>1, <3>4, <3>5
  <2>5. CASE SettingsPut \/ WebPut
    <3>1. PICK c \in Calls : calls' = [calls EXCEPT ![c] = Over] /\ settings' \in Settings
      BY <2>5 DEF SettingsPut, WebPut
    <3> QED
      BY <1>2, <2>0, <3>1 DEF Over
  <2> QED
    BY <2>1, <2>2, <2>3, <2>4, <2>5 DEF AstNext
<1>4. AstInv /\ Set => AstTypeOK
  BY DEF AstInv, AstTyped, AstTypeOK
<1> QED
  BY <1>1, <1>3, <1>4, AstInvariance, PTL DEF AstSpec
===============================================================================
