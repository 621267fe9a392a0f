----------------------------- MODULE ForwardProofs ----------------------------
(***************************************************************************)
(* Proofs about Forward, for any number of requests, items and limits, and *)
(* whatever the store, the channel, the client and the settings do: the    *)
(* fail-closed guarantee, true outcomes and old values, the order of       *)
(* requests, writes counted once, and changes recorded.                    *)
(***************************************************************************)
EXTENDS Forward, TLAPS, SequenceTheorems

Message == [op : {"read", "change"}, req : Requests]
Entry == [req : Requests, late : BOOLEAN]
Early == {"new", "pushed", "intent"}
States == Early \cup {"sent", "recording", "done", "dropped"}

OnWire(r) == \E k \in DOMAIN wire : wire[k] = [op |-> "change", req |-> r]
\* The change of r reached the channel, and perhaps the server.
Out(r) == OnWire(r) \/ \E c \in applied : c.req = r

Typed ==
    /\ fail_closed \in BOOLEAN
    /\ st \in [Requests -> States]
    /\ fc \in [Requests -> BOOLEAN]
    /\ taken \in [Requests -> SUBSET Items]
    /\ wire \in Seq(Message)

\* A request is on the channel only behind its first poll and its intent, and a
\* request that is held in fail-closed mode only with the intent in the trail.
BehindIntent ==
    \A r \in Requests : Out(r) => st[r] \notin Early /\ (Held(r) => Intent(r) \in trail)

\* The server changes only what the request names.
Asked == \A c \in applied : c.req \in Requests /\ c.item \in Touches[c.req]

IntentInv == Typed /\ BehindIntent /\ Asked

USE ForwardAssumption DEF ForwardAssumption
-------------------------------------------------------------------------------
\* The invariant gives the guarantee: a change the server applied is on the channel or
\* behind it, and the intent of its request names every item that is not summarised.
LEMMA IntentInvGivesIntentFirst == IntentInv => IntentFirst
<1> SUFFICES ASSUME IntentInv,
                    NEW c \in applied, fc[c.req], c.item \notin taken[c.req]
             PROVE  \E t \in trail : t.what = "intent" /\ t.req = c.req /\ c.item \in t.items
    BY DEF IntentFirst
<1>1. c.req \in Requests /\ c.item \in Touches[c.req] BY DEF IntentInv, Asked
<1>2. Out(c.req) BY DEF Out
<1>3. Held(c.req) BY <1>1 DEF Held
<1>4. Intent(c.req) \in trail BY <1>1, <1>2, <1>3 DEF IntentInv, BehindIntent
<1> QED BY <1>1, <1>4 DEF Intent

\* Whatever sends nothing, keeps the copies of the settings and forgets no record
\* preserves the invariant: every action but Poll, Forwarded and Handle.
LEMMA SendsNothing ==
    ASSUME IntentInv, Typed', Asked',
           fc' = fc, taken' = taken, trail \subseteq trail',
           \A r \in Requests : Out(r)' => Out(r),
           \A r \in Requests : st[r] \notin Early => st'[r] \notin Early
    PROVE  IntentInv'
<1> SUFFICES ASSUME NEW r \in Requests, Out(r)'
             PROVE  st'[r] \notin Early /\ (Held(r)' => Intent(r)' \in trail')
    BY DEF IntentInv, BehindIntent
<1>1. Out(r) OBVIOUS
<1>2. st[r] \notin Early /\ (Held(r) => Intent(r) \in trail) BY <1>1 DEF IntentInv, BehindIntent
<1>3. Held(r)' = Held(r) BY DEF Held
<1>4. Intent(r)' = Intent(r) BY DEF Intent
<1> QED BY <1>2, <1>3, <1>4

\* A step of forward that touches neither the channel nor the server.
LEMMA OnlyFuture ==
    ASSUME IntentInv, fail_closed' \in BOOLEAN, wire' = wire, applied' = applied, st' \in [Requests -> States],
           fc' = fc, taken' = taken, trail \subseteq trail',
           \A r \in Requests : st[r] \notin Early => st'[r] \notin Early
    PROVE  IntentInv'
<1>1. \A r \in Requests : Out(r)' => Out(r) BY DEF Out, OnWire
<1>2. Typed' BY DEF IntentInv, Typed
<1>3. Asked' BY DEF IntentInv, Asked
<1> QED BY <1>1, <1>2, <1>3, SendsNothing

\* Putting the change of r on the channel lets nothing else out.
LEMMA SendFacts ==
    ASSUME IntentInv, NEW r \in Requests, NEW kept, NEW asks \in BOOLEAN,
           Send(r, kept, asks), applied' = applied
    PROVE  /\ st' \in [Requests -> States] /\ wire' \in Seq(Message)
           /\ st'[r] \notin Early
           /\ \A q \in Requests \ {r} : st'[q] = st[q] /\ (Out(q)' => Out(q))
<1> DEFINE R == [op |-> "read", req |-> r]
           C == [op |-> "change", req |-> r]
<1>0. st \in [Requests -> States] /\ wire \in Seq(Message) BY DEF IntentInv, Typed
<1>1. CASE /\ upstream = "up"
           /\ st' = [st EXCEPT ![r] = "sent"]
           /\ wire' = wire \o (IF asks THEN <<R>> ELSE << >>) \o <<C>>
  <2>1. R \in Message /\ C \in Message BY DEF Message
  <2>2. PICK s \in {<<R, C>>, <<C>>} : wire' = wire \o s
    <3>1. CASE asks
      <4>1. wire' = (wire \o <<R>>) \o <<C>> BY <1>1, <3>1
      <4> QED BY <4>1, <2>1, <1>0
    <3>2. CASE ~asks
      <4>1. wire' = (wire \o << >>) \o <<C>> BY <1>1, <3>2
      <4> QED BY <4>1, <2>1, <1>0
    <3> QED BY <3>1, <3>2
  <2> HIDE DEF R, C
  <2>3. s \in Seq(Message) /\ \A k \in DOMAIN s : s[k] \in {R, C}
    <3>1. CASE s = <<C>> BY <2>1, <3>1
    <3>2. CASE s = <<R, C>> BY <2>1, <3>2
    <3> QED BY <2>2, <3>1, <3>2
  <2>4. wire' \in Seq(Message) BY <2>2, <2>3, <1>0
  <2>5. \A k \in DOMAIN wire' : (k \in DOMAIN wire /\ wire'[k] = wire[k]) \/ wire'[k] \in {R, C}
    <3>1. ASSUME NEW k \in 1..(Len(wire) + Len(s))
          PROVE  (k \in 1..Len(wire) /\ (wire \o s)[k] = wire[k]) \/ (wire \o s)[k] \in {R, C}
      <4>1. CASE k <= Len(wire) BY <3>1, <4>1, <2>3, <1>0
      <4>2. CASE k > Len(wire)
        <5>1. (wire \o s)[k] = s[k - Len(wire)] BY <4>2, <2>3, <1>0
        <5>2. k - Len(wire) \in 1..Len(s) BY <4>2, <2>3, <1>0
        <5> QED BY <5>1, <5>2, <2>3
      <4> QED BY <4>1, <4>2, <1>0
    <3>2. DOMAIN wire' = 1..(Len(wire) + Len(s)) /\ DOMAIN wire = 1..Len(wire) BY <2>2, <2>3, <1>0
    <3> QED BY <3>1, <3>2, <2>2
  <2>6. \A q \in Requests \ {r} : OnWire(q)' => OnWire(q) BY <2>5 DEF OnWire, R, C
  <2>7. \A q \in Requests \ {r} : Out(q)' => Out(q) BY <2>6 DEF Out
  <2> QED BY <1>0, <1>1, <2>4, <2>7 DEF Early, States
<1>2. CASE wire' = wire /\ st' = [st EXCEPT ![r] = "recording"]
  <2>1. \A q \in Requests : Out(q)' => Out(q) BY <1>2 DEF Out, OnWire
  <2> QED BY <1>0, <1>2, <2>1 DEF Early, States
<1> QED BY <1>1, <1>2 DEF Send, Returned
-------------------------------------------------------------------------------
\* The first poll sends only what needs no intent.
LEMMA PollKeeps == ASSUME IntentInv, NEW r \in Requests, Poll(r) PROVE IntentInv'
<1>0. /\ st \in [Requests -> States] /\ wire \in Seq(Message)
      /\ fc \in [Requests -> BOOLEAN] /\ taken \in [Requests -> SUBSET Items]
    BY DEF IntentInv, Typed
<1> DEFINE kept == Touches[r] \ summarise
<1>1. PICK asks \in BOOLEAN :
        IF kept # {} /\ fail_closed
        THEN st' = [st EXCEPT ![r] = "intent"] /\ UNCHANGED <<wire, order, status, left>>
        ELSE Send(r, kept, asks)
    BY DEF Poll
<1>2. /\ taken' = [taken EXCEPT ![r] = Touches[r] \cap summarise]
      /\ fc' = [fc EXCEPT ![r] = fail_closed]
      /\ applied' = applied /\ trail' = trail /\ st[r] = "pushed"
    BY DEF Poll, server, FirstInLine
<1>3. ~Out(r) BY <1>2 DEF IntentInv, BehindIntent, Early
<1>4. /\ st' \in [Requests -> States] /\ wire' \in Seq(Message)
      /\ \A q \in Requests \ {r} : st'[q] = st[q] /\ (Out(q)' => Out(q))
      /\ Out(r)' => st'[r] \notin Early /\ ~(kept # {} /\ fail_closed)
  <2>1. CASE kept # {} /\ fail_closed
    <3>1. st' = [st EXCEPT ![r] = "intent"] /\ wire' = wire BY <1>1, <2>1
    <3>2. \A q \in Requests : Out(q)' => Out(q) BY <3>1, <1>2 DEF Out, OnWire
    <3> QED BY <1>0, <1>3, <3>1, <3>2 DEF Early, States
  <2>2. CASE ~(kept # {} /\ fail_closed)
    <3>1. Send(r, kept, asks) BY <1>1, <2>2
    <3> HIDE DEF kept
    <3> QED BY <2>2, <3>1, <1>2, SendFacts
  <2> QED BY <2>1, <2>2
<1>5. Typed'
  <2>1. fail_closed \in BOOLEAN /\ fail_closed' = fail_closed BY DEF IntentInv, Typed, Poll, settings
  <2>2. fc' \in [Requests -> BOOLEAN] BY <1>0, <1>2, <2>1
  <2>3. taken' \in [Requests -> SUBSET Items] BY <1>0, <1>2
  <2> QED BY <1>4, <2>1, <2>2, <2>3 DEF Typed
<1>6. ASSUME NEW q \in Requests, Out(q)'
      PROVE  st'[q] \notin Early /\ (Held(q)' => Intent(q)' \in trail')
  <2>1. CASE q = r
    <3>1. st'[r] \notin Early /\ ~(kept # {} /\ fail_closed) BY <1>4, <1>6, <2>1
    <3>2. fc'[r] = fail_closed /\ taken'[r] = Touches[r] \cap summarise BY <1>0, <1>2
    <3>3. kept = {} => Touches[r] = taken'[r] BY <3>2
    <3> QED BY <2>1, <3>1, <3>2, <3>3 DEF Held
  <2>2. CASE q # r
    <3>1. st'[q] = st[q] /\ Out(q) BY <1>4, <1>6, <2>2
    <3>2. fc'[q] = fc[q] /\ taken'[q] = taken[q] BY <1>0, <1>2, <2>2
    <3>3. Held(q)' = Held(q) /\ Intent(q)' = Intent(q) BY <3>2 DEF Held, Intent
    <3> QED BY <1>2, <3>1, <3>3 DEF IntentInv, BehindIntent
  <2> QED BY <2>1, <2>2
<1>7. Asked' BY <1>2 DEF IntentInv, Asked
<1> QED BY <1>5, <1>6, <1>7 DEF IntentInv, BehindIntent

\* A held request is sent in the step that finds its intent committed.
LEMMA ForwardedKeeps == ASSUME IntentInv, NEW r \in Requests, Forwarded(r) PROVE IntentInv'
<1>1. /\ st[r] = "intent" /\ trail' = trail \cup {Intent(r)}
      /\ fc' = fc /\ taken' = taken /\ applied' = applied /\ fail_closed' = fail_closed
    BY DEF Forwarded, Acknowledged, settings, server
<1> DEFINE kept == Touches[r] \ taken[r]
           asks == reading[r] = "asked"
<1>2. Send(r, kept, asks) /\ asks \in BOOLEAN BY DEF Forwarded
<1>3. ~Out(r) BY <1>1 DEF IntentInv, BehindIntent, Early
<1>4. /\ st' \in [Requests -> States] /\ wire' \in Seq(Message)
      /\ st'[r] \notin Early
      /\ \A q \in Requests \ {r} : st'[q] = st[q] /\ (Out(q)' => Out(q))
  <2> HIDE DEF kept, asks
  <2> QED BY <1>1, <1>2, SendFacts
<1>5. \A q \in Requests : Held(q)' = Held(q) /\ Intent(q)' = Intent(q) BY <1>1 DEF Held, Intent
<1>6. BehindIntent' BY <1>1, <1>4, <1>5 DEF IntentInv, BehindIntent
<1>7. Typed' BY <1>1, <1>4 DEF IntentInv, Typed
<1>8. Asked' BY <1>1 DEF IntentInv, Asked
<1> QED BY <1>6, <1>7, <1>8 DEF IntentInv

\* The server takes a message from the channel: what it changes was asked for.
LEMMA ServeKeeps == ASSUME IntentInv, Serve PROVE IntentInv'
<1> DEFINE m == Head(wire)
<1>1. /\ wire \in Seq(Message) /\ wire # << >> /\ wire' = Tail(wire)
      /\ st' = st /\ fc' = fc /\ taken' = taken /\ trail' = trail /\ fail_closed' = fail_closed
    BY DEF Serve, IntentInv, Typed, futures, settings
<1>2. /\ m \in Message /\ m = wire[1] /\ 1 \in DOMAIN wire /\ wire' \in Seq(Message)
      /\ \A k \in DOMAIN wire' : k + 1 \in DOMAIN wire /\ wire'[k] = wire[k + 1]
    BY <1>1
<1>3. \A c \in applied' : \/ c \in applied
                          \/ m.op = "change" /\ c.req = m.req /\ c.item \in Touches[m.req]
  <2>1. CASE m.op = "read" BY <2>1 DEF Serve, server
  <2>2. CASE m.op # "read"
    <3>1. PICK good \in SUBSET Touches[m.req] :
            applied' = applied \cup {[req |-> m.req, item |-> i, was |-> value[i]] : i \in good}
      BY <2>2 DEF Serve
    <3>2. m.op = "change" BY <1>2, <2>2 DEF Message
    <3> QED BY <3>1, <3>2
  <2> QED BY <2>1, <2>2
<1>4. m.op = "change" => m = [op |-> "change", req |-> m.req] BY <1>2 DEF Message
<1>5. m.req \in Requests BY <1>2 DEF Message
<1>6. \A r \in Requests : Out(r)' => Out(r)
  <2> SUFFICES ASSUME NEW r \in Requests, Out(r)' PROVE Out(r) OBVIOUS
  <2>1. CASE OnWire(r)' BY <1>2, <2>1 DEF Out, OnWire
  <2>2. CASE \E c \in applied' : c.req = r
    <3>1. PICK c \in applied' : c.req = r BY <2>2
    <3>2. CASE c \in applied BY <3>1, <3>2 DEF Out
    <3>3. CASE m.op = "change" /\ c.req = m.req
      <4>1. wire[1] = [op |-> "change", req |-> r] BY <1>2, <1>4, <3>1, <3>3
      <4> QED BY <1>2, <4>1 DEF Out, OnWire
    <3> QED BY <1>3, <3>1, <3>2, <3>3
  <2> QED BY <2>1, <2>2 DEF Out
<1>7. Asked' BY <1>3, <1>5 DEF IntentInv, Asked
<1>8. Typed' BY <1>1, <1>2 DEF IntentInv, Typed
<1> QED BY <1>1, <1>6, <1>7, <1>8, SendsNothing

\* A broken channel loses the last messages only.
LEMMA UpstreamLostKeeps == ASSUME IntentInv, UpstreamLost PROVE IntentInv'
<1>1. /\ wire \in Seq(Message) /\ applied' = applied
      /\ st' = st /\ fc' = fc /\ taken' = taken /\ trail' = trail /\ fail_closed' = fail_closed
    BY DEF UpstreamLost, IntentInv, Typed, futures, settings, server
<1>2. PICK n \in 0..Len(wire) : wire' = SubSeq(wire, 1, n) BY DEF UpstreamLost
<1>3. /\ wire' \in Seq(Message)
      /\ \A k \in DOMAIN wire' : k \in DOMAIN wire /\ wire'[k] = wire[k]
    BY <1>1, <1>2, SubSeqProperties
<1>4. \A r \in Requests : Out(r)' => Out(r) BY <1>1, <1>3 DEF Out, OnWire
<1>5. Typed' BY <1>1, <1>3 DEF IntentInv, Typed
<1>6. Asked' BY <1>1 DEF IntentInv, Asked
<1> QED BY <1>1, <1>4, <1>5, <1>6, SendsNothing
-------------------------------------------------------------------------------
\* Nothing has been sent or applied when the connection is accepted.
LEMMA IntentInvInit == Init => IntentInv
<1> SUFFICES ASSUME Init PROVE IntentInv OBVIOUS
<1>1. Typed BY DEF Init, Typed, States, Early
<1>2. \A r \in Requests : ~Out(r) BY DEF Init, Out, OnWire
<1>3. applied = {} BY DEF Init
<1> QED BY <1>1, <1>2, <1>3 DEF IntentInv, BehindIntent, Asked

\* One step per action of the connection, the server, the accept loop and the settings.
LEMMA IntentInvStep == IntentInv /\ [Next]_vars => IntentInv'
<1> SUFFICES ASSUME IntentInv, [Next]_vars PROVE IntentInv' OBVIOUS
<1>0. st \in [Requests -> States] /\ fail_closed \in BOOLEAN BY DEF IntentInv, Typed
<1>1. ASSUME NEW r \in Requests, Handle(r) PROVE IntentInv'
    BY <1>0, <1>1, OnlyFuture DEF Handle, settings, server, States, Early
<1>2. ASSUME NEW r \in Requests, Poll(r) PROVE IntentInv' BY <1>2, PollKeeps
<1>3. ASSUME NEW r \in Requests, Forwarded(r) PROVE IntentInv' BY <1>3, ForwardedKeeps
<1>4. ASSUME NEW r \in Requests, Rejected(r) PROVE IntentInv'
    BY <1>0, <1>4, OnlyFuture DEF Rejected, Acknowledged, settings, channel, server, States, Early
<1>5. ASSUME NEW r \in Requests, ReadFailed(r) PROVE IntentInv'
    BY <1>0, <1>5, OnlyFuture DEF ReadFailed, settings, channel, server
<1>6. ASSUME NEW r \in Requests, NoResponse(r) PROVE IntentInv'
    BY <1>0, <1>6, OnlyFuture DEF NoResponse, Returned, settings, channel, server, States, Early
<1>7. ASSUME NEW r \in Requests, Respond(r) PROVE IntentInv'
    BY <1>0, <1>7, OnlyFuture DEF Respond, settings, channel, server, States, Early
<1>8. ASSUME NEW r \in Requests, NEW i \in Items, Count(r, i) PROVE IntentInv'
    BY <1>0, <1>8, OnlyFuture DEF Count, Recorded, settings, channel, server
<1>9. ASSUME NEW r \in Requests, NEW i \in Items, RecordOutcome(r, i) PROVE IntentInv'
    BY <1>0, <1>9, OnlyFuture DEF RecordOutcome, Recorded, settings, channel, server
<1>10. ASSUME NEW a \in answers, Answered(a) PROVE IntentInv'
    BY <1>0, <1>10, OnlyFuture DEF Answered, Returned, settings, server, States, Early
<1>11. ASSUME NEW a \in answers, ReadAnswered(a) PROVE IntentInv'
    BY <1>0, <1>11, OnlyFuture DEF ReadAnswered, settings, server
<1>12. ASSUME Serve PROVE IntentInv' BY <1>12, ServeKeeps
<1>13. ASSUME UpstreamLost PROVE IntentInv' BY <1>13, UpstreamLostKeeps
<1>14. ASSUME LossNoticed PROVE IntentInv'
    BY <1>0, <1>14, OnlyFuture DEF LossNoticed, settings, futures, server
<1>15. ASSUME Close PROVE IntentInv'
    BY <1>0, <1>15, OnlyFuture DEF Close, settings, futures, channel, server
<1>16. ASSUME Leave PROVE IntentInv'
    BY <1>0, <1>16, OnlyFuture DEF Leave, settings, channel, server, States, Early
<1>17. ASSUME DrainTimeout PROVE IntentInv'
    BY <1>0, <1>17, OnlyFuture DEF DrainTimeout, settings, futures, server
<1>18. ASSUME CloseTimeout PROVE IntentInv'
    BY <1>0, <1>18, OnlyFuture DEF CloseTimeout, settings, channel, server, States, Early
<1>19. ASSUME Drained \/ Stopped \/ Shutdown PROVE IntentInv'
    BY <1>0, <1>19, OnlyFuture DEF Drained, Stopped, Shutdown, settings, futures, channel, server
<1>20. ASSUME Gone PROVE IntentInv'
    BY <1>0, <1>20, OnlyFuture DEF Gone, settings, futures, server
<1>21. ASSUME SummaryDue \/ StopServing PROVE IntentInv'
    BY <1>0, <1>21, OnlyFuture DEF SummaryDue, StopServing, settings, futures, channel, server
<1>22. ASSUME Exit PROVE IntentInv'
    BY <1>0, <1>22, OnlyFuture DEF Exit, settings, server, States, Early
<1>23. ASSUME NEW h, RecordSummary(h) PROVE IntentInv'
    BY <1>0, <1>23, OnlyFuture DEF RecordSummary, Recorded, settings, futures, channel, server
<1>24. ASSUME SetFailMode \/ SetSummarise PROVE IntentInv'
    BY <1>0, <1>24, OnlyFuture DEF SetFailMode, SetSummarise, futures, channel, server
<1>25. ASSUME UNCHANGED vars PROVE IntentInv'
    BY <1>0, <1>25, OnlyFuture DEF vars, settings, futures, channel, server
<1> QED
    BY <1>1, <1>2, <1>3, <1>4, <1>5, <1>6, <1>7, <1>8, <1>9, <1>10, <1>11, <1>12, <1>13, <1>14,
       <1>15, <1>16, <1>17, <1>18, <1>19, <1>20, <1>21, <1>22, <1>23, <1>24, <1>25
    DEF Next, Future

\* The fail-closed guarantee of forward: for any number of requests, items and limits, and
\* whatever the store, the channel, the client and the settings do, the server applies no
\* change of a request forwarded in fail-closed mode without a committed intent naming it.
THEOREM ChangesFollowIntents == Spec => []IntentFirst
<1>1. Init => IntentInv BY IntentInvInit
<1>2. IntentInv /\ [Next]_vars => IntentInv' BY IntentInvStep
<1>3. IntentInv => IntentFirst BY IntentInvGivesIntentFirst
<1> QED BY <1>1, <1>2, <1>3, PTL DEF Spec
-------------------------------------------------------------------------------
(* The types of the connection's state.                                    *)

Answer == [op : {"read"}, req : Requests, values : SUBSET WasValue]
          \cup [op : {"change"}, req : Requests, good : SUBSET Items, fault : BOOLEAN]
IntentRecord == [what : {"intent"}, req : Requests, items : SUBSET Items]
OutcomeRecord == [what : {"outcome"}, req : Requests, item : Items, status : Statuses,
                  old : SUBSET WasValue]
SummaryRecord == [what : {"summary"}, writes : SUBSET Write]
Record == IntentRecord \cup OutcomeRecord \cup SummaryRecord
Holders == {"conn", "serve"}

SettingsTyped == fail_closed \in BOOLEAN /\ summarise \subseteq Noisy
PlanTyped ==
    /\ fc \in [Requests -> BOOLEAN] /\ taken \in [Requests -> SUBSET Items]
    /\ reading \in [Requests -> {"no", "asked", "over"}] /\ old \in [Requests -> SUBSET WasValue]
ProgressTyped ==
    /\ st \in [Requests -> States]
    /\ status \in [Requests -> [Items -> Statuses]] /\ left \in [Requests -> SUBSET Items]
ChannelTyped == wire \in Seq(Message) /\ order \in Seq(Entry)
ServerTyped ==
    /\ answers \subseteq Answer
    /\ value \in [Items -> Values] /\ applied \subseteq [req : Requests, item : Items, was : Values]
TasksTyped ==
    /\ upstream \in {"none", "up", "dying", "closed"}
    /\ conn \in {"open", "closing", "drain", "forced", "summing", "gone"}
    /\ shutdown \in BOOLEAN /\ serve \in {"serving", "stopping", "stopped"}
TrailTyped == ignored \subseteq Write /\ holding \in [Holders -> SUBSET Write] /\ trail \subseteq Record
AllTyped == /\ SettingsTyped /\ PlanTyped /\ ProgressTyped /\ ChannelTyped /\ ServerTyped
            /\ TasksTyped /\ TrailTyped

\* The parts together are the type invariant.
LEMMA PartsGiveTypeOK == AllTyped => TypeOK
<1> SUFFICES ASSUME AllTyped PROVE TypeOK OBVIOUS
<1>1. /\ fail_closed \in BOOLEAN /\ summarise \subseteq Noisy
      /\ st \in [Requests -> {"new", "pushed", "intent", "sent", "recording", "done", "dropped"}]
      /\ fc \in [Requests -> BOOLEAN]
      /\ taken \in [Requests -> SUBSET Items]
      /\ reading \in [Requests -> {"no", "asked", "over"}]
      /\ old \in [Requests -> SUBSET WasValue]
      /\ status \in [Requests -> [Items -> Statuses]]
      /\ left \in [Requests -> SUBSET Items]
    BY DEF AllTyped, SettingsTyped, PlanTyped, ProgressTyped, States, Early
<1>2. /\ wire \in Seq([op : {"read", "change"}, req : Requests])
      /\ order \in Seq([req : Requests, late : BOOLEAN])
      /\ answers \subseteq [op : {"read"}, req : Requests, values : SUBSET WasValue]
                   \cup [op : {"change"}, req : Requests, good : SUBSET Items, fault : BOOLEAN]
    BY DEF AllTyped, ChannelTyped, ServerTyped, Message, Entry, Answer
<1>3. /\ value \in [Items -> Values] /\ applied \subseteq [req : Requests, item : Items, was : Values]
      /\ upstream \in {"none", "up", "dying", "closed"}
      /\ conn \in {"open", "closing", "drain", "forced", "summing", "gone"}
      /\ shutdown \in BOOLEAN /\ serve \in {"serving", "stopping", "stopped"}
      /\ ignored \subseteq Write /\ holding \in [{"conn", "serve"} -> SUBSET Write]
    BY DEF AllTyped, ServerTyped, TasksTyped, TrailTyped, Holders
<1>4. trail \subseteq IntentRecord \cup OutcomeRecord \cup SummaryRecord
    BY DEF AllTyped, TrailTyped, Record
<1> HIDE ForwardAssumption DEF ForwardAssumption
<1> QED BY <1>1, <1>2, <1>3, <1>4 DEF TypeOK, IntentRecord, OutcomeRecord, SummaryRecord

LEMMA TypedInit == Init => AllTyped
<1> SUFFICES ASSUME Init PROVE AllTyped OBVIOUS
<1>1. SettingsTyped BY DEF Init, SettingsTyped
<1>2. PlanTyped BY DEF Init, PlanTyped
<1>3. ProgressTyped BY DEF Init, ProgressTyped, Statuses, States, Early
<1>4. ChannelTyped BY DEF Init, ChannelTyped
<1>5. ServerTyped BY DEF Init, ServerTyped, Values
<1>6. TasksTyped BY DEF Init, TasksTyped
<1>7. TrailTyped BY DEF Init, TrailTyped, Holders
<1> QED BY <1>1, <1>2, <1>3, <1>4, <1>5, <1>6, <1>7 DEF AllTyped

\* What a request leaves to be recorded are items it names.
LEMMA ReturnedTypes ==
    ASSUME AllTyped, NEW r \in Requests, NEW kept, NEW s \in [Items -> Statuses], NEW failed \in BOOLEAN,
           Returned(r, kept, s, failed)
    PROVE  ProgressTyped'
<1>1. PICK L \in Sampled(r, kept, failed) : left' = [left EXCEPT ![r] = L] BY DEF Returned
<1>2. L \subseteq Touches[r] BY <1>1 DEF Sampled
<1>3. Touches[r] \subseteq Items OBVIOUS
<1> QED BY <1>1, <1>2, <1>3 DEF AllTyped, ProgressTyped, Returned, States

LEMMA SendTypes ==
    ASSUME AllTyped, NEW r \in Requests, NEW kept, NEW asks \in BOOLEAN, Send(r, kept, asks)
    PROVE  ProgressTyped' /\ ChannelTyped'
<1>0. wire \in Seq(Message) /\ order \in Seq(Entry) BY DEF AllTyped, ChannelTyped
<1>1. CASE /\ upstream = "up" /\ st' = [st EXCEPT ![r] = "sent"]
           /\ wire' = wire \o (IF asks THEN <<[op |-> "read", req |-> r]>> ELSE << >>)
                           \o <<[op |-> "change", req |-> r]>>
           /\ order' = Append(order, [req |-> r, late |-> Draining]) /\ UNCHANGED <<status, left>>
  <2>1. ProgressTyped' BY <1>1 DEF AllTyped, ProgressTyped, States
  <2>2. order' \in Seq(Entry)
    <3>1. [req |-> r, late |-> Draining] \in Entry BY DEF Entry, Draining
    <3> QED BY <1>0, <1>1, <3>1
  <2>3. wire' \in Seq(Message)
    <3>1. [op |-> "read", req |-> r] \in Message /\ [op |-> "change", req |-> r] \in Message BY DEF Message
    <3>2. CASE asks BY <1>0, <1>1, <3>1, <3>2
    <3>3. CASE ~asks BY <1>0, <1>1, <3>1, <3>3
    <3> QED BY <3>2, <3>3
  <2> QED BY <2>1, <2>2, <2>3 DEF ChannelTyped
<1>2. CASE /\ \/ Returned(r, kept, All("Bad"), TRUE) \/ Returned(r, kept, All("Uncertain"), FALSE)
           /\ UNCHANGED <<wire, order>>
  <2>1. All("Bad") \in [Items -> Statuses] /\ All("Uncertain") \in [Items -> Statuses] BY DEF All, Statuses
  <2>2. ProgressTyped' BY <1>2, <2>1, ReturnedTypes
  <2> QED BY <1>0, <1>2, <2>2 DEF ChannelTyped
<1> QED BY <1>1, <1>2 DEF Send

\* What a step adds to the trail is a record.
LEMMA RecordedTypes ==
    ASSUME AllTyped, NEW rec \in Record, Recorded(rec) PROVE trail' \subseteq Record
BY DEF Recorded, AllTyped, TrailTyped

LEMMA OutcomeTypes ==
    ASSUME AllTyped, NEW r \in Requests, NEW i \in Items, NEW was \in SUBSET WasValue
    PROVE  Outcome(r, i, was) \in OutcomeRecord /\ Counted(r, i) \in Write
<1>1. status[r][i] \in Statuses BY DEF AllTyped, ProgressTyped
<1> QED BY <1>1 DEF Outcome, Counted, OutcomeRecord, Write

\* The steps of a future: the plan, the send, and what comes back.
LEMMA FutureTyped ==
    ASSUME AllTyped, NEW r \in Requests, Handle(r) \/ Future(r) PROVE AllTyped'
<1> USE DEF AllTyped
<1>1. CASE Handle(r)
    BY <1>1 DEF Handle, SettingsTyped, PlanTyped, ProgressTyped, ChannelTyped, ServerTyped, TasksTyped, TrailTyped,
                settings, server, tasks, States, Early
<1>2. CASE Poll(r)
  <2> DEFINE kept == Touches[r] \ summarise
  <2>1. PICK asks \in BOOLEAN :
          /\ reading' = [reading EXCEPT ![r] = IF asks THEN "asked" ELSE "no"]
          /\ IF kept # {} /\ fail_closed
             THEN st' = [st EXCEPT ![r] = "intent"] /\ UNCHANGED <<wire, order, status, left>>
             ELSE Send(r, kept, asks)
      BY <1>2 DEF Poll
  <2>2. ProgressTyped' /\ ChannelTyped'
    <3>1. CASE kept # {} /\ fail_closed
        BY <2>1, <3>1 DEF ProgressTyped, ChannelTyped, States, Early
    <3>2. CASE ~(kept # {} /\ fail_closed)
      <4>1. Send(r, kept, asks) BY <2>1, <3>2
      <4> HIDE DEF kept
      <4> QED BY <4>1, SendTypes
    <3> QED BY <3>1, <3>2
  <2>3. /\ taken' = [taken EXCEPT ![r] = Touches[r] \cap summarise]
        /\ fc' = [fc EXCEPT ![r] = fail_closed] /\ old' = old
      BY <1>2 DEF Poll
  <2>4. PlanTyped'
    <3>1. fc' \in [Requests -> BOOLEAN] BY <2>3 DEF PlanTyped, SettingsTyped
    <3>2. taken' \in [Requests -> SUBSET Items] BY <2>3 DEF PlanTyped
    <3>3. reading' \in [Requests -> {"no", "asked", "over"}]
      <4>1. (IF asks THEN "asked" ELSE "no") \in {"no", "asked", "over"} OBVIOUS
      <4> QED BY <2>1, <4>1 DEF PlanTyped
    <3> QED BY <2>3, <3>1, <3>2, <3>3 DEF PlanTyped
  <2>5. SettingsTyped' /\ ServerTyped' /\ TasksTyped' /\ TrailTyped'
      BY <1>2 DEF Poll, SettingsTyped, ServerTyped, TasksTyped, TrailTyped, settings, server, tasks
  <2> QED BY <2>2, <2>4, <2>5
<1>3. CASE Forwarded(r)
  <2>1. ProgressTyped' /\ ChannelTyped'
    <3> DEFINE kept == Touches[r] \ taken[r]
               asks == reading[r] = "asked"
    <3>1. Send(r, kept, asks) /\ asks \in BOOLEAN BY <1>3 DEF Forwarded
    <3> HIDE DEF kept, asks
    <3> QED BY <3>1, SendTypes
  <2>2. TrailTyped'
    <3>1. Intent(r) \in Record
      <4>1. Touches[r] \ taken[r] \in SUBSET Items OBVIOUS
      <4> QED BY <4>1 DEF Intent, Record, IntentRecord
    <3> QED BY <1>3, <3>1 DEF Forwarded, TrailTyped
  <2>3. SettingsTyped' /\ PlanTyped' /\ ServerTyped' /\ TasksTyped'
      BY <1>3 DEF Forwarded, SettingsTyped, PlanTyped, ServerTyped, TasksTyped, settings, server, tasks
  <2> QED BY <2>1, <2>2, <2>3
<1>4. CASE Rejected(r)
  <2>1. TrailTyped'
    <3>1. Intent(r) \in Record
      <4>1. Touches[r] \ taken[r] \in SUBSET Items OBVIOUS
      <4> QED BY <4>1 DEF Intent, Record, IntentRecord
    <3> QED BY <1>4, <3>1 DEF Rejected, TrailTyped
  <2>2. ProgressTyped' BY <1>4 DEF Rejected, ProgressTyped, States
  <2>3. SettingsTyped' /\ PlanTyped' /\ ChannelTyped' /\ ServerTyped' /\ TasksTyped'
      BY <1>4 DEF Rejected, SettingsTyped, PlanTyped, ChannelTyped, ServerTyped, TasksTyped,
                  settings, server, tasks, channel
  <2> QED BY <2>1, <2>2, <2>3
<1>5. CASE ReadFailed(r)
    BY <1>5 DEF ReadFailed, SettingsTyped, PlanTyped, ProgressTyped, ChannelTyped, ServerTyped, TasksTyped,
                TrailTyped, settings, channel, server, tasks
<1>6. CASE NoResponse(r)
  <2>1. All("Uncertain") \in [Items -> Statuses] BY DEF All, Statuses
  <2>2. ProgressTyped' BY <1>6, <2>1, ReturnedTypes DEF NoResponse
  <2>3. SettingsTyped' /\ PlanTyped' /\ ChannelTyped' /\ ServerTyped' /\ TasksTyped' /\ TrailTyped'
      BY <1>6 DEF NoResponse, SettingsTyped, PlanTyped, ChannelTyped, ServerTyped, TasksTyped, TrailTyped,
                  settings, server, tasks, channel
  <2> QED BY <2>2, <2>3
<1>7. CASE Respond(r)
    BY <1>7 DEF Respond, SettingsTyped, PlanTyped, ProgressTyped, ChannelTyped, ServerTyped, TasksTyped,
                TrailTyped, settings, channel, server, tasks, States
<1>8. ASSUME NEW i \in Items, Count(r, i) \/ RecordOutcome(r, i) PROVE AllTyped'
  <2>1. /\ left' = [left EXCEPT ![r] = @ \ {i}] /\ UNCHANGED <<st, status>>
        /\ UNCHANGED <<settings, fc, taken, reading, old, channel, server, tasks, holding>>
      BY <1>8 DEF Count, RecordOutcome
  <2>2. ProgressTyped' BY <2>1 DEF ProgressTyped
  <2>3. TrailTyped'
    <3>1. {v \in old[r] : v.item = i} \in SUBSET WasValue BY DEF PlanTyped
    <3>2. Outcome(r, i, {}) \in Record /\ Outcome(r, i, {v \in old[r] : v.item = i}) \in Record
        BY <3>1, OutcomeTypes DEF Record
    <3>3. Counted(r, i) \in Write BY OutcomeTypes
    <3>4. trail' \subseteq Record BY <1>8, <3>2, RecordedTypes DEF Count, RecordOutcome, TrailTyped
    <3>5. ignored' \subseteq Write BY <1>8, <3>3 DEF Count, RecordOutcome, TrailTyped
    <3> QED BY <2>1, <3>4, <3>5 DEF TrailTyped
  <2>4. SettingsTyped' /\ PlanTyped' /\ ChannelTyped' /\ ServerTyped' /\ TasksTyped'
      BY <2>1 DEF SettingsTyped, PlanTyped, ChannelTyped, ServerTyped, TasksTyped,
                  settings, server, tasks, channel
  <2> QED BY <2>2, <2>3, <2>4
<1> QED BY <1>1, <1>2, <1>3, <1>4, <1>5, <1>6, <1>7, <1>8 DEF Future

\* Answers, the server and the channel.
LEMMA ChannelStepTyped ==
    ASSUME AllTyped, Serve \/ UpstreamLost \/ LossNoticed \/ \E a \in answers : Answered(a) \/ ReadAnswered(a)
    PROVE  AllTyped'
<1> USE DEF AllTyped
<1>1. CASE Serve
  <2> DEFINE m == Head(wire)
             kept == Touches[m.req] \ taken[m.req]
  <2>1. wire \in Seq(Message) /\ wire # << >> /\ wire' = Tail(wire) BY <1>1 DEF Serve, ChannelTyped
  <2>2. m \in Message /\ wire' \in Seq(Message) BY <2>1
  <2>3. m.req \in Requests /\ m.op \in {"read", "change"} BY <2>2 DEF Message
  <2>4. ServerTyped'
    <3>1. CASE m.op = "read"
      <4>1. /\ answers' = answers \cup
                 {[op |-> "read", req |-> m.req, values |-> {[item |-> i, was |-> value[i]] : i \in kept}]}
            /\ UNCHANGED server
          BY <1>1, <3>1 DEF Serve
      <4>2. kept \subseteq Items BY <2>3
      <4>3. {[item |-> i, was |-> value[i]] : i \in kept} \subseteq WasValue
          BY <4>2 DEF ServerTyped, WasValue
      <4>4. \A V \in SUBSET WasValue : [op |-> "read", req |-> m.req, values |-> V] \in Answer
          BY <2>3 DEF Answer
      <4> QED BY <4>1, <4>3, <4>4 DEF ServerTyped, server
    <3>2. CASE m.op # "read"
      <4>1. PICK good \in SUBSET Touches[m.req], fault \in BOOLEAN :
              /\ answers' = answers \cup {[op |-> "change", req |-> m.req, good |-> good, fault |-> fault]}
              /\ value' = [i \in Items |-> IF i \in good THEN m.req ELSE value[i]]
              /\ applied' = applied \cup {[req |-> m.req, item |-> i, was |-> value[i]] : i \in good}
          BY <1>1, <3>2 DEF Serve
      <4>2. good \in SUBSET Items BY <2>3
      <4>3. answers' \subseteq Answer BY <4>1, <4>2, <2>3 DEF ServerTyped, Answer
      <4>4. m.req \in Values BY <2>3 DEF Requests, Values
      <4>5. value' \in [Items -> Values] BY <4>1, <4>4 DEF ServerTyped
      <4>6. applied' \subseteq [req : Requests, item : Items, was : Values]
          BY <4>1, <4>2, <2>3 DEF ServerTyped
      <4> QED BY <4>3, <4>5, <4>6 DEF ServerTyped
    <3> QED BY <3>1, <3>2
  <2>5. SettingsTyped' /\ PlanTyped' /\ ProgressTyped' /\ ChannelTyped' /\ TasksTyped' /\ TrailTyped'
      BY <1>1, <2>2 DEF Serve, SettingsTyped, PlanTyped, ProgressTyped, ChannelTyped, TasksTyped, TrailTyped,
                  settings, futures, tasks
  <2> QED BY <2>4, <2>5
<1>2. CASE UpstreamLost
  <2>1. PICK n \in 0..Len(wire) : wire' = SubSeq(wire, 1, n) BY <1>2 DEF UpstreamLost
  <2>2. wire' \in Seq(Message) BY <2>1, SubSeqProperties DEF ChannelTyped
  <2> QED BY <1>2, <2>2 DEF UpstreamLost, SettingsTyped, PlanTyped, ProgressTyped, ChannelTyped, ServerTyped,
                            TasksTyped, TrailTyped, settings, futures, server, tasks
<1>3. CASE LossNoticed
    BY <1>3 DEF LossNoticed, SettingsTyped, PlanTyped, ProgressTyped, ChannelTyped, ServerTyped,
                TasksTyped, TrailTyped, settings, futures, server, tasks
<1>4. ASSUME NEW a \in answers, Answered(a) PROVE AllTyped'
  <2>1. a \in Answer BY DEF ServerTyped
  <2>2. a.req \in Requests /\ a.fault \in BOOLEAN BY <1>4, <2>1 DEF Answered, Answer
  <2>3. [i \in Items |-> IF i \in a.good THEN "Good" ELSE "Bad"] \in [Items -> Statuses] BY DEF Statuses
  <2>4. ProgressTyped' BY <1>4, <2>2, <2>3, ReturnedTypes DEF Answered
  <2>5. SettingsTyped' /\ PlanTyped' /\ ChannelTyped' /\ ServerTyped' /\ TasksTyped' /\ TrailTyped'
      BY <1>4 DEF Answered, SettingsTyped, PlanTyped, ChannelTyped, ServerTyped, TasksTyped, TrailTyped,
                  settings, server, tasks
  <2> QED BY <2>4, <2>5
<1>5. ASSUME NEW a \in answers, ReadAnswered(a) PROVE AllTyped'
  <2>1. a \in Answer BY DEF ServerTyped
  <2>2. a.values \in SUBSET WasValue BY <1>5, <2>1 DEF ReadAnswered, Answer
  <2>3. PlanTyped' BY <1>5, <2>2 DEF ReadAnswered, PlanTyped
  <2>4. SettingsTyped' /\ ProgressTyped' /\ ChannelTyped' /\ ServerTyped' /\ TasksTyped' /\ TrailTyped'
      BY <1>5 DEF ReadAnswered, SettingsTyped, ProgressTyped, ChannelTyped, ServerTyped, TasksTyped, TrailTyped,
                  settings, server, tasks
  <2> QED BY <2>3, <2>4
<1> QED BY <1>1, <1>2, <1>3, <1>4, <1>5

\* The tasks and the settings.
LEMMA TaskStepTyped ==
    ASSUME AllTyped,
           \/ Close \/ Leave \/ DrainTimeout \/ CloseTimeout \/ Drained \/ Gone
           \/ SummaryDue \/ Shutdown \/ StopServing \/ Stopped \/ Exit
           \/ SetFailMode \/ SetSummarise \/ UNCHANGED vars
           \/ \E h \in DOMAIN holding : RecordSummary(h)
    PROVE  AllTyped'
<1> USE DEF AllTyped
<1>1. CASE Close \/ DrainTimeout \/ Gone \/ Shutdown \/ Stopped \/ SetFailMode \/ SetSummarise \/ UNCHANGED vars
  <2>1. SettingsTyped'
      BY <1>1 DEF Close, DrainTimeout, Gone, Shutdown, Stopped, SetFailMode, SetSummarise, vars, settings, SettingsTyped
  <2>2. TasksTyped'
      BY <1>1 DEF Close, DrainTimeout, Gone, Shutdown, Stopped, SetFailMode, SetSummarise, vars, TasksTyped,
                  channel, tasks
  <2>3. PlanTyped' /\ ProgressTyped'
      BY <1>1 DEF Close, DrainTimeout, Gone, Shutdown, Stopped, SetFailMode, SetSummarise, vars, PlanTyped,
                  ProgressTyped, futures
  <2>4. ChannelTyped' /\ ServerTyped' /\ TrailTyped'
      BY <1>1 DEF Close, DrainTimeout, Gone, Shutdown, Stopped, SetFailMode, SetSummarise, vars, ChannelTyped,
                  ServerTyped, TrailTyped, channel, server
  <2> QED BY <2>1, <2>2, <2>3, <2>4
<1>2. CASE Leave \/ CloseTimeout \/ Exit
  <2>1. ProgressTyped' BY <1>2 DEF Leave, CloseTimeout, Exit, ProgressTyped, States
  <2>2. SettingsTyped' /\ PlanTyped' /\ ChannelTyped' /\ ServerTyped' /\ TasksTyped'
      BY <1>2 DEF Leave, CloseTimeout, Exit, SettingsTyped, PlanTyped, ChannelTyped, ServerTyped, TasksTyped,
                  settings, channel, server
  <2>3. TrailTyped' BY <1>2 DEF Leave, CloseTimeout, Exit, TrailTyped, Holders
  <2> QED BY <2>1, <2>2, <2>3
<1>3. CASE Drained \/ SummaryDue \/ StopServing
  <2>1. SettingsTyped' /\ PlanTyped' /\ ProgressTyped' /\ ChannelTyped' /\ ServerTyped' /\ TasksTyped'
      BY <1>3 DEF Drained, SummaryDue, StopServing, SettingsTyped, PlanTyped, ProgressTyped, ChannelTyped,
                  ServerTyped, TasksTyped, settings, channel, server, futures, tasks
  <2>2. TrailTyped' BY <1>3 DEF Drained, SummaryDue, StopServing, TakeIgnored, TrailTyped, Holders
  <2> QED BY <2>1, <2>2
<1>4. ASSUME NEW h \in DOMAIN holding, RecordSummary(h) PROVE AllTyped'
  <2>1. h \in Holders /\ holding[h] \subseteq Write BY DEF TrailTyped
  <2>2. PICK w \in holding[h] :
          LET W == {v \in holding[h] : v.item = w.item}
          IN  holding' = [holding EXCEPT ![h] = @ \ W] /\ Recorded(Summary(W))
      BY <1>4 DEF RecordSummary
  <2> DEFINE W == {v \in holding[h] : v.item = w.item}
  <2>3. holding' = [holding EXCEPT ![h] = @ \ W] /\ Recorded(Summary(W)) BY <2>2
  <2>4. Summary(W) \in Record BY <2>1 DEF Summary, Record, SummaryRecord
  <2>5. trail' \subseteq Record
    <3> HIDE DEF W
    <3> QED BY <2>3, <2>4, RecordedTypes
  <2>6. TrailTyped' BY <1>4, <2>1, <2>3, <2>5 DEF RecordSummary, TrailTyped
  <2>7. SettingsTyped' /\ PlanTyped' /\ ProgressTyped' /\ ChannelTyped' /\ ServerTyped' /\ TasksTyped'
      BY <1>4 DEF RecordSummary, SettingsTyped, PlanTyped, ProgressTyped, ChannelTyped,
                  ServerTyped, TasksTyped, settings, channel, server, futures, tasks
  <2> QED BY <2>6, <2>7
<1> QED BY <1>1, <1>2, <1>3, <1>4

\* Every step is a step of a future, of the channel or of a task.
LEMMA StepKinds ==
    ASSUME [Next]_vars
    PROVE  \/ \E r \in Requests : Handle(r) \/ Future(r)
           \/ Serve \/ UpstreamLost \/ LossNoticed \/ \E a \in answers : Answered(a) \/ ReadAnswered(a)
           \/ Close \/ Leave \/ DrainTimeout \/ CloseTimeout \/ Drained \/ Gone
           \/ SummaryDue \/ Shutdown \/ StopServing \/ Stopped \/ Exit
           \/ SetFailMode \/ SetSummarise \/ UNCHANGED vars
           \/ \E h \in DOMAIN holding : RecordSummary(h)
BY DEF Next

LEMMA TypedStep == ASSUME AllTyped, [Next]_vars PROVE AllTyped'
<1> HIDE ForwardAssumption DEF ForwardAssumption
<1> QED BY StepKinds, FutureTyped, ChannelStepTyped, TaskStepTyped

LEMMA TypedInvariance == Spec => []AllTyped
<1>1. Init => AllTyped BY TypedInit
<1>2. AllTyped /\ [Next]_vars => AllTyped' BY TypedStep
<1> QED BY <1>1, <1>2, PTL DEF Spec

\* The type invariant of the connection: for any constants, its futures, channel, server,
\* tasks and trail keep their types, whatever the client, the server and the store do.
THEOREM ConnectionTyped == Spec => []TypeOK
BY TypedInvariance, PartsGiveTypeOK, PTL
-------------------------------------------------------------------------------
(* The messages on the channel, and what the server made of them.          *)

ReadOf(r) == [op |-> "read", req |-> r]
ChangeOf(r) == [op |-> "change", req |-> r]

\* Each message is on the channel once, behind the first poll of its request; a change
\* comes right behind the read of its old values; and as long as a message of a request
\* is on the channel, the server has neither applied nor answered the change.
WireOK ==
    /\ \A k \in DOMAIN wire : st[wire[k].req] \notin Early
    /\ \A j, k \in DOMAIN wire : wire[j] = wire[k] => j = k
    /\ \A j, k \in DOMAIN wire :
         wire[j].req = wire[k].req /\ wire[j].op = "read" /\ wire[k].op = "change" => k = j + 1
    /\ \A k \in DOMAIN wire : \A c \in applied : c.req # wire[k].req
    /\ \A k \in DOMAIN wire : \A a \in answers : a.op = "change" => a.req # wire[k].req

\* An answer tells exactly what the server applied.
ServerOK ==
    /\ \A c \in applied : st[c.req] \notin Early /\ c.item \in Touches[c.req]
    /\ \A a \in answers : st[a.req] \notin Early
    /\ \A a \in answers : a.op = "change" =>
         (a.fault => a.good = {}) /\ \A i \in Items : i \in a.good <=> Changed(a.req, i)

DeliveryOK == WireOK /\ ServerOK

\* A request is put on the channel: its read, if it asks for one, and its change.
Sent(r) ==
    /\ st[r] \in {"pushed", "intent"} /\ upstream = "up"
    /\ st' = [st EXCEPT ![r] = "sent"]
    /\ \E s \in {<<ReadOf(r), ChangeOf(r)>>, <<ChangeOf(r)>>} : wire' = wire \o s
    /\ order' = Append(order, [req |-> r, late |-> Draining])
    /\ UNCHANGED <<answers, value, applied, status, left>>

\* Nothing is put on the channel or taken from it, and no request goes back to its poll.
NoTraffic ==
    /\ UNCHANGED <<wire, value, applied>> /\ answers' \subseteq answers
    /\ \A r \in Requests : st[r] \notin Early => st'[r] \notin Early

\* A future either puts its request on the channel or leaves the channel alone.
LEMMA SendCases ==
    ASSUME AllTyped, NEW r \in Requests, NEW kept, NEW asks \in BOOLEAN, Send(r, kept, asks),
           st[r] \in {"pushed", "intent"}, UNCHANGED <<answers, value, applied>>
    PROVE  Sent(r) \/ NoTraffic
<1>1. CASE /\ upstream = "up"
           /\ st' = [st EXCEPT ![r] = "sent"]
           /\ wire' = wire \o (IF asks THEN <<[op |-> "read", req |-> r]>> ELSE << >>)
                           \o <<[op |-> "change", req |-> r]>>
           /\ order' = Append(order, [req |-> r, late |-> Draining])
           /\ UNCHANGED <<status, left>>
  <2>1. wire \in Seq(Message) BY DEF AllTyped, ChannelTyped
  <2>2. ReadOf(r) \in Message /\ ChangeOf(r) \in Message BY DEF Message, ReadOf, ChangeOf
  <2>3. \E s \in {<<ReadOf(r), ChangeOf(r)>>, <<ChangeOf(r)>>} : wire' = wire \o s
    <3>1. CASE asks
      <4>1. wire' = (wire \o <<ReadOf(r)>>) \o <<ChangeOf(r)>> BY <1>1, <3>1 DEF ReadOf, ChangeOf
      <4> QED BY <4>1, <2>1, <2>2
    <3>2. CASE ~asks
      <4>1. wire' = (wire \o << >>) \o <<ChangeOf(r)>> BY <1>1, <3>2 DEF ReadOf, ChangeOf
      <4> QED BY <4>1, <2>1, <2>2
    <3> QED BY <3>1, <3>2
  <2> QED BY <1>1, <2>3 DEF Sent
<1>2. CASE wire' = wire /\ st' = [st EXCEPT ![r] = "recording"]
    BY <1>2 DEF NoTraffic, Early, AllTyped, ProgressTyped
<1> QED BY <1>1, <1>2 DEF Send, Returned

LEMMA TrafficCases ==
    ASSUME AllTyped, [Next]_vars
    PROVE  NoTraffic \/ (\E r \in Requests : Sent(r)) \/ Serve \/ UpstreamLost
<1> USE DEF AllTyped, ProgressTyped
<1>1. ASSUME NEW r \in Requests, Handle(r) \/ Future(r) PROVE NoTraffic \/ Sent(r)
  <2>1. CASE Handle(r) BY <2>1 DEF Handle, NoTraffic, Early, server
  <2>2. CASE Poll(r)
    <3> DEFINE kept == Touches[r] \ summarise
    <3>1. PICK asks \in BOOLEAN :
            IF kept # {} /\ fail_closed
            THEN st' = [st EXCEPT ![r] = "intent"] /\ UNCHANGED <<wire, order, status, left>>
            ELSE Send(r, kept, asks)
        BY <2>2 DEF Poll
    <3>2. st[r] = "pushed" /\ UNCHANGED <<answers, value, applied>> BY <2>2 DEF Poll, FirstInLine, server
    <3>3. CASE kept # {} /\ fail_closed BY <3>1, <3>2, <3>3 DEF NoTraffic, Early
    <3>4. CASE ~(kept # {} /\ fail_closed)
      <4>1. Send(r, kept, asks) BY <3>1, <3>4
      <4> HIDE DEF kept
      <4> QED BY <4>1, <3>2, SendCases
    <3> QED BY <3>3, <3>4
  <2>3. CASE Forwarded(r)
    <3> DEFINE kept == Touches[r] \ taken[r]
               asks == reading[r] = "asked"
    <3>1. Send(r, kept, asks) /\ asks \in BOOLEAN BY <2>3 DEF Forwarded
    <3>2. st[r] = "intent" /\ UNCHANGED <<answers, value, applied>>
        BY <2>3 DEF Forwarded, Acknowledged, server
    <3> HIDE DEF kept, asks
    <3> QED BY <3>1, <3>2, SendCases
  <2>4. CASE Rejected(r) \/ Respond(r)
      BY <2>4 DEF Rejected, Respond, NoTraffic, Early, channel, server
  <2>5. CASE ReadFailed(r) BY <2>5 DEF ReadFailed, NoTraffic, channel, server
  <2>6. CASE NoResponse(r) BY <2>6 DEF NoResponse, Returned, NoTraffic, Early, channel, server
  <2>7. CASE \E i \in Items : Count(r, i) \/ RecordOutcome(r, i)
      BY <2>7 DEF Count, RecordOutcome, NoTraffic, channel, server
  <2> QED BY <1>1, <2>1, <2>2, <2>3, <2>4, <2>5, <2>6, <2>7 DEF Future
<1>2. ASSUME NEW a \in answers, Answered(a) \/ ReadAnswered(a) PROVE NoTraffic
    BY <1>2 DEF Answered, ReadAnswered, Returned, NoTraffic, Early, server
<1>3. CASE LossNoticed \/ Close \/ DrainTimeout \/ Gone \/ Shutdown \/ Stopped
           \/ SetFailMode \/ SetSummarise \/ UNCHANGED vars
    BY <1>3 DEF LossNoticed, Close, DrainTimeout, Gone, Shutdown, Stopped, SetFailMode, SetSummarise, vars,
                futures, channel, server, NoTraffic
<1>4. CASE Leave \/ CloseTimeout \/ Exit
    BY <1>4 DEF Leave, CloseTimeout, Exit, channel, server, NoTraffic, Early
<1>5. CASE Drained \/ SummaryDue \/ StopServing \/ \E h \in DOMAIN holding : RecordSummary(h)
    BY <1>5 DEF Drained, SummaryDue, StopServing, RecordSummary, futures, channel, server, NoTraffic
<1> HIDE ForwardAssumption DEF ForwardAssumption, AllTyped, ProgressTyped
<1> QED BY <1>1, <1>2, <1>3, <1>4, <1>5, StepKinds

\* A request never goes back before its poll or its intent.
LEMMA PolledStays ==
    ASSUME AllTyped, [Next]_vars, NEW r \in Requests, st[r] \notin Early PROVE st'[r] \notin Early
<1>1. CASE NoTraffic BY <1>1 DEF NoTraffic
<1>2. ASSUME NEW q \in Requests, Sent(q) PROVE st'[r] \notin Early
    BY <1>2 DEF Sent, Early, AllTyped, ProgressTyped
<1>3. CASE Serve \/ UpstreamLost BY <1>3 DEF Serve, UpstreamLost, futures
<1> QED BY <1>1, <1>2, <1>3, TrafficCases

\* Where the messages are after a send: the old ones in their places, the new ones behind.
LEMMA SentWire ==
    ASSUME AllTyped, NEW r \in Requests, Sent(r)
    PROVE  /\ \A k \in DOMAIN wire : k \in DOMAIN wire' /\ wire'[k] = wire[k]
           /\ \A k \in DOMAIN wire' \ DOMAIN wire : wire'[k] \in {ReadOf(r), ChangeOf(r)}
           /\ \A j, k \in DOMAIN wire' \ DOMAIN wire :
                /\ wire'[j] = wire'[k] => j = k
                /\ wire'[j].op = "read" /\ wire'[k].op = "change" => k = j + 1
<1>1. wire \in Seq(Message) BY DEF AllTyped, ChannelTyped
<1>2. PICK s \in {<<ReadOf(r), ChangeOf(r)>>, <<ChangeOf(r)>>} : wire' = wire \o s BY DEF Sent
<1>3. ReadOf(r).op = "read" /\ ChangeOf(r).op = "change" BY DEF ReadOf, ChangeOf
<1>4. ReadOf(r) \in Message /\ ChangeOf(r) \in Message BY DEF ReadOf, ChangeOf, Message
<1>5. /\ s \in Seq(Message)
      /\ \A k \in 1..Len(s) : s[k] \in {ReadOf(r), ChangeOf(r)}
      /\ \A j, k \in 1..Len(s) : (s[j] = s[k] => j = k) /\ (s[j].op = "read" /\ s[k].op = "change" => k = j + 1)
  <2>1. CASE s = <<ChangeOf(r)>> BY <1>3, <1>4, <2>1
  <2>2. CASE s = <<ReadOf(r), ChangeOf(r)>>
    <3>1. s \in Seq(Message) /\ Len(s) = 2 /\ s[1] = ReadOf(r) /\ s[2] = ChangeOf(r) BY <1>4, <2>2
    <3>2. \A k \in 1..Len(s) : k = 1 \/ k = 2 BY <3>1
    <3> QED BY <1>3, <3>1, <3>2
  <2> QED BY <1>2, <2>1, <2>2
<1>6. /\ Len(wire) \in Nat /\ Len(s) \in Nat
      /\ DOMAIN wire = 1..Len(wire) /\ DOMAIN wire' = 1..(Len(wire) + Len(s))
      /\ \A k \in 1..Len(wire) : (wire \o s)[k] = wire[k]
    BY <1>1, <1>2, <1>5
<1>7. \A k \in DOMAIN wire' \ DOMAIN wire :
        k \in Int /\ k - Len(wire) \in 1..Len(s) /\ wire'[k] = s[k - Len(wire)]
    BY <1>1, <1>2, <1>5, <1>6
<1>8. \A k \in DOMAIN wire : k \in DOMAIN wire' /\ wire'[k] = wire[k] BY <1>2, <1>6
<1>9. \A k \in DOMAIN wire' \ DOMAIN wire : wire'[k] \in {ReadOf(r), ChangeOf(r)} BY <1>5, <1>7
<1>10. ASSUME NEW j \in DOMAIN wire' \ DOMAIN wire, NEW k \in DOMAIN wire' \ DOMAIN wire
       PROVE  /\ wire'[j] = wire'[k] => j = k
              /\ wire'[j].op = "read" /\ wire'[k].op = "change" => k = j + 1
    BY <1>5, <1>6, <1>7
<1> QED BY <1>8, <1>9, <1>10

\* The server takes the first message; the others move up.
LEMMA ServeFacts ==
    ASSUME AllTyped, Serve
    PROVE  /\ wire[1] \in Message /\ 1 \in DOMAIN wire
           /\ \A k \in DOMAIN wire' : k + 1 \in DOMAIN wire /\ k \in Nat \ {0} /\ wire'[k] = wire[k + 1]
           /\ \A k \in DOMAIN wire : k = 1 \/ (k \in Nat /\ k - 1 \in DOMAIN wire')
           /\ \/ /\ wire[1].op = "read" /\ UNCHANGED <<value, applied>>
                 /\ answers' = answers \cup
                      {[op |-> "read", req |-> wire[1].req,
                        values |-> {[item |-> i, was |-> value[i]] : i \in Touches[wire[1].req] \ taken[wire[1].req]}]}
              \/ /\ wire[1].op = "change"
                 /\ \E good \in SUBSET Touches[wire[1].req], fault \in BOOLEAN :
                      /\ fault => good = {}
                      /\ answers' = answers \cup
                           {[op |-> "change", req |-> wire[1].req, good |-> good, fault |-> fault]}
                      /\ value' = [i \in Items |-> IF i \in good THEN wire[1].req ELSE value[i]]
                      /\ applied' = applied \cup {[req |-> wire[1].req, item |-> i, was |-> value[i]] : i \in good}
           /\ UNCHANGED <<settings, futures, upstream, order, tasks, ignored, holding, trail>>
<1>1. wire \in Seq(Message) /\ wire # << >> /\ wire' = Tail(wire) BY DEF AllTyped, ChannelTyped, Serve
<1>2. Head(wire) = wire[1] /\ wire[1] \in Message /\ 1 \in DOMAIN wire BY <1>1
<1>3. \A k \in DOMAIN wire' : k + 1 \in DOMAIN wire /\ k \in Nat \ {0} /\ wire'[k] = wire[k + 1] BY <1>1
<1>4. \A k \in DOMAIN wire : k = 1 \/ (k \in Nat /\ k - 1 \in DOMAIN wire') BY <1>1
<1>5. CASE wire[1].op = "read" BY <1>2, <1>3, <1>4, <1>5 DEF Serve, server
<1>6. CASE wire[1].op # "read"
  <2>1. wire[1].op = "change" BY <1>2, <1>6 DEF Message
  <2>2. /\ \E good \in SUBSET Touches[wire[1].req], fault \in BOOLEAN :
             /\ fault => good = {}
             /\ answers' = answers \cup
                  {[op |-> "change", req |-> wire[1].req, good |-> good, fault |-> fault]}
             /\ value' = [i \in Items |-> IF i \in good THEN wire[1].req ELSE value[i]]
             /\ applied' = applied \cup {[req |-> wire[1].req, item |-> i, was |-> value[i]] : i \in good}
        /\ UNCHANGED <<settings, futures, upstream, order, tasks, ignored, holding, trail>>
    <3>1. Head(wire).op # "read" BY <1>2, <1>6
    <3>2. PICK good \in SUBSET Touches[Head(wire).req], fault \in BOOLEAN :
             /\ fault => good = {}
             /\ answers' = answers \cup
                  {[op |-> "change", req |-> Head(wire).req, good |-> good, fault |-> fault]}
             /\ value' = [i \in Items |-> IF i \in good THEN Head(wire).req ELSE value[i]]
             /\ applied' = applied \cup {[req |-> Head(wire).req, item |-> i, was |-> value[i]] : i \in good}
        BY <3>1 DEF Serve
    <3>3. UNCHANGED <<settings, futures, upstream, order, tasks, ignored, holding, trail>> BY DEF Serve
    <3>4. /\ good \in SUBSET Touches[wire[1].req]
          /\ answers' = answers \cup
               {[op |-> "change", req |-> wire[1].req, good |-> good, fault |-> fault]}
        BY <1>2, <3>2
    <3>5. value' = [i \in Items |-> IF i \in good THEN wire[1].req ELSE value[i]] BY <1>2, <3>2
    <3>6. applied' = applied \cup {[req |-> wire[1].req, item |-> i, was |-> value[i]] : i \in good}
        BY <1>2, <3>2
    <3> QED BY <3>2, <3>3, <3>4, <3>5, <3>6
  <2> HIDE ForwardAssumption DEF ForwardAssumption
  <2> QED BY <1>2, <1>3, <1>4, <2>1, <2>2, Zenon
<1> QED BY <1>5, <1>6

LEMMA ServedChange ==
    ASSUME AllTyped, Serve, wire[1].op = "change", NEW r \in Requests, r = wire[1].req
    PROVE  \E good \in SUBSET Touches[r], fault \in BOOLEAN :
             /\ fault => good = {}
             /\ answers' = answers \cup {[op |-> "change", req |-> r, good |-> good, fault |-> fault]}
             /\ applied' = applied \cup {[req |-> r, item |-> i, was |-> value[i]] : i \in good}
<1>1. PICK good \in SUBSET Touches[wire[1].req], fault \in BOOLEAN :
        /\ fault => good = {}
        /\ answers' = answers \cup {[op |-> "change", req |-> wire[1].req, good |-> good, fault |-> fault]}
        /\ applied' = applied \cup {[req |-> wire[1].req, item |-> i, was |-> value[i]] : i \in good}
    BY ServeFacts
<1> QED BY <1>1

LEMMA LostFacts ==
    ASSUME AllTyped, UpstreamLost
    PROVE  /\ \A k \in DOMAIN wire' : k \in DOMAIN wire /\ wire'[k] = wire[k]
           /\ wire' = << >> \/ (1 \in DOMAIN wire' /\ wire'[1] = wire[1])
           /\ UNCHANGED <<settings, futures, answers, order, server, tasks, ignored, holding, trail>>
<1>1. wire \in Seq(Message) BY DEF AllTyped, ChannelTyped
<1>2. PICK n \in 0..Len(wire) : wire' = SubSeq(wire, 1, n) BY DEF UpstreamLost
<1>3. \A k \in DOMAIN wire' : k \in DOMAIN wire /\ wire'[k] = wire[k] BY <1>1, <1>2, SubSeqProperties
<1>4. wire' = << >> \/ 1 \in DOMAIN wire' BY <1>1, <1>2, SubSeqProperties
<1> QED BY <1>3, <1>4 DEF UpstreamLost

LEMMA DeliveryInit == Init => DeliveryOK
BY DEF Init, DeliveryOK, WireOK, ServerOK

LEMMA DeliveryKept == ASSUME AllTyped, DeliveryOK, [Next]_vars PROVE DeliveryOK'
<1>0. /\ wire \in Seq(Message) /\ answers \subseteq Answer
      /\ applied \subseteq [req : Requests, item : Items, was : Values]
    BY DEF AllTyped, ChannelTyped, ServerTyped
<1>a. \A k \in DOMAIN wire : wire[k] \in Message /\ wire[k].req \in Requests
  <2>1. \A k \in DOMAIN wire : wire[k] \in Message BY <1>0
  <2> QED BY <2>1 DEF Message
<1>b. /\ \A a \in answers : a.req \in Requests
      /\ \A c \in applied : c.req \in Requests
    BY <1>0 DEF Answer
<1>1. CASE NoTraffic
  <2>1. WireOK' BY <1>1, <1>a DEF NoTraffic, DeliveryOK, WireOK
  <2>2. ServerOK' BY <1>1, <1>b DEF NoTraffic, DeliveryOK, ServerOK, Changed
  <2> QED BY <2>1, <2>2 DEF DeliveryOK
<1>2. ASSUME NEW r \in Requests, Sent(r) PROVE DeliveryOK'
  <2>0. /\ ReadOf(r).req = r /\ ChangeOf(r).req = r BY DEF ReadOf, ChangeOf
  <2>1. /\ st[r] \in Early /\ UNCHANGED <<answers, value, applied>>
        /\ \A q \in Requests : st[q] \notin Early => st'[q] \notin Early
        /\ st'[r] \notin Early
      BY <1>2 DEF Sent, Early, AllTyped, ProgressTyped
  <2>2. /\ \A k \in DOMAIN wire : k \in DOMAIN wire' /\ wire'[k] = wire[k] /\ wire[k].req # r
        /\ \A k \in DOMAIN wire' \ DOMAIN wire : wire'[k].req = r
      BY <1>2, <2>0, <2>1, SentWire DEF DeliveryOK, WireOK
  <2>3. \A k \in DOMAIN wire' : st'[wire'[k].req] \notin Early
      BY <2>1, <2>2, <1>a DEF DeliveryOK, WireOK
  <2>4. ASSUME NEW j \in DOMAIN wire', NEW k \in DOMAIN wire'
        PROVE  /\ wire'[j] = wire'[k] => j = k
               /\ wire'[j].req = wire'[k].req /\ wire'[j].op = "read" /\ wire'[k].op = "change" => k = j + 1
    <3>1. CASE j \in DOMAIN wire /\ k \in DOMAIN wire BY <3>1, <2>2 DEF DeliveryOK, WireOK
    <3>2. CASE j \notin DOMAIN wire /\ k \notin DOMAIN wire BY <3>2, <1>2, SentWire
    <3>3. CASE j \in DOMAIN wire /\ k \notin DOMAIN wire BY <3>3, <2>2
    <3>4. CASE j \notin DOMAIN wire /\ k \in DOMAIN wire BY <3>4, <2>2
    <3> QED BY <3>1, <3>2, <3>3, <3>4
  <2>5. /\ \A c \in applied : c.req # r
        /\ \A a \in answers : a.req # r
      BY <2>1 DEF DeliveryOK, ServerOK
  <2>6. WireOK' BY <2>1, <2>2, <2>3, <2>4, <2>5 DEF DeliveryOK, WireOK
  <2>7. ServerOK' BY <2>1, <1>b DEF DeliveryOK, ServerOK, Changed
  <2> QED BY <2>6, <2>7 DEF DeliveryOK
<1>3. CASE UpstreamLost
  <2>1. /\ \A k \in DOMAIN wire' : k \in DOMAIN wire /\ wire'[k] = wire[k]
        /\ UNCHANGED <<st, answers, applied>>
      BY <1>3, LostFacts DEF futures, server
  <2>2. WireOK' BY <2>1 DEF DeliveryOK, WireOK
  <2>3. ServerOK' BY <2>1 DEF DeliveryOK, ServerOK, Changed
  <2> QED BY <2>2, <2>3 DEF DeliveryOK
<1>4. CASE Serve
  <2>0. 1 \in DOMAIN wire BY <1>4, ServeFacts
  <2> PICK r \in Requests : r = wire[1].req BY <2>0, <1>a
  <2>1. /\ 1 \in DOMAIN wire /\ wire[1] \in Message
        /\ \A k \in DOMAIN wire' : k + 1 \in DOMAIN wire /\ k \in Nat \ {0} /\ wire'[k] = wire[k + 1]
        /\ UNCHANGED st
      BY <1>4, <1>a, ServeFacts DEF futures
  <2>2. /\ st[r] \notin Early
        /\ \A c \in applied : c.req # r
        /\ \A a \in answers : a.op = "change" => a.req # r
      BY <2>1 DEF DeliveryOK, WireOK
  <2>3. /\ \A k \in DOMAIN wire' : st'[wire'[k].req] \notin Early
        /\ \A j, k \in DOMAIN wire' : wire'[j] = wire'[k] => j = k
    <3>1. \A k \in DOMAIN wire' : st'[wire'[k].req] \notin Early BY <2>1 DEF DeliveryOK, WireOK
    <3>2. ASSUME NEW j \in DOMAIN wire', NEW k \in DOMAIN wire', wire'[j] = wire'[k] PROVE j = k
      <4>1. j + 1 = k + 1 BY <2>1, <3>2 DEF DeliveryOK, WireOK
      <4> QED BY <2>1, <4>1
    <3> QED BY <3>1, <3>2
  <2>4. ASSUME NEW j \in DOMAIN wire', NEW k \in DOMAIN wire',
               wire'[j].req = wire'[k].req, wire'[j].op = "read", wire'[k].op = "change"
        PROVE  k = j + 1
    <3>1. k + 1 = (j + 1) + 1 BY <2>1, <2>4 DEF DeliveryOK, WireOK
    <3> QED BY <2>1, <3>1
  <2>5. CASE wire[1].op = "read"
    <3>1. /\ UNCHANGED applied
          /\ \A a \in answers' : a \in answers \/ (a.op = "read" /\ a.req = r)
        BY <1>4, <2>5, ServeFacts
    <3>2. \A k \in DOMAIN wire' : \A c \in applied' : c.req # wire'[k].req
        BY <2>1, <3>1 DEF DeliveryOK, WireOK
    <3>3. \A k \in DOMAIN wire' : \A a \in answers' : a.op = "change" => a.req # wire'[k].req
        BY <2>1, <3>1 DEF DeliveryOK, WireOK
    <3>4. WireOK' BY <2>3, <2>4, <3>2, <3>3 DEF WireOK
    <3>5. ServerOK' BY <2>1, <2>2, <3>1 DEF DeliveryOK, ServerOK, Changed
    <3> QED BY <3>4, <3>5 DEF DeliveryOK
  <2>6. CASE wire[1].op = "change"
    <3>1. PICK good \in SUBSET Touches[r], fault \in BOOLEAN :
            /\ fault => good = {}
            /\ answers' = answers \cup {[op |-> "change", req |-> r, good |-> good, fault |-> fault]}
            /\ applied' = applied \cup {[req |-> r, item |-> i, was |-> value[i]] : i \in good}
        BY <1>4, <2>6, ServedChange
    <3>2. \A k \in DOMAIN wire' : wire'[k].req # r
      <4> SUFFICES ASSUME NEW k \in DOMAIN wire', wire'[k].req = r PROVE FALSE OBVIOUS
      <4>1. wire[k + 1].req = wire[1].req /\ wire[k + 1] \in Message /\ k + 1 \in DOMAIN wire /\ k + 1 # 1
          BY <2>1, <1>a
      <4>2. CASE wire[k + 1].op = "change"
        <5>1. wire[k + 1] = wire[1] BY <2>1, <2>6, <4>1, <4>2 DEF Message
        <5> QED BY <2>1, <4>1, <5>1 DEF DeliveryOK, WireOK
      <4>3. CASE wire[k + 1].op = "read"
        <5>1. 1 = (k + 1) + 1 BY <2>1, <2>6, <4>1, <4>3 DEF DeliveryOK, WireOK
        <5> QED BY <2>1, <5>1
      <4> QED BY <4>1, <4>2, <4>3 DEF Message
    <3>3. \A k \in DOMAIN wire' : \A c \in applied' : c.req # wire'[k].req
        BY <2>1, <3>1, <3>2 DEF DeliveryOK, WireOK
    <3>4. \A k \in DOMAIN wire' : \A a \in answers' : a.op = "change" => a.req # wire'[k].req
        BY <2>1, <3>1, <3>2 DEF DeliveryOK, WireOK
    <3>5. WireOK' BY <2>3, <2>4, <3>3, <3>4 DEF WireOK
    <3>6. \A c \in applied' : st'[c.req] \notin Early /\ c.item \in Touches[c.req]
        BY <2>1, <2>2, <3>1 DEF DeliveryOK, ServerOK
    <3>7. \A a \in answers' : st'[a.req] \notin Early
        BY <2>1, <2>2, <3>1 DEF DeliveryOK, ServerOK
    <3>8. ASSUME NEW a \in answers', a.op = "change", NEW i \in Items
          PROVE  i \in a.good <=> Changed(a.req, i)'
      <4>1. CASE a \in answers
        <5>1. a.req # r /\ (i \in a.good <=> Changed(a.req, i))
            BY <2>2, <3>8, <4>1 DEF DeliveryOK, ServerOK
        <5>2. Changed(a.req, i)' <=> Changed(a.req, i) BY <3>1, <5>1 DEF Changed
        <5> QED BY <5>1, <5>2
      <4>2. CASE a = [op |-> "change", req |-> r, good |-> good, fault |-> fault]
        <5>1. Changed(r, i)' <=> i \in good
          <6>1. \A c \in applied' : c.req = r /\ c.item = i => i \in good BY <2>2, <3>1
          <6>2. i \in good => [req |-> r, item |-> i, was |-> value[i]] \in applied' BY <3>1
          <6> QED BY <6>1, <6>2 DEF Changed
        <5> QED BY <3>1, <4>2, <5>1
      <4> QED BY <3>1, <4>1, <4>2
    <3>9. \A a \in answers' : a.op = "change" /\ a.fault => a.good = {}
        BY <3>1 DEF DeliveryOK, ServerOK
    <3>10. ServerOK' BY <3>6, <3>7, <3>8, <3>9 DEF ServerOK
    <3> QED BY <3>5, <3>10 DEF DeliveryOK
  <2> QED BY <1>4, <2>5, <2>6, ServeFacts
<1> QED BY <1>1, <1>2, <1>3, <1>4, TrafficCases
-------------------------------------------------------------------------------
(* The outcomes that are told.                                             *)

Late == {"recording", "done", "dropped"}

\* A status that stays true: "Good" was applied, "Bad" neither is nor will be.
Truthful(r, i, s) ==
    (s = "Good" => Changed(r, i)) /\ (s = "Bad" => ~Changed(r, i) /\ ~OnWire(r))

\* The statuses that a future is about to tell, and those that are told, are true.
ToldOK ==
    /\ \A r \in Requests : st[r] = "recording" => \A i \in Items : Truthful(r, i, status[r][i])
    /\ \A w \in Reported : st[w.req] \in Late /\ Truthful(w.req, w.item, w.status)

\* Behind its poll a request is not sent again: what is true of its outcome stays true.
LEMMA TruthStays ==
    ASSUME AllTyped, DeliveryOK, [Next]_vars, NEW r \in Requests, st[r] \notin Early,
           NEW i, NEW s, Truthful(r, i, s)
    PROVE  Truthful(r, i, s)'
<1>1. CASE NoTraffic BY <1>1 DEF NoTraffic, Truthful, Changed, OnWire
<1>2. ASSUME NEW q \in Requests, Sent(q) PROVE Truthful(r, i, s)'
  <2>1. q # r /\ applied' = applied BY <1>2 DEF Sent, Early
  <2>2. OnWire(r)' => OnWire(r)
    <3>1. ReadOf(q) # [op |-> "change", req |-> r] /\ ChangeOf(q) # [op |-> "change", req |-> r]
        BY <2>1 DEF ReadOf, ChangeOf
    <3> QED BY <1>2, <3>1, SentWire DEF OnWire
  <2>3. Changed(r, i)' <=> Changed(r, i) BY <2>1 DEF Changed
  <2> QED BY <2>2, <2>3 DEF Truthful
<1>3. CASE UpstreamLost
  <2>1. OnWire(r)' => OnWire(r) BY <1>3, LostFacts DEF OnWire
  <2>2. Changed(r, i)' <=> Changed(r, i) BY <1>3, LostFacts DEF Changed, server
  <2> QED BY <2>1, <2>2 DEF Truthful
<1>4. CASE Serve
  <2>1. OnWire(r)' => OnWire(r) BY <1>4, ServeFacts DEF OnWire
  <2>2. applied \subseteq applied' BY <1>4, ServeFacts
  <2>3. Changed(r, i) => Changed(r, i)' BY <2>2 DEF Changed
  <2>4. Changed(r, i)' => Changed(r, i) \/ OnWire(r)
    <3> SUFFICES ASSUME NEW c \in applied', c.req = r, c.item = i, c \notin applied PROVE OnWire(r)
        BY DEF Changed
    <3>1. wire[1].op = "change" /\ c.req = wire[1].req BY <1>4, ServeFacts
    <3>2. 1 \in DOMAIN wire /\ wire[1] = [op |-> "change", req |-> r] BY <1>4, <3>1, ServeFacts DEF Message
    <3> QED BY <3>2 DEF OnWire
  <2> QED BY <2>1, <2>3, <2>4 DEF Truthful
<1> QED BY <1>1, <1>2, <1>3, <1>4, TrafficCases

\* send of r returns in this step: with what an answer says, or without one.
Returns(r) ==
    /\ UNCHANGED <<wire, applied>>
    /\ left'[r] \subseteq Touches[r]
    /\ left'[r] = Touches[r] \/ status'[r] = All("Bad")
    /\ \/ st[r] \in Early /\ status'[r] = All("Bad")
       \/ status'[r] = All("Uncertain")
       \/ \E a \in answers : /\ a.op = "change" /\ a.req = r
                             /\ status'[r] = [i \in Items |-> IF i \in a.good THEN "Good" ELSE "Bad"]

LEMMA ReturnedFacts ==
    ASSUME AllTyped, NEW r \in Requests, NEW kept, NEW s, NEW failed \in BOOLEAN, Returned(r, kept, s, failed)
    PROVE  /\ st'[r] = "recording" /\ status'[r] = s
           /\ left'[r] \subseteq Touches[r] /\ (~failed => left'[r] = Touches[r])
           /\ \A q \in Requests \ {r} : st'[q] = st[q] /\ status'[q] = status[q] /\ left'[q] = left[q]
<1>1. PICK L \in Sampled(r, kept, failed) : left' = [left EXCEPT ![r] = L] BY DEF Returned
<1>2. L \subseteq Touches[r] /\ (~failed => L = Touches[r]) BY <1>1 DEF Sampled
<1> QED BY <1>1, <1>2 DEF Returned, AllTyped, ProgressTyped

\* How far a request gets in one step, and what changes of its outcome.
Progress(r) ==
    /\ st[r] \in Late => st'[r] \in Late
    /\ st[r] # "recording" /\ st'[r] = "recording" => Returns(r)
    /\ st[r] = "recording" => status'[r] = status[r]
    /\ st[r] \in Late => left'[r] \subseteq left[r]

LEMMA SendProgress ==
    ASSUME AllTyped, NEW r \in Requests, NEW kept, NEW asks \in BOOLEAN, Send(r, kept, asks),
           st[r] \in {"pushed", "intent"}, applied' = applied, NEW q \in Requests
    PROVE  Progress(q)
<1>1. CASE st' = [st EXCEPT ![r] = "sent"] /\ UNCHANGED <<status, left>>
    BY <1>1 DEF Progress, Late, AllTyped, ProgressTyped
<1>2. CASE Returned(r, kept, All("Bad"), TRUE) /\ UNCHANGED <<wire, order>>
    BY <1>2, ReturnedFacts DEF Progress, Late, Returns, Early
<1>3. CASE Returned(r, kept, All("Uncertain"), FALSE) /\ UNCHANGED <<wire, order>>
    BY <1>3, ReturnedFacts DEF Progress, Late, Returns, Early
<1> QED BY <1>1, <1>2, <1>3 DEF Send

LEMMA ProgressSteps ==
    ASSUME AllTyped, DeliveryOK, [Next]_vars, NEW q \in Requests PROVE Progress(q)
<1> USE DEF AllTyped, ProgressTyped
<1>1. ASSUME NEW r \in Requests, Handle(r) \/ Future(r) PROVE Progress(q)
  <2>1. CASE Handle(r) \/ Rejected(r) \/ Respond(r)
      BY <2>1 DEF Handle, Rejected, Respond, Acknowledged, Busy, Progress, Late
  <2>2. CASE Poll(r)
    <3> DEFINE kept == Touches[r] \ summarise
    <3>1. PICK asks \in BOOLEAN :
            IF kept # {} /\ fail_closed
            THEN st' = [st EXCEPT ![r] = "intent"] /\ UNCHANGED <<wire, order, status, left>>
            ELSE Send(r, kept, asks)
        BY <2>2 DEF Poll
    <3>2. st[r] = "pushed" /\ applied' = applied BY <2>2 DEF Poll, FirstInLine, server
    <3>3. CASE kept # {} /\ fail_closed BY <3>1, <3>2, <3>3 DEF Progress, Late
    <3>4. CASE ~(kept # {} /\ fail_closed)
      <4>1. Send(r, kept, asks) BY <3>1, <3>4
      <4> HIDE DEF kept
      <4> QED BY <4>1, <3>2, SendProgress
    <3> QED BY <3>3, <3>4
  <2>3. CASE Forwarded(r)
    <3> DEFINE kept == Touches[r] \ taken[r]
               asks == reading[r] = "asked"
    <3>1. Send(r, kept, asks) /\ asks \in BOOLEAN BY <2>3 DEF Forwarded
    <3>2. st[r] = "intent" /\ applied' = applied BY <2>3 DEF Forwarded, Acknowledged, server
    <3> HIDE DEF kept, asks
    <3> QED BY <3>1, <3>2, SendProgress
  <2>4. CASE ReadFailed(r) BY <2>4 DEF ReadFailed, Progress
  <2>5. CASE NoResponse(r)
    <3>1. Returned(r, Touches[r] \ taken[r], All("Uncertain"), FALSE) BY <2>5 DEF NoResponse
    <3>2. st[r] = "sent" /\ UNCHANGED <<wire, applied>> BY <2>5 DEF NoResponse, channel, server
    <3> QED BY <3>1, <3>2, ReturnedFacts DEF Progress, Late, Returns
  <2>6. CASE \E i \in Items : Count(r, i) \/ RecordOutcome(r, i)
      BY <2>6 DEF Count, RecordOutcome, Progress
  <2> QED BY <1>1, <2>1, <2>2, <2>3, <2>4, <2>5, <2>6 DEF Future
<1>2. ASSUME NEW a \in answers, Answered(a) PROVE Progress(q)
  <2> DEFINE s == [i \in Items |-> IF i \in a.good THEN "Good" ELSE "Bad"]
  <2>1. a \in Answer BY DEF ServerTyped
  <2>2. /\ a.op = "change" /\ a.req \in Requests /\ a.fault \in BOOLEAN /\ st[a.req] = "sent"
        /\ Returned(a.req, Touches[a.req] \ taken[a.req], s, a.fault)
        /\ UNCHANGED <<wire, applied>>
      BY <1>2, <2>1 DEF Answered, Answer, server
  <2>3. a.fault => s = All("Bad")
    <3>1. a.fault => a.good = {} BY <2>2 DEF DeliveryOK, ServerOK
    <3> QED BY <3>1 DEF All
  <2>4. s = [i \in Items |-> IF i \in a.good THEN "Good" ELSE "Bad"] OBVIOUS
  <2> HIDE DEF s
  <2>5. /\ st'[a.req] = "recording" /\ status'[a.req] = s
        /\ left'[a.req] \subseteq Touches[a.req] /\ (~a.fault => left'[a.req] = Touches[a.req])
        /\ \A p \in Requests \ {a.req} : st'[p] = st[p] /\ status'[p] = status[p] /\ left'[p] = left[p]
      BY <2>2, ReturnedFacts
  <2>6. CASE q = a.req
    <3>1. Returns(q) BY <2>2, <2>3, <2>4, <2>5, <2>6 DEF Returns
    <3> QED BY <2>2, <2>6, <3>1 DEF Progress, Late
  <2>7. CASE q # a.req BY <2>5, <2>7 DEF Progress
  <2> QED BY <2>6, <2>7
<1>3. ASSUME NEW a \in answers, ReadAnswered(a) PROVE Progress(q) BY <1>3 DEF ReadAnswered, Progress
<1>4. CASE Serve \/ UpstreamLost \/ LossNoticed \/ Close \/ DrainTimeout \/ Gone \/ Shutdown \/ Stopped
           \/ SetFailMode \/ SetSummarise \/ UNCHANGED vars
    BY <1>4 DEF Serve, UpstreamLost, LossNoticed, Close, DrainTimeout, Gone, Shutdown, Stopped, SetFailMode,
                SetSummarise, vars, futures, Progress
<1>5. CASE Leave \/ CloseTimeout \/ Exit
    BY <1>5 DEF Leave, CloseTimeout, Exit, Progress, Late
<1>6. CASE Drained \/ SummaryDue \/ StopServing \/ \E h \in DOMAIN holding : RecordSummary(h)
    BY <1>6 DEF Drained, SummaryDue, StopServing, RecordSummary, futures, Progress
<1> HIDE ForwardAssumption DEF ForwardAssumption, AllTyped, ProgressTyped
<1> QED BY <1>1, <1>2, <1>3, <1>4, <1>5, <1>6, StepKinds

\* A step that tells something new: the outcome of one item that was left.
Tells(r, i) ==
    /\ st[r] = "recording" /\ i \in left[r]
    /\ left' = [left EXCEPT ![r] = @ \ {i}] /\ st' = st

\* The trail grows by a record, or not at all.
LEMMA RecordedGrows == ASSUME NEW rec, Recorded(rec) PROVE trail \subseteq trail' /\ trail' \subseteq trail \cup {rec}
BY DEF Recorded

\* What is told is what was told before, and what the step tells.
LEMMA ReportedGrows ==
    ASSUME AllTyped, [Next]_vars, NEW w \in Reported'
    PROVE  w \in Reported \/ \E r \in Requests, i \in Items : Tells(r, i) /\ w = Counted(r, i)
<1>h. DOMAIN holding = Holders BY DEF AllTyped, TrailTyped
<1>1. ASSUME trail' = trail,
             ignored' \cup holding'["conn"] \cup holding'["serve"]
               \subseteq ignored \cup holding["conn"] \cup holding["serve"]
      PROVE  w \in Reported
    BY <1>1 DEF Reported, Outcomes, Summarised
<1>2. ASSUME UNCHANGED <<ignored, holding>>, NEW t, t.what = "intent", trail' \subseteq trail \cup {t}
      PROVE  w \in Reported
    BY <1>2 DEF Reported, Outcomes, Summarised
<1>3. ASSUME NEW r \in Requests, Handle(r) \/ Future(r)
      PROVE  w \in Reported \/ \E i \in Items : Tells(r, i) /\ w = Counted(r, i)
  <2>1. CASE Handle(r) \/ Poll(r) \/ ReadFailed(r) \/ NoResponse(r) \/ Respond(r)
    <3>1. UNCHANGED <<trail, ignored, holding>> BY <2>1 DEF Handle, Poll, ReadFailed, NoResponse, Respond
    <3> QED BY <1>1, <3>1
  <2>2. CASE Forwarded(r) \/ Rejected(r)
    <3>1. UNCHANGED <<ignored, holding>> /\ trail' \subseteq trail \cup {Intent(r)}
        BY <2>2 DEF Forwarded, Rejected
    <3>2. Intent(r).what = "intent" BY DEF Intent
    <3> QED BY <1>2, <3>1, <3>2
  <2>3. ASSUME NEW i \in Items, Count(r, i) \/ RecordOutcome(r, i)
        PROVE  w \in Reported \/ (Tells(r, i) /\ w = Counted(r, i))
    <3>1. Tells(r, i) /\ UNCHANGED holding BY <2>3 DEF Count, RecordOutcome, Busy, Tells
    <3>2. CASE ignored' = ignored \cup {Counted(r, i)} /\ trail' = trail
        BY <3>1, <3>2 DEF Reported, Outcomes, Summarised
    <3>3. ASSUME ignored' = ignored, NEW was, Recorded(Outcome(r, i, was))
          PROVE  w \in Reported \/ w = Counted(r, i)
      <4>1. trail' \subseteq trail \cup {Outcome(r, i, was)} BY <3>3, RecordedGrows
      <4>2. /\ Outcome(r, i, was).what = "outcome"
            /\ Counted(r, i) = [req |-> Outcome(r, i, was).req, item |-> Outcome(r, i, was).item,
                                status |-> Outcome(r, i, was).status]
          BY DEF Outcome, Counted
      <4> HIDE DEF Outcome, Counted
      <4>3. Outcomes' \subseteq Outcomes \cup {Outcome(r, i, was)} /\ Summarised' \subseteq Summarised
          BY <4>1, <4>2 DEF Outcomes, Summarised
      <4> QED BY <3>1, <3>3, <4>2, <4>3 DEF Reported
    <3> QED BY <2>3, <3>1, <3>2, <3>3 DEF Count, RecordOutcome
  <2> QED BY <1>3, <2>1, <2>2, <2>3 DEF Future
<1>4. CASE Serve \/ UpstreamLost \/ LossNoticed \/ \E a \in answers : Answered(a) \/ ReadAnswered(a)
  <2>1. UNCHANGED <<trail, ignored, holding>>
      BY <1>4 DEF Serve, UpstreamLost, LossNoticed, Answered, ReadAnswered
  <2> QED BY <1>1, <2>1
<1>5. CASE Close \/ Leave \/ DrainTimeout \/ Gone \/ Shutdown \/ Stopped \/ SetFailMode \/ SetSummarise \/ UNCHANGED vars
  <2>1. UNCHANGED <<trail, ignored, holding>>
      BY <1>5 DEF Close, Leave, DrainTimeout, Gone, Shutdown, Stopped, SetFailMode, SetSummarise, vars
  <2> QED BY <1>1, <2>1
<1>6. CASE CloseTimeout \/ Drained \/ SummaryDue \/ StopServing \/ Exit
  <2>1. trail' = trail
      BY <1>6 DEF CloseTimeout, Drained, SummaryDue, StopServing, Exit
  <2>2. ignored' \cup holding'["conn"] \cup holding'["serve"]
          \subseteq ignored \cup holding["conn"] \cup holding["serve"]
      BY <1>6, <1>h DEF CloseTimeout, Drained, SummaryDue, StopServing, TakeIgnored, Exit, Holders
  <2> QED BY <1>1, <2>1, <2>2
<1>7. ASSUME NEW h \in DOMAIN holding, RecordSummary(h) PROVE w \in Reported
  <2>1. PICK x \in holding[h] :
          LET W == {v \in holding[h] : v.item = x.item}
          IN  holding' = [holding EXCEPT ![h] = @ \ W] /\ Recorded(Summary(W))
      BY <1>7 DEF RecordSummary
  <2> DEFINE W == {v \in holding[h] : v.item = x.item}
  <2>2. holding' = [holding EXCEPT ![h] = @ \ W] /\ Recorded(Summary(W)) /\ W \subseteq holding[h] BY <2>1
  <2>3. Summary(W).what = "summary" /\ Summary(W).writes = W BY DEF Summary
  <2> HIDE DEF W
  <2>4. trail' \subseteq trail \cup {Summary(W)} BY <2>2, RecordedGrows
  <2>5. Outcomes' \subseteq Outcomes /\ Summarised' \subseteq Summarised \cup W
      BY <2>3, <2>4 DEF Outcomes, Summarised
  <2>6. /\ holding'["conn"] \subseteq holding["conn"] /\ holding'["serve"] \subseteq holding["serve"]
        /\ W \subseteq holding["conn"] \cup holding["serve"]
      BY <2>2, <1>7, <1>h DEF Holders
  <2>7. ignored' = ignored BY <1>7 DEF RecordSummary
  <2> QED BY <2>5, <2>6, <2>7 DEF Reported
<1> HIDE ForwardAssumption DEF ForwardAssumption
<1> QED BY <1>3, <1>4, <1>5, <1>6, <1>7, StepKinds

LEMMA OutcomesTyped == ASSUME AllTyped PROVE Outcomes \subseteq OutcomeRecord
<1>1. \A t \in trail : t \in Record BY DEF AllTyped, TrailTyped
<1> QED BY <1>1 DEF Outcomes, Record, IntentRecord, SummaryRecord

\* What is told is typed.
LEMMA ReportedTyped == ASSUME AllTyped PROVE Reported \subseteq Write
<1>1. ignored \subseteq Write /\ holding["conn"] \subseteq Write /\ holding["serve"] \subseteq Write
    BY DEF AllTyped, TrailTyped, Holders
<1>2. \A t \in trail : t \in Record BY DEF AllTyped, TrailTyped
<1>3. \A t \in trail : t.what = "summary" => t \in SummaryRecord
    BY <1>2 DEF Record, IntentRecord, OutcomeRecord
<1>4. \A o \in Outcomes : [req |-> o.req, item |-> o.item, status |-> o.status] \in Write
    BY OutcomesTyped DEF OutcomeRecord, Write
<1>5. Summarised \subseteq Write BY <1>3 DEF Summarised, SummaryRecord
<1> QED BY <1>1, <1>4, <1>5 DEF Reported

LEMMA ToldInit == Init => ToldOK
<1> SUFFICES ASSUME Init PROVE ToldOK OBVIOUS
<1>1. Reported = {} BY DEF Init, Reported, Outcomes, Summarised
<1> QED BY <1>1 DEF Init, ToldOK

LEMMA ToldKept == ASSUME AllTyped, DeliveryOK, ToldOK, [Next]_vars PROVE ToldOK'
<1>1. ASSUME NEW r \in Requests, st'[r] = "recording", NEW i \in Items
      PROVE  Truthful(r, i, status[r][i])'
  <2>1. CASE st[r] = "recording"
    <3>1. status'[r] = status[r] BY <2>1, ProgressSteps DEF Progress
    <3>2. PICK s : s = status[r][i] OBVIOUS
    <3>3. Truthful(r, i, s) BY <2>1, <3>2 DEF ToldOK
    <3>4. Truthful(r, i, s)' BY <2>1, <3>3, TruthStays DEF Early
    <3> QED BY <3>1, <3>2, <3>4 DEF Truthful
  <2>2. CASE st[r] # "recording"
    <3>1. Returns(r) BY <1>1, <2>2, ProgressSteps DEF Progress
    <3>2. (Changed(r, i)' <=> Changed(r, i)) /\ (OnWire(r)' <=> OnWire(r))
        BY <3>1 DEF Returns, Changed, OnWire
    <3>3. CASE st[r] \in Early /\ status'[r] = All("Bad")
      <4>1. ~Changed(r, i) BY <3>3 DEF DeliveryOK, ServerOK, Changed
      <4>2. ~OnWire(r) BY <3>3 DEF DeliveryOK, WireOK, OnWire
      <4> QED BY <3>2, <3>3, <4>1, <4>2 DEF Truthful, All
    <3>4. CASE status'[r] = All("Uncertain") BY <3>4 DEF Truthful, All
    <3>5. ASSUME NEW a \in answers, a.op = "change", a.req = r,
                 status'[r] = [j \in Items |-> IF j \in a.good THEN "Good" ELSE "Bad"]
          PROVE  Truthful(r, i, status[r][i])'
      <4>1. i \in a.good <=> Changed(r, i) BY <3>5 DEF DeliveryOK, ServerOK
      <4>2. ~OnWire(r) BY <3>5 DEF DeliveryOK, WireOK, OnWire
      <4> QED BY <3>2, <3>5, <4>1, <4>2 DEF Truthful
    <3> QED BY <3>1, <3>3, <3>4, <3>5 DEF Returns
  <2> QED BY <2>1, <2>2
<1>2. ASSUME NEW w \in Reported' PROVE st'[w.req] \in Late /\ Truthful(w.req, w.item, w.status)'
  <2>1. CASE w \in Reported
    <3>1. w \in Write /\ w.req \in Requests BY <2>1, ReportedTyped DEF Write
    <3>2. st[w.req] \in Late /\ Truthful(w.req, w.item, w.status) BY <2>1 DEF ToldOK
    <3>3. st[w.req] \notin Early BY <3>2 DEF Late, Early
    <3>4. st'[w.req] \in Late BY <3>1, <3>2, ProgressSteps DEF Progress
    <3> QED BY <3>1, <3>2, <3>3, <3>4, TruthStays
  <2>2. ASSUME NEW r \in Requests, NEW i \in Items, Tells(r, i), w = Counted(r, i)
        PROVE  st'[w.req] \in Late /\ Truthful(w.req, w.item, w.status)'
    <3>1. w.req = r /\ w.item = i /\ w.status = status[r][i] BY <2>2 DEF Counted
    <3>2. st[r] = "recording" /\ st'[r] = "recording" BY <2>2 DEF Tells
    <3>3. Truthful(w.req, w.item, w.status) BY <3>1, <3>2 DEF ToldOK
    <3> QED BY <3>1, <3>2, <3>3, TruthStays DEF Late, Early
  <2> QED BY <2>1, <2>2, ReportedGrows
<1> QED BY <1>1, <1>2 DEF ToldOK

LEMMA ToldInvariance == Spec => [](AllTyped /\ DeliveryOK /\ ToldOK)
<1>1. Init => DeliveryOK /\ ToldOK BY DeliveryInit, ToldInit
<1>2. AllTyped /\ DeliveryOK /\ ToldOK /\ [Next]_vars => DeliveryOK' /\ ToldOK' BY DeliveryKept, ToldKept
<1> QED BY <1>1, <1>2, TypedInvariance, PTL DEF Spec

\* item_status and SendError.maybe_sent, for any number of requests and items: an outcome
\* recorded or summarised as "Good" was applied by the server, and one told as "Bad" is
\* never applied, not even after it was told, however the channel breaks or times out.
THEOREM OutcomesAreTrue == Spec => []OutcomeTruthful
<1>1. ToldOK => OutcomeTruthful BY DEF ToldOK, OutcomeTruthful, Truthful, Changed
<1> QED BY <1>1, ToldInvariance, PTL
-------------------------------------------------------------------------------
(* The old values.                                                         *)

\* v is the value that the change of r replaces, or has replaced.
Replaced(r, v) ==
    \/ wire # << >> /\ wire[1] = ChangeOf(r) /\ v.was = value[v.item]
    \/ ~OnWire(r) /\ \A c \in applied : c.req = r /\ c.item = v.item => c.was = v.was

\* Every old value on its way back, read or recorded is the one its change replaces.
OldOK ==
    /\ \A r \in Requests : \A v \in old[r] : Replaced(r, v) /\ st[r] \notin Early
    /\ \A a \in answers : a.op = "read" => \A v \in a.values : Replaced(a.req, v)
    /\ \A o \in Outcomes : \A v \in o.old : Replaced(o.req, v) /\ v.item = o.item

\* Between the read and the change of a request the server takes no other message.
LEMMA ReplacedStays ==
    ASSUME AllTyped, DeliveryOK, [Next]_vars, NEW r \in Requests, st[r] \notin Early,
           NEW v \in WasValue, Replaced(r, v)
    PROVE  Replaced(r, v)'
<1>0. /\ wire \in Seq(Message) /\ v.item \in Items
      /\ ChangeOf(r) = [op |-> "change", req |-> r] /\ ChangeOf(r).req = r
    BY DEF AllTyped, ChannelTyped, WasValue, ChangeOf
<1>1. CASE NoTraffic BY <1>1 DEF NoTraffic, Replaced, OnWire
<1>2. ASSUME NEW q \in Requests, Sent(q) PROVE Replaced(r, v)'
  <2>1. q # r /\ applied' = applied /\ value' = value BY <1>2 DEF Sent, Early
  <2>2. OnWire(r)' => OnWire(r)
    <3>1. ReadOf(q) # [op |-> "change", req |-> r] /\ ChangeOf(q) # [op |-> "change", req |-> r]
        BY <2>1 DEF ReadOf, ChangeOf
    <3> QED BY <1>2, <3>1, SentWire DEF OnWire
  <2>3. wire # << >> => wire' # << >> /\ wire'[1] = wire[1]
    <3> SUFFICES ASSUME wire # << >> PROVE wire' # << >> /\ wire'[1] = wire[1] OBVIOUS
    <3>1. 1 \in DOMAIN wire BY <1>0
    <3>2. 1 \in DOMAIN wire' /\ wire'[1] = wire[1] BY <1>2, <3>1, SentWire
    <3> QED BY <3>2
  <2> QED BY <2>1, <2>2, <2>3 DEF Replaced
<1>3. CASE UpstreamLost
  <2>1. UNCHANGED <<value, applied>> BY <1>3, LostFacts DEF server
  <2>2. OnWire(r)' => OnWire(r) BY <1>3, LostFacts DEF OnWire
  <2>3. CASE wire # << >> /\ wire[1] = ChangeOf(r) /\ v.was = value[v.item]
    <3>1. 1 \in DOMAIN wire BY <1>0, <2>3
    <3>2. \A c \in applied : c.req # r BY <1>0, <2>3, <3>1 DEF DeliveryOK, WireOK
    <3>3. CASE wire' = << >> BY <2>1, <3>2, <3>3 DEF Replaced, OnWire
    <3>4. CASE 1 \in DOMAIN wire' /\ wire'[1] = wire[1]
      <4>1. wire' # << >> BY <3>4
      <4>2. ChangeOf(r)' = ChangeOf(r) BY DEF ChangeOf
      <4> QED BY <2>1, <2>3, <3>4, <4>1, <4>2 DEF Replaced
    <3> QED BY <1>3, <3>3, <3>4, LostFacts
  <2>4. CASE ~OnWire(r) /\ \A c \in applied : c.req = r /\ c.item = v.item => c.was = v.was
      BY <2>1, <2>2, <2>4 DEF Replaced
  <2> QED BY <2>3, <2>4 DEF Replaced
<1>4. CASE Serve
  <2>1. OnWire(r)' => OnWire(r) BY <1>4, ServeFacts DEF OnWire
  <2>2. CASE wire # << >> /\ wire[1] = ChangeOf(r) /\ v.was = value[v.item]
    <3>1. wire[1].op = "change" /\ wire[1].req = r /\ 1 \in DOMAIN wire BY <1>0, <2>2 DEF ChangeOf
    <3>2. \A c \in applied : c.req # r BY <3>1 DEF DeliveryOK, WireOK
    <3>a. PICK good \in SUBSET Touches[r], fault \in BOOLEAN :
            /\ answers' = answers \cup {[op |-> "change", req |-> r, good |-> good, fault |-> fault]}
            /\ applied' = applied \cup {[req |-> r, item |-> i, was |-> value[i]] : i \in good}
        BY <1>4, <3>1, ServedChange
    <3>3. \A c \in applied' : c \in applied \/ (c.was = value[c.item]) BY <3>a
    <3>4. PICK a \in answers' : a.op = "change" /\ a.req = r
      <4>1. PICK a : a = [op |-> "change", req |-> r, good |-> good, fault |-> fault] OBVIOUS
      <4> QED BY <3>a, <4>1
    <3>5. DeliveryOK' BY DeliveryKept
    <3>6. ~OnWire(r)'
      <4>1. \A k \in DOMAIN wire' : wire'[k].req # r BY <3>4, <3>5 DEF DeliveryOK, WireOK
      <4> QED BY <4>1 DEF OnWire
    <3> QED BY <2>2, <3>2, <3>3, <3>6 DEF Replaced
  <2>3. CASE ~OnWire(r) /\ \A c \in applied : c.req = r /\ c.item = v.item => c.was = v.was
    <3>1. \A c \in applied' : c.req = r => c \in applied
      <4> SUFFICES ASSUME NEW c \in applied', c.req = r, c \notin applied PROVE FALSE OBVIOUS
      <4>1. wire[1].op = "change" /\ c.req = wire[1].req BY <1>4, ServeFacts
      <4>2. 1 \in DOMAIN wire /\ wire[1] = [op |-> "change", req |-> r] BY <1>4, <4>1, ServeFacts DEF Message
      <4> QED BY <2>3, <4>2 DEF OnWire
    <3> QED BY <2>1, <2>3, <3>1 DEF Replaced
  <2> QED BY <2>2, <2>3 DEF Replaced
<1> QED BY <1>1, <1>2, <1>3, <1>4, TrafficCases

\* The server reads the values that its next message changes.
LEMMA ReadIsReplaced ==
    ASSUME AllTyped, DeliveryOK, [Next]_vars, Serve, wire[1].op = "read", NEW r \in Requests, r = wire[1].req,
           NEW i \in Items, NEW v, v = [item |-> i, was |-> value[i]]
    PROVE  Replaced(r, v)'
<1>1. /\ 1 \in DOMAIN wire /\ UNCHANGED <<value, applied>>
      /\ \A k \in DOMAIN wire' : k + 1 \in DOMAIN wire /\ k \in Nat \ {0} /\ wire'[k] = wire[k + 1]
    BY ServeFacts
<1>2. \A c \in applied : c.req # r BY <1>1 DEF DeliveryOK, WireOK
<1>3. CASE OnWire(r)'
  <2>1. PICK k \in DOMAIN wire' : wire'[k] = [op |-> "change", req |-> r] BY <1>3 DEF OnWire
  <2>2. wire[k + 1].op = "change" /\ wire[k + 1].req = r /\ k + 1 \in DOMAIN wire BY <1>1, <2>1
  <2>3. k + 1 = 1 + 1 BY <1>1, <2>2 DEF DeliveryOK, WireOK
  <2>4. k = 1 BY <1>1, <2>1, <2>3
  <2>5. wire'[1] = ChangeOf(r) /\ wire' # << >> BY <2>1, <2>4 DEF ChangeOf
  <2>6. v.was = value'[v.item] BY <1>1
  <2> QED BY <2>5, <2>6 DEF Replaced, ChangeOf
<1>4. CASE ~OnWire(r)' BY <1>1, <1>2, <1>4 DEF Replaced
<1> QED BY <1>3, <1>4

\* A future learns old values from the answer to its read only.
LEMMA OldGrows ==
    ASSUME AllTyped, [Next]_vars, NEW r \in Requests, NEW v \in old'[r]
    PROVE  v \in old[r] \/ \E a \in answers : a.op = "read" /\ a.req = r /\ v \in a.values
<1>1. ASSUME old' = old PROVE v \in old[r] BY <1>1
<1>2. ASSUME NEW q \in Requests, Handle(q) \/ Future(q) PROVE old' = old
    BY <1>2 DEF Handle, Future, Poll, Forwarded, Rejected, ReadFailed, NoResponse, Respond, Count, RecordOutcome
<1>3. ASSUME NEW a \in answers, ReadAnswered(a)
      PROVE  v \in old[r] \/ (a.op = "read" /\ a.req = r /\ v \in a.values)
    BY <1>3 DEF ReadAnswered, AllTyped, PlanTyped
<1>4. ASSUME NEW a \in answers, Answered(a) PROVE old' = old BY <1>4 DEF Answered
<1>5. CASE Serve \/ UpstreamLost \/ LossNoticed \/ Close \/ Leave \/ DrainTimeout \/ CloseTimeout \/ Drained \/ Gone
           \/ SummaryDue \/ Shutdown \/ StopServing \/ Stopped \/ Exit \/ SetFailMode \/ SetSummarise
           \/ UNCHANGED vars \/ \E h \in DOMAIN holding : RecordSummary(h)
  <2>1. old' = old
      BY <1>5 DEF Serve, UpstreamLost, LossNoticed, Close, Leave, DrainTimeout, CloseTimeout, Drained, Gone,
                  SummaryDue, Shutdown, StopServing, Stopped, Exit, SetFailMode, SetSummarise, RecordSummary,
                  vars, futures
  <2> QED BY <2>1
<1> HIDE ForwardAssumption DEF ForwardAssumption
<1> QED BY <1>1, <1>2, <1>3, <1>4, <1>5, StepKinds

\* An outcome is recorded with the old values its future has for the item.
LEMMA OutcomesGrow ==
    ASSUME AllTyped, [Next]_vars, NEW o \in Outcomes'
    PROVE  \/ o \in Outcomes
           \/ \E r \in Requests, i \in Items :
                Tells(r, i) /\ o.req = r /\ o.item = i /\ o.old \subseteq {v \in old[r] : v.item = i}
<1>1. ASSUME trail' = trail PROVE o \in Outcomes BY <1>1 DEF Outcomes
<1>2. ASSUME NEW t, t.what # "outcome", trail' \subseteq trail \cup {t} PROVE o \in Outcomes
    BY <1>2 DEF Outcomes
<1>3. ASSUME NEW r \in Requests, Handle(r) \/ Future(r)
      PROVE  \/ o \in Outcomes
             \/ \E i \in Items :
                  Tells(r, i) /\ o.req = r /\ o.item = i /\ o.old \subseteq {v \in old[r] : v.item = i}
  <2>1. CASE Handle(r) \/ Poll(r) \/ ReadFailed(r) \/ NoResponse(r) \/ Respond(r)
    <3>1. trail' = trail BY <2>1 DEF Handle, Poll, ReadFailed, NoResponse, Respond
    <3> QED BY <1>1, <3>1
  <2>2. CASE Forwarded(r) \/ Rejected(r)
    <3>1. trail' \subseteq trail \cup {Intent(r)} BY <2>2 DEF Forwarded, Rejected
    <3>2. Intent(r).what # "outcome" BY DEF Intent
    <3> QED BY <1>2, <3>1, <3>2
  <2>3. ASSUME NEW i \in Items, Count(r, i) \/ RecordOutcome(r, i)
        PROVE  \/ o \in Outcomes
               \/ Tells(r, i) /\ o.req = r /\ o.item = i /\ o.old \subseteq {v \in old[r] : v.item = i}
    <3>1. Tells(r, i) BY <2>3 DEF Count, RecordOutcome, Busy, Tells
    <3>2. ASSUME NEW was, was \subseteq {v \in old[r] : v.item = i}, Recorded(Outcome(r, i, was))
          PROVE  \/ o \in Outcomes
                 \/ Tells(r, i) /\ o.req = r /\ o.item = i /\ o.old \subseteq {v \in old[r] : v.item = i}
      <4>1. trail' \subseteq trail \cup {Outcome(r, i, was)} BY <3>2, RecordedGrows
      <4>2. o \in Outcomes \/ o = Outcome(r, i, was) BY <4>1 DEF Outcomes
      <4>3. Outcome(r, i, was).req = r /\ Outcome(r, i, was).item = i /\ Outcome(r, i, was).old = was
          BY DEF Outcome
      <4> QED BY <3>1, <3>2, <4>2, <4>3
    <3> QED BY <1>1, <2>3, <3>2 DEF Count, RecordOutcome
  <2> QED BY <1>3, <2>1, <2>2, <2>3 DEF Future
<1>4. CASE Serve \/ UpstreamLost \/ LossNoticed \/ \E a \in answers : Answered(a) \/ ReadAnswered(a)
  <2>1. trail' = trail BY <1>4 DEF Serve, UpstreamLost, LossNoticed, Answered, ReadAnswered
  <2> QED BY <1>1, <2>1
<1>5. CASE Close \/ Leave \/ DrainTimeout \/ CloseTimeout \/ Drained \/ Gone \/ SummaryDue \/ Shutdown
           \/ StopServing \/ Stopped \/ Exit \/ SetFailMode \/ SetSummarise \/ UNCHANGED vars
  <2>1. trail' = trail
      BY <1>5 DEF Close, Leave, DrainTimeout, CloseTimeout, Drained, Gone, SummaryDue, Shutdown, StopServing,
                  Stopped, Exit, SetFailMode, SetSummarise, vars
  <2> QED BY <1>1, <2>1
<1>6. ASSUME NEW h \in DOMAIN holding, RecordSummary(h) PROVE o \in Outcomes
  <2>1. PICK W : Recorded(Summary(W)) BY <1>6 DEF RecordSummary
  <2>2. trail' \subseteq trail \cup {Summary(W)} BY <2>1, RecordedGrows
  <2>3. Summary(W).what # "outcome" BY DEF Summary
  <2> QED BY <1>2, <2>2, <2>3
<1> HIDE ForwardAssumption DEF ForwardAssumption
<1> QED BY <1>3, <1>4, <1>5, <1>6, StepKinds

LEMMA OldInit == Init => OldOK
BY DEF Init, OldOK, Outcomes

LEMMA OldKept == ASSUME AllTyped, DeliveryOK, ToldOK, OldOK, [Next]_vars PROVE OldOK'
<1>0. AllTyped' /\ DeliveryOK' BY TypedStep, DeliveryKept
<1>1. ASSUME NEW a \in answers, a.op = "read", NEW v \in a.values
      PROVE  a.req \in Requests /\ v \in WasValue /\ Replaced(a.req, v)' /\ st[a.req] \notin Early
  <2>1. a \in Answer BY DEF AllTyped, ServerTyped
  <2>2. a.req \in Requests /\ a.values \in SUBSET WasValue BY <1>1, <2>1 DEF Answer
  <2>3. st[a.req] \notin Early /\ Replaced(a.req, v) BY <1>1 DEF DeliveryOK, ServerOK, OldOK
  <2> QED BY <2>2, <2>3, ReplacedStays
<1>2. ASSUME NEW r \in Requests, NEW v \in old[r] PROVE Replaced(r, v)' /\ st[r] \notin Early
  <2>1. v \in WasValue BY DEF AllTyped, PlanTyped
  <2>2. Replaced(r, v) /\ st[r] \notin Early BY DEF OldOK
  <2> QED BY <2>1, <2>2, ReplacedStays
<1>3. ASSUME NEW r \in Requests, NEW v \in old'[r] PROVE Replaced(r, v)' /\ st'[r] \notin Early
  <2>1. st[r] \notin Early /\ Replaced(r, v)' BY <1>1, <1>2, OldGrows
  <2>2. st'[r] \notin Early BY <2>1, PolledStays
  <2> QED BY <2>1, <2>2
<1>4. ASSUME NEW a \in answers', a.op = "read", NEW v \in a.values PROVE Replaced(a.req, v)'
  <2>1. CASE a \in answers BY <1>1, <1>4, <2>1
  <2>2. CASE a \notin answers
    <3>1. Serve
      <4>1. NoTraffic => a \in answers BY DEF NoTraffic
      <4>2. (\E r \in Requests : Sent(r)) => answers' = answers BY DEF Sent
      <4>3. UpstreamLost => answers' = answers BY DEF UpstreamLost
      <4> QED BY <2>2, <4>1, <4>2, <4>3, TrafficCases
    <3>2. wire[1].op = "read" BY <1>4, <2>2, <3>1, ServeFacts
    <3>3. wire[1] \in Message BY <3>1, ServeFacts
    <3>4. PICK r \in Requests : r = wire[1].req BY <3>3 DEF Message
    <3>5. a = [op |-> "read", req |-> r,
               values |-> {[item |-> i, was |-> value[i]] : i \in Touches[r] \ taken[r]}]
        BY <2>2, <3>1, <3>2, <3>4, ServeFacts
    <3>6. a.req = r /\ a.values = {[item |-> i, was |-> value[i]] : i \in Touches[r] \ taken[r]} BY <3>5
    <3>7. PICK i \in Touches[r] \ taken[r] : v = [item |-> i, was |-> value[i]] BY <1>4, <3>6
    <3>8. i \in Items OBVIOUS
    <3> QED BY <3>1, <3>2, <3>4, <3>6, <3>7, <3>8, ReadIsReplaced
  <2> QED BY <2>1, <2>2
<1>5. ASSUME NEW o \in Outcomes', NEW v \in o.old PROVE Replaced(o.req, v)' /\ v.item = o.item
  <2>1. CASE o \in Outcomes
    <3>1. o \in OutcomeRecord BY <2>1, OutcomesTyped
    <3>2. o.req \in Requests /\ v \in WasValue BY <1>5, <3>1 DEF OutcomeRecord
    <3>3. [req |-> o.req, item |-> o.item, status |-> o.status] \in Reported BY <2>1 DEF Reported
    <3>4. st[o.req] \in Late BY <3>3 DEF ToldOK
    <3>5. Replaced(o.req, v) /\ v.item = o.item BY <2>1, <1>5 DEF OldOK
    <3> QED BY <3>2, <3>4, <3>5, ReplacedStays DEF Late, Early
  <2>2. ASSUME NEW r \in Requests, NEW i \in Items, o.req = r, o.item = i,
               o.old \subseteq {u \in old[r] : u.item = i}
        PROVE  Replaced(o.req, v)' /\ v.item = o.item
    <3>1. v \in old[r] /\ v.item = i BY <1>5, <2>2
    <3>2. Replaced(r, v)' BY <3>1, <1>2
    <3> QED BY <2>2, <3>1, <3>2
  <2> QED BY <2>1, <2>2, OutcomesGrow
<1> QED BY <1>3, <1>4, <1>5 DEF OldOK

LEMMA OldInvariance == Spec => []OldOK
<1>1. Init => OldOK BY OldInit
<1>2. AllTyped /\ DeliveryOK /\ ToldOK /\ OldOK /\ [Next]_vars => OldOK' BY OldKept
<1> QED BY <1>1, <1>2, ToldInvariance, PTL DEF Spec

\* Upstream::send of the read and of the change in one poll: for any number of requests on
\* one channel, an old value in the trail is the value that the change replaced.
THEOREM OldValuesAreTrue == Spec => []OldValueTrue
<1>1. AllTyped /\ DeliveryOK /\ OldOK => OldValueTrue
  <2> SUFFICES ASSUME AllTyped, DeliveryOK, OldOK,
                      NEW o \in Outcomes, NEW c \in applied, o.req = c.req, o.item = c.item, NEW v \in o.old
               PROVE  v.was = c.was
      BY DEF OldValueTrue
  <2>1. Replaced(c.req, v) /\ v.item = c.item BY DEF OldOK
  <2>2. ~(wire # << >> /\ wire[1] = ChangeOf(c.req))
    <3> SUFFICES ASSUME wire # << >>, wire[1] = ChangeOf(c.req) PROVE FALSE OBVIOUS
    <3>1. 1 \in DOMAIN wire BY DEF AllTyped, ChannelTyped
    <3>2. wire[1].req = c.req BY DEF ChangeOf
    <3> QED BY <3>1, <3>2 DEF DeliveryOK, WireOK
  <2> QED BY <2>1, <2>2 DEF Replaced
<1> QED BY <1>1, ToldInvariance, OldInvariance, PTL
-------------------------------------------------------------------------------
(* The order of the requests.                                              *)

\* Requests are handled in the order they came, and before the drain they are polled and
\* their intents come back in that order.  Behind a request that was sent before the drain
\* wait at most intents, behind one that was held none.
Reads == conn \in {"open", "closing"}

OrderOK ==
    /\ \A k \in DOMAIN order : st[order[k].req] \notin Early
    /\ \A q, r \in Requests : r < q /\ st[q] # "new" => st[r] # "new"
    /\ \A r \in Requests : st[r] = "intent" => Held(r)
    /\ Reads => \A q, r \in Requests : r < q /\ st[q] = "intent" => st[r] # "pushed"
    /\ Reads => \A k \in DOMAIN order : ~order[k].late
    /\ \A k \in DOMAIN order : \A r \in Requests :
         ~order[k].late /\ r < order[k].req =>
            st[r] \notin {"new", "pushed"} /\ (Held(order[k].req) => st[r] # "intent")
    /\ ForwardedInOrder

\* A step that sends nothing, makes no plan and takes no request from the client.
KeepsOrder ==
    /\ UNCHANGED <<order, fc, taken>> /\ (Reads' => Reads)
    /\ \A r \in Requests : st'[r] = st[r] \/ (st[r] # "new" /\ st'[r] \notin Early)

\* The first poll of r, with what it does to r's plan and place in the order.
Planned(r) ==
    /\ Live /\ conn' = conn /\ FirstInLine(r)
    /\ fc' = [fc EXCEPT ![r] = fail_closed] /\ taken' = [taken EXCEPT ![r] = Touches[r] \cap summarise]
    /\ \/ st' = [st EXCEPT ![r] = "intent"] /\ order' = order /\ Held(r)'
       \/ /\ st' = [st EXCEPT ![r] = "sent"] /\ ~Held(r)'
          /\ order' = Append(order, [req |-> r, late |-> Draining])
       \/ st' = [st EXCEPT ![r] = "recording"] /\ order' = order

\* r is sent behind its intent.
Released(r) ==
    /\ Acknowledged(r) /\ conn' = conn
    /\ st' = [st EXCEPT ![r] = "sent"] /\ order' = Append(order, [req |-> r, late |-> Draining])
    /\ UNCHANGED <<fc, taken>>

LEMMA OrderCases ==
    ASSUME AllTyped, [Next]_vars
    PROVE  KeepsOrder \/ \E r \in Requests : Handle(r) \/ Planned(r) \/ Released(r)
<1>0. st \in [Requests -> States] BY DEF AllTyped, ProgressTyped
<1>1. ASSUME NEW r \in Requests, Future(r) PROVE KeepsOrder \/ Planned(r) \/ Released(r)
  <2>1. CASE Poll(r)
    <3> DEFINE kept == Touches[r] \ summarise
    <3>1. PICK asks \in BOOLEAN :
            IF kept # {} /\ fail_closed
            THEN st' = [st EXCEPT ![r] = "intent"] /\ UNCHANGED <<wire, order, status, left>>
            ELSE Send(r, kept, asks)
        BY <2>1 DEF Poll
    <3>2. /\ FirstInLine(r) /\ fc' = [fc EXCEPT ![r] = fail_closed]
          /\ taken' = [taken EXCEPT ![r] = Touches[r] \cap summarise]
          /\ Live /\ conn' = conn
        BY <2>1 DEF Poll, tasks
    <3>3. fc'[r] = fail_closed /\ taken'[r] = Touches[r] \cap summarise
        BY <3>2 DEF AllTyped, PlanTyped
    <3>4. CASE kept # {} /\ fail_closed
      <4>1. Held(r)' BY <3>3, <3>4 DEF Held
      <4> QED BY <3>1, <3>2, <3>4, <4>1 DEF Planned
    <3>5. CASE ~(kept # {} /\ fail_closed)
      <4>1. ~Held(r)'
        <5>1. kept = {} => Touches[r] = taken'[r] BY <3>3
        <5> QED BY <3>3, <3>5, <5>1 DEF Held
      <4>2. Send(r, kept, asks) BY <3>1, <3>5
      <4>3. \/ st' = [st EXCEPT ![r] = "sent"] /\ order' = Append(order, [req |-> r, late |-> Draining])
            \/ st' = [st EXCEPT ![r] = "recording"] /\ order' = order
          BY <4>2 DEF Send, Returned
      <4> QED BY <3>2, <4>1, <4>3 DEF Planned
    <3> QED BY <3>4, <3>5
  <2>2. CASE Forwarded(r)
    <3>1. /\ Acknowledged(r) /\ UNCHANGED <<fc, taken, conn>>
          /\ \/ st' = [st EXCEPT ![r] = "sent"] /\ order' = Append(order, [req |-> r, late |-> Draining])
             \/ st' = [st EXCEPT ![r] = "recording"] /\ order' = order
        BY <2>2 DEF Forwarded, Send, Returned, tasks
    <3> QED BY <1>0, <3>1 DEF Acknowledged, Released, KeepsOrder, Reads, Early
  <2>3. CASE Rejected(r) \/ Respond(r)
      BY <1>0, <2>3 DEF Rejected, Respond, Acknowledged, Busy, channel, tasks, KeepsOrder, Reads, Early
  <2>4. CASE NoResponse(r) BY <1>0, <2>4 DEF NoResponse, Returned, channel, tasks, KeepsOrder, Reads, Early
  <2>5. CASE ReadFailed(r) \/ \E i \in Items : Count(r, i) \/ RecordOutcome(r, i)
      BY <2>5 DEF ReadFailed, Count, RecordOutcome, channel, tasks, KeepsOrder, Reads
  <2> QED BY <1>1, <2>1, <2>2, <2>3, <2>4, <2>5 DEF Future
<1>2. ASSUME NEW a \in answers, Answered(a) \/ ReadAnswered(a) PROVE KeepsOrder
    BY <1>0, <1>2 DEF Answered, ReadAnswered, Returned, tasks, KeepsOrder, Reads, Early
<1>3. CASE Serve \/ UpstreamLost \/ LossNoticed \/ Close \/ DrainTimeout \/ Drained \/ Gone
           \/ SummaryDue \/ Shutdown \/ StopServing \/ Stopped \/ SetFailMode \/ SetSummarise
           \/ UNCHANGED vars \/ \E h \in DOMAIN holding : RecordSummary(h)
  <2>1. UNCHANGED <<st, fc, taken>>
      BY <1>3 DEF Serve, UpstreamLost, LossNoticed, Close, DrainTimeout, Drained, Gone, SummaryDue, Shutdown,
                  StopServing, Stopped, SetFailMode, SetSummarise, RecordSummary, vars, futures
  <2>2. order' = order
      BY <1>3 DEF Serve, UpstreamLost, LossNoticed, Close, DrainTimeout, Drained, Gone, SummaryDue, Shutdown,
                  StopServing, Stopped, SetFailMode, SetSummarise, RecordSummary, vars, channel
  <2>3. Reads' => Reads
      BY <1>3 DEF Serve, UpstreamLost, LossNoticed, Close, DrainTimeout, Drained, Gone, SummaryDue, Shutdown,
                  StopServing, Stopped, SetFailMode, SetSummarise, RecordSummary, vars, tasks, Reads
  <2> QED BY <2>1, <2>2, <2>3 DEF KeepsOrder
<1>4. CASE Leave \/ CloseTimeout \/ Exit
    BY <1>0, <1>4 DEF Leave, CloseTimeout, Exit, Pending, channel, KeepsOrder, Reads, Early
<1> HIDE ForwardAssumption DEF ForwardAssumption
<1> QED BY <1>1, <1>2, <1>3, <1>4, StepKinds

LEMMA OrderInit == Init => OrderOK
BY DEF Init, OrderOK, ForwardedInOrder, Overtakes

\* The order grows at its end.
LEMMA AppendOrder ==
    ASSUME AllTyped, NEW e \in Entry, order' = Append(order, e)
    PROVE  /\ \A k \in DOMAIN order : k \in DOMAIN order' /\ order'[k] = order[k] /\ k < Len(order) + 1
           /\ \A k \in DOMAIN order' : k \in DOMAIN order \/ (k = Len(order) + 1 /\ order'[k] = e)
           /\ Len(order) \in Nat /\ DOMAIN order \subseteq Nat
<1>1. order \in Seq(Entry) BY DEF AllTyped, ChannelTyped
<1> QED BY <1>1

\* A request is sent: what was sent and is newer was late too, or needed no intent while this
\* one did; and before the drain nothing older is still to be polled.
LEMMA OrderGrows ==
    ASSUME AllTyped, OrderOK, NEW r \in Requests,
           order' = Append(order, [req |-> r, late |-> Draining]),
           st[r] \in Early, st'[r] \notin Early,
           \A q \in Requests \ {r} : st'[q] = st[q] /\ (Held(q)' <=> Held(q)),
           \A k \in DOMAIN order : r < order[k].req =>
                (order[k].late /\ Draining) \/ (Held(r)' /\ ~Held(order[k].req)),
           ~Draining => \A p \in Requests : p < r =>
                st[p] \notin {"new", "pushed"} /\ (Held(r)' => st[p] # "intent")
    PROVE  /\ \A k \in DOMAIN order' : st'[order'[k].req] \notin Early
           /\ \A k \in DOMAIN order' : \A p \in Requests :
                ~order'[k].late /\ p < order'[k].req =>
                    st'[p] \notin {"new", "pushed"} /\ (Held(order[k].req)' => st'[p] # "intent")
           /\ ForwardedInOrder'
<1> DEFINE e == [req |-> r, late |-> Draining]
<1>0. order \in Seq(Entry) /\ e \in Entry BY DEF AllTyped, ChannelTyped, Entry, Draining
<1>a. \A k \in DOMAIN order : order[k].req \in Requests /\ order[k].late \in BOOLEAN
  <2>1. \A k \in DOMAIN order : order[k] \in Entry BY <1>0
  <2> QED BY <2>1 DEF Entry
<1>r. Requests \subseteq Nat BY DEF Requests
<1>1. /\ \A k \in DOMAIN order : k \in DOMAIN order' /\ order'[k] = order[k] /\ k < Len(order) + 1
      /\ \A k \in DOMAIN order' : k \in DOMAIN order \/ (k = Len(order) + 1 /\ order'[k] = e)
      /\ Len(order) \in Nat /\ DOMAIN order \subseteq Nat
    <2> HIDE DEF e
    <2>1. order' = Append(order, e) BY DEF e
    <2> QED BY <1>0, <2>1, AppendOrder
<1>e. e.req = r /\ e.late = Draining OBVIOUS
<1> HIDE DEF e
<1>2. \A k \in DOMAIN order : order[k].req # r BY DEF OrderOK
<1>3. \A k \in DOMAIN order' : st'[order'[k].req] \notin Early
  <2> SUFFICES ASSUME NEW k \in DOMAIN order' PROVE st'[order'[k].req] \notin Early OBVIOUS
  <2>1. CASE k \in DOMAIN order
    <3>1. order'[k] = order[k] /\ order[k].req \in Requests \ {r} BY <1>1, <1>a, <1>2, <2>1
    <3>2. st'[order[k].req] = st[order[k].req] BY <3>1
    <3> QED BY <2>1, <3>1, <3>2 DEF OrderOK
  <2>2. CASE order'[k] = e BY <1>e, <2>2
  <2> QED BY <1>1, <2>1, <2>2
<1>4. ASSUME NEW k \in DOMAIN order', NEW p \in Requests, ~order'[k].late, p < order'[k].req
      PROVE  st'[p] \notin {"new", "pushed"} /\ (Held(order[k].req)' => st'[p] # "intent")
  <2>1. PICK q : q = order'[k].req OBVIOUS
  <2>2. Held(order[k].req)' <=> Held(q)' BY <2>1 DEF Held
  <2>3. CASE k \in DOMAIN order
    <3>1. order'[k] = order[k] /\ q = order[k].req /\ q \in Requests \ {r} BY <1>1, <1>a, <1>2, <2>1, <2>3
    <3>2. st[p] \notin {"new", "pushed"} /\ (Held(q) => st[p] # "intent")
        BY <1>4, <2>3, <3>1 DEF OrderOK
    <3>3. CASE p = r BY <3>3 DEF Early
    <3>4. CASE p # r
      <4>1. st'[p] = st[p] /\ (Held(q)' <=> Held(q)) BY <3>1, <3>4
      <4> QED BY <2>2, <3>2, <4>1
    <3> QED BY <3>3, <3>4
  <2>4. CASE order'[k] = e
    <3>1. q = r /\ ~Draining /\ p < r BY <1>e, <1>4, <2>1, <2>4
    <3>2. p # r BY <1>r, <3>1
    <3>3. st'[p] = st[p] BY <3>2
    <3> QED BY <2>2, <3>1, <3>3
  <2> QED BY <1>1, <2>3, <2>4
<1>5. ASSUME NEW j \in DOMAIN order', NEW k \in DOMAIN order', j < k, order'[j].req > order'[k].req
      PROVE  \/ Held(order[k].req)' /\ ~Held(order[j].req)'
             \/ order'[j].late /\ order'[k].late
  <2>1. PICK p, q : p = order'[j].req /\ q = order'[k].req OBVIOUS
  <2>2. (Held(order[k].req)' <=> Held(q)') /\ (Held(order[j].req)' <=> Held(p)') BY <2>1 DEF Held
  <2>3. j \in DOMAIN order
    <3>1. k \in Nat /\ j \in Nat /\ k <= Len(order) + 1 BY <1>1
    <3> QED BY <1>1, <1>5, <3>1
  <2>4. order'[j] = order[j] /\ p = order[j].req /\ p \in Requests \ {r} BY <1>1, <1>a, <1>2, <2>1, <2>3
  <2>5. Held(p)' <=> Held(p) BY <2>4
  <2>6. CASE k \in DOMAIN order
    <3>1. order'[k] = order[k] /\ q = order[k].req /\ q \in Requests \ {r} BY <1>1, <1>a, <1>2, <2>1, <2>6
    <3>2. Held(q)' <=> Held(q) BY <3>1
    <3>3. (Held(q) /\ ~Held(p)) \/ (order[j].late /\ order[k].late)
      <4>1. Overtakes(j, k) BY <1>5, <2>4, <3>1 DEF Overtakes
      <4>2. \/ Held(order[k].req) /\ ~Held(order[j].req)
            \/ order[j].late /\ order[k].late
          BY <2>3, <2>6, <4>1 DEF OrderOK, ForwardedInOrder
      <4> QED BY <2>4, <3>1, <4>2
    <3> QED BY <2>2, <2>4, <2>5, <3>1, <3>2, <3>3
  <2>7. CASE order'[k] = e
    <3>1. q = r /\ order'[k].late = Draining BY <1>e, <2>1, <2>7
    <3>2. r < order[j].req BY <1>r, <1>5, <2>1, <2>4, <3>1
    <3>3. (order[j].late /\ Draining) \/ (Held(r)' /\ ~Held(p)) BY <2>3, <2>4, <3>2
    <3> QED BY <2>2, <2>4, <2>5, <3>1, <3>3
  <2> QED BY <1>1, <2>6, <2>7
<1>6. ForwardedInOrder' BY <1>5 DEF ForwardedInOrder, Overtakes
<1> QED BY <1>3, <1>4, <1>6

\* Before the drain nothing late is sent.
LEMMA LateInDrain ==
    ASSUME AllTyped, OrderOK, NEW r \in Requests, conn' = conn,
           order' = Append(order, [req |-> r, late |-> Draining])
    PROVE  Reads' => \A k \in DOMAIN order' : ~order'[k].late
<1> DEFINE e == [req |-> r, late |-> Draining]
<1>1. e \in Entry /\ e.late = Draining BY DEF Entry, Draining
<1>2. order' = Append(order, e) OBVIOUS
<1> HIDE DEF e
<1>3. /\ \A k \in DOMAIN order : order'[k] = order[k]
      /\ \A k \in DOMAIN order' : k \in DOMAIN order \/ order'[k] = e
    BY <1>1, <1>2, AppendOrder
<1>4. Reads' => Reads /\ ~Draining BY DEF Reads, Draining
<1> QED BY <1>1, <1>3, <1>4 DEF OrderOK

LEMMA OrderKept == ASSUME AllTyped, OrderOK, [Next]_vars PROVE OrderOK'
<1>0. /\ st \in [Requests -> States] /\ order \in Seq(Entry)
      /\ fc \in [Requests -> BOOLEAN] /\ taken \in [Requests -> SUBSET Items]
    BY DEF AllTyped, ProgressTyped, ChannelTyped, PlanTyped
<1>a. \A k \in DOMAIN order : order[k].req \in Requests /\ order[k].late \in BOOLEAN
  <2>1. \A k \in DOMAIN order : order[k] \in Entry BY <1>0
  <2> QED BY <2>1 DEF Entry
<1>r. Requests \subseteq Nat BY DEF Requests
<1>1. CASE KeepsOrder
  <2>1. \A r \in Requests : Held(r)' <=> Held(r) BY <1>1 DEF KeepsOrder, Held
  <2>2. /\ \A r \in Requests : st'[r] \in Early => st'[r] = st[r]
        /\ \A r \in Requests : st[r] \notin Early => st'[r] \notin Early
        /\ \A r \in Requests : st'[r] # "new" <=> st[r] # "new"
      BY <1>1 DEF KeepsOrder, Early
  <2>3. \A k \in DOMAIN order : Held(order[k].req)' <=> Held(order[k].req)
      BY <1>1, <1>a, <2>1 DEF KeepsOrder, Held
  <2>4. order' = order /\ (Reads' => Reads) BY <1>1 DEF KeepsOrder
  <2>5. ForwardedInOrder' BY <2>3, <2>4 DEF OrderOK, ForwardedInOrder, Overtakes
  <2>6. \A k \in DOMAIN order' : st'[order'[k].req] \notin Early BY <1>a, <2>2, <2>4 DEF OrderOK
  <2>7. \A q, r \in Requests : r < q /\ st'[q] # "new" => st'[r] # "new" BY <2>2 DEF OrderOK
  <2>8. \A r \in Requests : st'[r] = "intent" => Held(r)' BY <2>1, <2>2 DEF OrderOK, Early
  <2>9. Reads' => \A q, r \in Requests : r < q /\ st'[q] = "intent" => st'[r] # "pushed"
      BY <2>2, <2>4 DEF OrderOK, Early
  <2>10. Reads' => \A k \in DOMAIN order' : ~order'[k].late BY <2>4 DEF OrderOK
  <2>11. ASSUME NEW k \in DOMAIN order', NEW r \in Requests, ~order'[k].late, r < order'[k].req
         PROVE  st'[r] \notin {"new", "pushed"} /\ (Held(order[k].req)' => st'[r] # "intent")
    <3>1. st[r] \notin {"new", "pushed"} /\ (Held(order[k].req) => st[r] # "intent")
        BY <2>4, <2>11 DEF OrderOK
    <3> QED BY <2>2, <2>3, <2>4, <3>1 DEF Early
  <2> QED BY <2>5, <2>6, <2>7, <2>8, <2>9, <2>10, <2>11 DEF OrderOK
<1>2. ASSUME NEW r \in Requests, Handle(r) PROVE OrderOK'
  <2>1. /\ UNCHANGED <<order, fc, taken, conn>> /\ st[r] = "new"
        /\ \A q \in Requests : q < r => st[q] # "new"
        /\ st'[r] \in {"pushed", "done"} /\ \A q \in Requests \ {r} : st'[q] = st[q]
      BY <1>0, <1>2 DEF Handle, tasks
  <2>2. \A q \in Requests : Held(q)' <=> Held(q) BY <2>1 DEF Held
  <2>3. \A k \in DOMAIN order : order[k].req # r /\ (r < order[k].req => order[k].late)
      BY <1>a, <2>1 DEF OrderOK, Early
  <2>4. \A k \in DOMAIN order : Held(order[k].req)' <=> Held(order[k].req) BY <1>a, <2>1, <2>2 DEF Held
  <2>5. ForwardedInOrder' BY <2>1, <2>4 DEF OrderOK, ForwardedInOrder, Overtakes
  <2>6. \A q \in Requests : r < q => st[q] = "new" BY <2>1 DEF OrderOK
  <2>7. \A q, p \in Requests : p < q /\ st'[q] # "new" => st'[p] # "new" BY <2>1, <2>6 DEF OrderOK
  <2>8. Reads' => \A q, p \in Requests : p < q /\ st'[q] = "intent" => st'[p] # "pushed"
      BY <2>1, <2>6 DEF OrderOK, Reads
  <2>9. \A k \in DOMAIN order' : st'[order'[k].req] \notin Early BY <1>a, <2>1, <2>3 DEF OrderOK
  <2>10. \A q \in Requests : st'[q] = "intent" => Held(q)' BY <2>1, <2>2 DEF OrderOK
  <2>11. Reads' => \A k \in DOMAIN order' : ~order'[k].late BY <2>1 DEF OrderOK, Reads
  <2>12. ASSUME NEW k \in DOMAIN order', NEW p \in Requests, ~order'[k].late, p < order'[k].req
         PROVE  st'[p] \notin {"new", "pushed"} /\ (Held(order[k].req)' => st'[p] # "intent")
    <3>1. p # r BY <2>1, <2>3, <2>12
    <3>2. st[p] \notin {"new", "pushed"} /\ (Held(order[k].req) => st[p] # "intent")
        BY <2>1, <2>12 DEF OrderOK
    <3> QED BY <2>1, <2>4, <3>1, <3>2
  <2> QED BY <2>5, <2>7, <2>8, <2>9, <2>10, <2>11, <2>12 DEF OrderOK
<1>3. ASSUME NEW r \in Requests, Planned(r) PROVE OrderOK'
  <2>1. /\ st[r] = "pushed" /\ conn' = conn /\ (~Draining => Reads)
        /\ \A q \in Requests : (IF Draining THEN q > r ELSE q < r) => st[q] # "pushed"
        /\ st'[r] \in {"intent", "sent", "recording"} /\ \A q \in Requests \ {r} : st'[q] = st[q]
        /\ \A q \in Requests \ {r} : Held(q)' <=> Held(q)
      BY <1>0, <1>3 DEF Planned, FirstInLine, Held, Live, Draining, Reads
  <2>2. \A k \in DOMAIN order : order[k].req # r /\ (r < order[k].req => order[k].late)
      BY <1>a, <2>1 DEF OrderOK, Early
  <2>3. \A q \in Requests : q < r => st[q] # "new" /\ (~Draining => st[q] # "pushed")
      BY <2>1 DEF OrderOK
  <2>4. \A q, p \in Requests : p < q /\ st'[q] # "new" => st'[p] # "new" BY <2>1, <2>3 DEF OrderOK
  <2>5. Reads' => \A q, p \in Requests : p < q /\ st'[q] = "intent" => st'[p] # "pushed"
    <3>1. Reads' => Reads /\ ~Draining BY <2>1 DEF Reads, Draining
    <3> QED BY <2>1, <2>3, <3>1 DEF OrderOK
  <2>6. \A q \in Requests : st'[q] = "intent" => Held(q)'
    <3>1. st'[r] = "intent" => Held(r)' BY <1>0, <1>3 DEF Planned
    <3> QED BY <2>1, <3>1 DEF OrderOK
  <2>7. CASE order' = order
    <3>1. \A k \in DOMAIN order : Held(order[k].req)' <=> Held(order[k].req)
      <4> SUFFICES ASSUME NEW k \in DOMAIN order PROVE Held(order[k].req)' <=> Held(order[k].req) OBVIOUS
      <4>1. PICK q \in Requests \ {r} : q = order[k].req BY <1>a, <2>2
      <4>2. Held(order[k].req)' <=> Held(q)' BY <2>7, <4>1 DEF Held
      <4> QED BY <2>1, <4>1, <4>2
    <3>2. ForwardedInOrder' BY <2>7, <3>1 DEF OrderOK, ForwardedInOrder, Overtakes
    <3>3. \A k \in DOMAIN order' : st'[order'[k].req] \notin Early BY <1>a, <2>1, <2>2, <2>7 DEF OrderOK
    <3>4. ASSUME NEW k \in DOMAIN order', NEW p \in Requests, ~order'[k].late, p < order'[k].req
          PROVE  st'[p] \notin {"new", "pushed"} /\ (Held(order[k].req)' => st'[p] # "intent")
      <4>1. p # r BY <2>2, <2>7, <3>4
      <4>2. st[p] \notin {"new", "pushed"} /\ (Held(order[k].req) => st[p] # "intent")
          BY <2>7, <3>4 DEF OrderOK
      <4> QED BY <2>1, <2>7, <3>1, <4>1, <4>2
    <3>5. Reads' => \A k \in DOMAIN order' : ~order'[k].late BY <2>1, <2>7 DEF OrderOK, Reads
    <3> QED BY <2>4, <2>5, <2>6, <3>2, <3>3, <3>4, <3>5 DEF OrderOK
  <2>8. CASE order' # order
    <3>1. order' = Append(order, [req |-> r, late |-> Draining]) /\ ~Held(r)' /\ st'[r] = "sent"
        BY <1>0, <1>3, <2>8 DEF Planned
    <3>2. st[r] \in Early /\ st'[r] \notin Early BY <2>1, <3>1 DEF Early
    <3>3. \A q \in Requests \ {r} : st'[q] = st[q] /\ (Held(q)' <=> Held(q)) BY <2>1
    <3>4. \A k \in DOMAIN order : r < order[k].req =>
            (order[k].late /\ Draining) \/ (Held(r)' /\ ~Held(order[k].req))
        BY <2>1, <2>2 DEF OrderOK
    <3>5. ~Draining => \A p \in Requests : p < r =>
            st[p] \notin {"new", "pushed"} /\ (Held(r)' => st[p] # "intent")
        BY <2>3, <3>1
    <3>6. Reads' => \A k \in DOMAIN order' : ~order'[k].late BY <1>3, <3>1, LateInDrain DEF Planned
    <3> HIDE DEF OrderOK
    <3>7. /\ \A k \in DOMAIN order' : st'[order'[k].req] \notin Early
          /\ \A k \in DOMAIN order' : \A p \in Requests :
               ~order'[k].late /\ p < order'[k].req =>
                   st'[p] \notin {"new", "pushed"} /\ (Held(order[k].req)' => st'[p] # "intent")
          /\ ForwardedInOrder'
        BY <3>1, <3>2, <3>3, <3>4, <3>5, OrderGrows
    <3> QED BY <2>4, <2>5, <2>6, <3>6, <3>7 DEF OrderOK
  <2> QED BY <2>7, <2>8
<1>4. ASSUME NEW r \in Requests, Released(r) PROVE OrderOK'
  <2>1. /\ st[r] = "intent" /\ conn' = conn /\ (~Draining => Reads)
        /\ Draining \/ \A q \in Requests : q < r => st[q] # "intent"
        /\ st'[r] = "sent" /\ \A q \in Requests \ {r} : st'[q] = st[q]
        /\ order' = Append(order, [req |-> r, late |-> Draining])
      BY <1>0, <1>4 DEF Released, Acknowledged, Live, Draining, Reads
  <2>2. \A q \in Requests : Held(q)' <=> Held(q) BY <1>4 DEF Released, Held
  <2>3. Held(r)' BY <2>1, <2>2 DEF OrderOK
  <2>4. \A q \in Requests : q < r => st[q] # "new" /\ (~Draining => st[q] \notin Early)
      BY <2>1 DEF OrderOK, Early
  <2>5. \A q, p \in Requests : p < q /\ st'[q] # "new" => st'[p] # "new" BY <2>1, <2>4 DEF OrderOK
  <2>6. Reads' => \A q, p \in Requests : p < q /\ st'[q] = "intent" => st'[p] # "pushed"
      BY <2>1 DEF OrderOK, Reads
  <2>7. \A q \in Requests : st'[q] = "intent" => Held(q)' BY <2>1, <2>2 DEF OrderOK
  <2>8. st[r] \in Early /\ st'[r] \notin Early BY <2>1 DEF Early
  <2>9. \A q \in Requests \ {r} : st'[q] = st[q] /\ (Held(q)' <=> Held(q)) BY <2>1, <2>2
  <2>10. \A k \in DOMAIN order : r < order[k].req =>
           (order[k].late /\ Draining) \/ (Held(r)' /\ ~Held(order[k].req))
      BY <1>a, <2>1, <2>3 DEF OrderOK
  <2>11. ~Draining => \A p \in Requests : p < r =>
           st[p] \notin {"new", "pushed"} /\ (Held(r)' => st[p] # "intent")
      BY <2>4 DEF Early
  <2>12. Reads' => \A k \in DOMAIN order' : ~order'[k].late BY <2>1, LateInDrain
  <2>13. /\ \A k \in DOMAIN order' : st'[order'[k].req] \notin Early
         /\ \A k \in DOMAIN order' : \A p \in Requests :
              ~order'[k].late /\ p < order'[k].req =>
                  st'[p] \notin {"new", "pushed"} /\ (Held(order[k].req)' => st'[p] # "intent")
         /\ ForwardedInOrder'
      BY <2>1, <2>8, <2>9, <2>10, <2>11, OrderGrows
  <2> QED BY <2>5, <2>6, <2>7, <2>12, <2>13 DEF OrderOK
<1> QED BY <1>1, <1>2, <1>3, <1>4, OrderCases

\* The order of forwarded requests, for any number of them: a request that is overtaken was
\* waiting for its intent and the other needed none, or both were sent in the drain, which
\* finish_audited starts with the newest.
THEOREM RequestsKeepTheirOrder == Spec => []ForwardedInOrder
<1>1. Init => OrderOK BY OrderInit
<1>2. AllTyped /\ OrderOK /\ [Next]_vars => OrderOK' BY OrderKept
<1>3. OrderOK => ForwardedInOrder BY DEF OrderOK
<1> QED BY <1>1, <1>2, <1>3, TypedInvariance, PTL DEF Spec
-------------------------------------------------------------------------------
(* The summaries.                                                          *)

Summaries == {t \in trail : t.what = "summary"}
Waiting == ignored \cup holding["conn"] \cup holding["serve"]

\* What is told is not left to be told, and is told in one place.
CountOK ==
    /\ \A w \in Reported : w.item \notin left[w.req]
    /\ \A s, t \in Summaries : s = t \/ s.writes \cap t.writes = {}
    /\ \A s \in Summaries : s.writes \cap Waiting = {}
    /\ ignored \cap (holding["conn"] \cup holding["serve"]) = {}
    /\ holding["conn"] \cap holding["serve"] = {}
    /\ \A o \in Outcomes : \A w \in Summarised \cup Waiting : o.req # w.req \/ o.item # w.item

\* The counters go to a task that holds none, or are lost with the process.
Moves ==
    /\ trail' = trail
    /\ \/ UNCHANGED <<ignored, holding>>
       \/ ignored' = {} /\ \E h \in Holders : holding' = [holding EXCEPT ![h] = ignored]
       \/ ignored' = {} /\ \A h \in Holders : holding'[h] = {}
AddsIntent ==
    UNCHANGED <<ignored, holding>> /\ \E r \in Requests : trail \subseteq trail' /\ trail' \subseteq trail \cup {Intent(r)}
AddsCount(r, i) ==
    Tells(r, i) /\ ignored' = ignored \cup {Counted(r, i)} /\ UNCHANGED <<holding, trail>>
AddsOutcome(r, i) ==
    /\ Tells(r, i) /\ UNCHANGED <<ignored, holding>>
    /\ \E was : Recorded(Outcome(r, i, was))
AddsSummary(h) ==
    /\ ignored' = ignored
    /\ \E x \in holding[h] :
         LET W == {v \in holding[h] : v.item = x.item}
         IN  holding' = [holding EXCEPT ![h] = @ \ W] /\ Recorded(Summary(W))

LEMMA CountCases ==
    ASSUME AllTyped, [Next]_vars
    PROVE  \/ Moves \/ AddsIntent
           \/ \E r \in Requests, i \in Items : AddsCount(r, i) \/ AddsOutcome(r, i)
           \/ \E h \in Holders : AddsSummary(h)
<1>h. DOMAIN holding = Holders BY DEF AllTyped, TrailTyped
<1>1. ASSUME NEW r \in Requests, Handle(r) \/ Future(r)
      PROVE  Moves \/ AddsIntent \/ \E i \in Items : AddsCount(r, i) \/ AddsOutcome(r, i)
  <2>1. CASE Handle(r) \/ Poll(r) \/ ReadFailed(r) \/ NoResponse(r) \/ Respond(r)
      BY <2>1 DEF Handle, Poll, ReadFailed, NoResponse, Respond, Moves
  <2>2. CASE Forwarded(r) \/ Rejected(r) BY <2>2 DEF Forwarded, Rejected, AddsIntent
  <2>3. ASSUME NEW i \in Items, Count(r, i) PROVE AddsCount(r, i) \/ AddsOutcome(r, i)
      BY <2>3 DEF Count, Busy, Tells, AddsCount, AddsOutcome
  <2>4. ASSUME NEW i \in Items, RecordOutcome(r, i) PROVE AddsOutcome(r, i)
      BY <2>4 DEF RecordOutcome, Busy, Tells, AddsOutcome
  <2> QED BY <1>1, <2>1, <2>2, <2>3, <2>4 DEF Future
<1>2. CASE Serve \/ UpstreamLost \/ LossNoticed \/ \E a \in answers : Answered(a) \/ ReadAnswered(a)
    BY <1>2 DEF Serve, UpstreamLost, LossNoticed, Answered, ReadAnswered, Moves
<1>3. CASE Close \/ Leave \/ DrainTimeout \/ Gone \/ Shutdown \/ Stopped \/ SetFailMode \/ SetSummarise \/ UNCHANGED vars
    BY <1>3 DEF Close, Leave, DrainTimeout, Gone, Shutdown, Stopped, SetFailMode, SetSummarise, vars, Moves
<1>4. CASE CloseTimeout \/ Drained \/ SummaryDue \/ StopServing
    BY <1>4 DEF CloseTimeout, Drained, SummaryDue, StopServing, TakeIgnored, Moves, Holders
<1>5. CASE Exit BY <1>5, <1>h DEF Exit, Moves
<1>6. ASSUME NEW h \in DOMAIN holding, RecordSummary(h) PROVE h \in Holders /\ AddsSummary(h)
    BY <1>6, <1>h DEF RecordSummary, AddsSummary
<1> HIDE ForwardAssumption DEF ForwardAssumption
<1> QED BY <1>1, <1>2, <1>3, <1>4, <1>5, <1>6, StepKinds

LEMMA CountInit == Init => CountOK
<1> SUFFICES ASSUME Init PROVE CountOK OBVIOUS
<1>1. trail = {} /\ ignored = {} /\ holding["conn"] = {} /\ holding["serve"] = {} BY DEF Init
<1>2. Reported = {} /\ Summaries = {} /\ Outcomes = {} /\ Summarised = {} /\ Waiting = {}
    BY <1>1 DEF Reported, Outcomes, Summarised, Summaries, Waiting
<1> QED BY <1>1, <1>2 DEF CountOK

LEMMA CountKept == ASSUME AllTyped, DeliveryOK, ToldOK, CountOK, [Next]_vars PROVE CountOK'
<1>h. holding \in [Holders -> SUBSET Write] BY DEF AllTyped, TrailTyped
<1>s. Summarised = UNION {s.writes : s \in Summaries} BY DEF Summarised, Summaries
<1>s1. Summarised' = UNION {s.writes : s \in Summaries'} BY DEF Summarised, Summaries
<1>0. ASSUME NEW w \in Reported' PROVE w.item \notin left'[w.req]
  <2>1. CASE w \in Reported
    <3>1. w.req \in Requests BY <2>1, ReportedTyped DEF Write
    <3>2. st[w.req] \in Late /\ w.item \notin left[w.req] BY <2>1 DEF ToldOK, CountOK
    <3> QED BY <3>1, <3>2, ProgressSteps DEF Progress
  <2>2. ASSUME NEW r \in Requests, NEW i \in Items, Tells(r, i), w = Counted(r, i) PROVE w.item \notin left'[w.req]
      BY <2>2 DEF Tells, Counted, AllTyped, ProgressTyped
  <2> QED BY <2>1, <2>2, ReportedGrows
<1>k. ASSUME NEW r \in Requests, NEW i \in Items, Tells(r, i)
      PROVE  /\ \A w \in Summarised \cup Waiting : w.req # r \/ w.item # i
             /\ \A o \in Outcomes : o.req # r \/ o.item # i
  <2>1. \A w \in Reported : w.req # r \/ w.item # i BY <1>k DEF CountOK, Tells
  <2>2. Summarised \cup Waiting \subseteq Reported BY DEF Reported, Waiting
  <2>3. \A o \in Outcomes : [req |-> o.req, item |-> o.item, status |-> o.status] \in Reported BY DEF Reported
  <2> QED BY <2>1, <2>2, <2>3
<1>1. CASE Moves
  <2>1. Summaries' = Summaries /\ Outcomes' = Outcomes /\ Summarised' = Summarised
      BY <1>1 DEF Moves, Summaries, Outcomes, Summarised
  <2>2. /\ Waiting' \subseteq Waiting
        /\ ignored' \cap (holding'["conn"] \cup holding'["serve"]) = {}
        /\ holding'["conn"] \cap holding'["serve"] = {}
    <3>1. CASE UNCHANGED <<ignored, holding>> BY <3>1 DEF CountOK, Waiting
    <3>2. ASSUME ignored' = {}, NEW h \in Holders, holding' = [holding EXCEPT ![h] = ignored]
          PROVE  /\ Waiting' \subseteq Waiting
                 /\ holding'["conn"] \cap holding'["serve"] = {}
        BY <1>h, <3>2 DEF CountOK, Waiting, Holders
    <3>3. ASSUME ignored' = {}, \A h \in Holders : holding'[h] = {}
          PROVE  Waiting' = {} /\ holding'["conn"] \cap holding'["serve"] = {}
        BY <3>3 DEF Waiting, Holders
    <3> QED BY <1>1, <3>1, <3>2, <3>3 DEF Moves
  <2> QED BY <1>0, <2>1, <2>2 DEF CountOK
<1>2. CASE AddsIntent
  <2>1. Summaries' = Summaries /\ Outcomes' = Outcomes
    <3>1. \A r : Intent(r).what = "intent" BY DEF Intent
    <3> QED BY <1>2, <3>1 DEF AddsIntent, Summaries, Outcomes
  <2>2. Summarised' = Summarised BY <2>1, <1>s, <1>s1
  <2>3. UNCHANGED <<ignored, holding>> /\ Waiting' = Waiting BY <1>2 DEF AddsIntent, Waiting
  <2> QED BY <1>0, <2>1, <2>2, <2>3 DEF CountOK
<1>3. ASSUME NEW r \in Requests, NEW i \in Items, AddsCount(r, i) PROVE CountOK'
  <2>1. Summaries' = Summaries /\ Outcomes' = Outcomes /\ Summarised' = Summarised
      BY <1>3 DEF AddsCount, Summaries, Outcomes, Summarised
  <2>2. /\ ignored' = ignored \cup {Counted(r, i)} /\ holding' = holding
        /\ Waiting' = Waiting \cup {Counted(r, i)}
      BY <1>3 DEF AddsCount, Waiting
  <2>3. Counted(r, i).req = r /\ Counted(r, i).item = i BY DEF Counted
  <2>4. Counted(r, i) \notin Summarised \cup Waiting /\ \A o \in Outcomes : o.req # r \/ o.item # i
      BY <1>3, <1>k, <2>3 DEF AddsCount
  <2>5. \A s \in Summaries : s.writes \cap Waiting' = {} BY <1>s, <2>2, <2>4 DEF CountOK
  <2>6. ignored' \cap (holding'["conn"] \cup holding'["serve"]) = {} BY <2>2, <2>4 DEF CountOK, Waiting
  <2>7. \A o \in Outcomes : \A w \in Summarised \cup Waiting' : o.req # w.req \/ o.item # w.item
      BY <2>2, <2>3, <2>4 DEF CountOK
  <2> QED BY <1>0, <2>1, <2>2, <2>5, <2>6, <2>7 DEF CountOK
<1>4. ASSUME NEW r \in Requests, NEW i \in Items, AddsOutcome(r, i) PROVE CountOK'
  <2>1. PICK was : Recorded(Outcome(r, i, was)) BY <1>4 DEF AddsOutcome
  <2>2. trail \subseteq trail' /\ trail' \subseteq trail \cup {Outcome(r, i, was)} BY <2>1, RecordedGrows
  <2>3. /\ Outcome(r, i, was).what = "outcome" /\ Outcome(r, i, was).req = r /\ Outcome(r, i, was).item = i
      BY DEF Outcome
  <2>4. Summaries' = Summaries /\ Outcomes' \subseteq Outcomes \cup {Outcome(r, i, was)}
      BY <2>2, <2>3 DEF Summaries, Outcomes
  <2>5. Summarised' = Summarised BY <2>4, <1>s, <1>s1
  <2>6. UNCHANGED <<ignored, holding>> /\ Waiting' = Waiting BY <1>4 DEF AddsOutcome, Waiting
  <2>7. \A o \in Outcomes' : \A w \in Summarised \cup Waiting : o.req # w.req \/ o.item # w.item
      BY <1>4, <1>k, <2>3, <2>4 DEF CountOK, AddsOutcome
  <2> QED BY <1>0, <2>4, <2>5, <2>6, <2>7 DEF CountOK
<1>5. ASSUME NEW h \in Holders, AddsSummary(h) PROVE CountOK'
  <2>1. PICK x \in holding[h] :
          LET W == {v \in holding[h] : v.item = x.item}
          IN  holding' = [holding EXCEPT ![h] = @ \ W] /\ Recorded(Summary(W))
      BY <1>5 DEF AddsSummary
  <2>2. PICK W : W = {v \in holding[h] : v.item = x.item} OBVIOUS
  <2>3. holding' = [holding EXCEPT ![h] = @ \ W] /\ Recorded(Summary(W)) /\ W \subseteq holding[h] BY <2>1, <2>2
  <2>4. Summary(W).what = "summary" /\ Summary(W).writes = W BY DEF Summary
  <2>5. trail \subseteq trail' /\ trail' \subseteq trail \cup {Summary(W)} BY <2>3, RecordedGrows
  <2>6. Outcomes' = Outcomes /\ Summaries' \subseteq Summaries \cup {Summary(W)}
      BY <2>4, <2>5 DEF Outcomes, Summaries
  <2>7. Summarised' \subseteq Summarised \cup W BY <1>s, <1>s1, <2>4, <2>6
  <2>8. ignored' = ignored BY <1>5 DEF AddsSummary
  <2>9. /\ holding'["conn"] \subseteq holding["conn"] /\ holding'["serve"] \subseteq holding["serve"]
        /\ W \subseteq Waiting /\ W \cap (holding'["conn"] \cup holding'["serve"]) = {} /\ W \cap ignored = {}
      BY <1>h, <2>3 DEF Holders, CountOK, Waiting
  <2>10. Waiting' \subseteq Waiting /\ W \cap Waiting' = {} BY <2>8, <2>9 DEF Waiting
  <2>11. \A s \in Summaries : s.writes \cap W = {} /\ s.writes \cap Waiting' = {} BY <2>9, <2>10 DEF CountOK
  <2>12. \A s, t \in Summaries' : s = t \/ s.writes \cap t.writes = {} BY <2>4, <2>6, <2>11 DEF CountOK
  <2>13. \A s \in Summaries' : s.writes \cap Waiting' = {} BY <2>4, <2>6, <2>10, <2>11
  <2>14. \A o \in Outcomes' : \A w \in Summarised' \cup Waiting' : o.req # w.req \/ o.item # w.item
      BY <2>6, <2>7, <2>9, <2>10 DEF CountOK
  <2>15. /\ ignored' \cap (holding'["conn"] \cup holding'["serve"]) = {}
         /\ holding'["conn"] \cap holding'["serve"] = {}
      BY <2>8, <2>9 DEF CountOK
  <2> QED BY <1>0, <2>12, <2>13, <2>14, <2>15 DEF CountOK
<1> QED BY <1>1, <1>2, <1>3, <1>4, <1>5, CountCases

LEMMA CountInvariance == Spec => []CountOK
<1>1. Init => CountOK BY CountInit
<1>2. AllTyped /\ DeliveryOK /\ ToldOK /\ CountOK /\ [Next]_vars => CountOK' BY CountKept
<1> QED BY <1>1, <1>2, ToldInvariance, PTL DEF Spec

\* IgnoredWrites, for any number of writes and nodes: no write is in two summaries, or both
\* counted and summarised, or both summarised and recorded on its own, however the client,
\* the timer, the accept loop and the connection interleave.
THEOREM WritesAreCountedOnce == Spec => []CountedOnce
<1>1. CountOK => CountedOnce
  <2> SUFFICES ASSUME CountOK PROVE CountedOnce OBVIOUS
  <2>s. Summarised = UNION {s.writes : s \in Summaries} BY DEF Summarised, Summaries
  <2> DEFINE places == {s.writes : s \in {t \in trail : t.what = "summary"}}
             summaries == places \cup {ignored, holding["conn"], holding["serve"]}
  <2>1. \A A \in places : \E s \in Summaries : A = s.writes BY DEF Summaries
  <2>2. \A A, B \in summaries : A # B => A \cap B = {}
    <3> SUFFICES ASSUME NEW A \in summaries, NEW B \in summaries, A # B PROVE A \cap B = {} OBVIOUS
    <3>1. CASE A \in places /\ B \in places BY <3>1, <2>1 DEF CountOK
    <3>2. CASE A \in places /\ B \notin places BY <3>2, <2>1 DEF CountOK, Waiting
    <3>3. CASE A \notin places /\ B \in places BY <3>3, <2>1 DEF CountOK, Waiting
    <3>4. CASE A \notin places /\ B \notin places BY <3>4 DEF CountOK
    <3> QED BY <3>1, <3>2, <3>3, <3>4
  <2>3. \A h, k \in {"conn", "serve"} : h # k => holding[h] \cap holding[k] = {} BY DEF CountOK
  <2>4. \A h \in {"conn", "serve"} : ignored \cap (holding[h] \cup Summarised) = {}
      BY <2>s DEF CountOK, Waiting
  <2>5. \A o \in Outcomes, w \in Summarised \cup ignored : o.req # w.req \/ o.item # w.item
      BY DEF CountOK, Waiting
  <2> QED BY <2>2, <2>3, <2>4, <2>5 DEF CountedOnce
<1> QED BY <1>1, CountInvariance, PTL
-------------------------------------------------------------------------------
(* The changes that are recorded.                                          *)

\* The audit pipeline takes what it is given: it stores it or, in fail-open mode, counts it
\* as lost; and nobody gives up on the connection before it is through.
NothingGivenUp == (StoreFails => FailModes \subseteq {FALSE}) /\ ~Stalls /\ ~Exits

Told(r, i) == \E w \in Reported : w.req = r /\ w.item = i
OnItsWay(r, i) == Changed(r, i) \/ Underway(r, i)

\* A change that is out has its future at work on it, or is told; the connection ends with
\* no future at work, and takes the counters once.
RecordingOK ==
    /\ \A r \in Requests, i \in Items : OnItsWay(r, i) =>
         \/ st[r] = "sent"
         \/ st[r] = "recording" /\ (i \in left[r] \/ Told(r, i))
         \/ st[r] = "done" /\ Told(r, i)
    /\ conn \in {"summing", "gone"} => Pending = {}
    /\ conn \in {"open", "closing", "drain", "forced"} => holding["conn"] = {}
    /\ fail_closed \in FailModes

\* Nothing that is told is taken back.
LEMMA ReportedStays ==
    ASSUME NothingGivenUp, AllTyped, RecordingOK, [Next]_vars PROVE Reported \subseteq Reported'
<1>h. holding \in [Holders -> SUBSET Write] BY DEF AllTyped, TrailTyped
<1>1. ASSUME trail \subseteq trail',
             ignored \cup holding["conn"] \cup holding["serve"]
               \subseteq ignored' \cup holding'["conn"] \cup holding'["serve"]
      PROVE  Reported \subseteq Reported'
  <2>1. Outcomes \subseteq Outcomes' BY <1>1 DEF Outcomes
  <2>2. Summarised \subseteq Summarised' BY <1>1 DEF Summarised
  <2> QED BY <1>1, <2>1, <2>2 DEF Reported
<1>2. ASSUME NEW r \in Requests, Handle(r) \/ Future(r) PROVE Reported \subseteq Reported'
  <2>1. trail \subseteq trail'
      BY <1>2 DEF Handle, Future, Poll, Forwarded, Rejected, ReadFailed, NoResponse, Respond, Count, RecordOutcome,
                  Recorded
  <2>2. ignored \subseteq ignored' /\ holding' = holding
      BY <1>2 DEF Handle, Future, Poll, Forwarded, Rejected, ReadFailed, NoResponse, Respond, Count, RecordOutcome
  <2> QED BY <1>1, <2>1, <2>2
<1>3. CASE Serve \/ UpstreamLost \/ LossNoticed \/ \E a \in answers : Answered(a) \/ ReadAnswered(a)
  <2>1. UNCHANGED <<trail, ignored, holding>>
      BY <1>3 DEF Serve, UpstreamLost, LossNoticed, Answered, ReadAnswered
  <2> QED BY <1>1, <2>1
<1>4. CASE Close \/ Leave \/ DrainTimeout \/ Gone \/ Shutdown \/ Stopped \/ SetFailMode \/ SetSummarise \/ UNCHANGED vars
  <2>1. UNCHANGED <<trail, ignored, holding>>
      BY <1>4 DEF Close, Leave, DrainTimeout, Gone, Shutdown, Stopped, SetFailMode, SetSummarise, vars
  <2> QED BY <1>1, <2>1
<1>5. CASE Drained
  <2>1. trail' = trail /\ holding["conn"] = {} BY <1>5 DEF Drained, RecordingOK
  <2>2. ignored \cup holding["conn"] \cup holding["serve"]
          \subseteq ignored' \cup holding'["conn"] \cup holding'["serve"]
      BY <1>5, <1>h, <2>1 DEF Drained, Holders
  <2> QED BY <1>1, <2>1, <2>2
<1>6. CASE SummaryDue \/ StopServing
  <2>1. trail' = trail BY <1>6 DEF SummaryDue, StopServing
  <2>2. ignored \cup holding["conn"] \cup holding["serve"]
          \subseteq ignored' \cup holding'["conn"] \cup holding'["serve"]
      BY <1>6, <1>h DEF SummaryDue, StopServing, TakeIgnored, Holders
  <2> QED BY <1>1, <2>1, <2>2
<1>7. ~CloseTimeout /\ ~Exit BY DEF NothingGivenUp, CloseTimeout, Exit
<1>8. ASSUME NEW h \in DOMAIN holding, RecordSummary(h) PROVE Reported \subseteq Reported'
  <2>1. PICK x \in holding[h] :
          LET W == {v \in holding[h] : v.item = x.item}
          IN  holding' = [holding EXCEPT ![h] = @ \ W] /\ Recorded(Summary(W))
      BY <1>8 DEF RecordSummary
  <2>2. PICK W : W = {v \in holding[h] : v.item = x.item} OBVIOUS
  <2>3. holding' = [holding EXCEPT ![h] = @ \ W] /\ Recorded(Summary(W)) BY <2>1, <2>2
  <2>4. trail' = trail \cup {Summary(W)} BY <2>3 DEF Recorded, NothingGivenUp, RecordingOK
  <2>5. Summary(W).what = "summary" /\ Summary(W).writes = W BY DEF Summary
  <2>6. Outcomes \subseteq Outcomes' BY <2>4 DEF Outcomes
  <2>7. Summarised \cup W \subseteq Summarised' BY <2>4, <2>5 DEF Summarised
  <2>8. /\ holding["conn"] \subseteq holding'["conn"] \cup W /\ holding["serve"] \subseteq holding'["serve"] \cup W
        /\ ignored' = ignored
      BY <1>8, <1>h, <2>3 DEF RecordSummary, Holders
  <2> QED BY <2>6, <2>7, <2>8 DEF Reported
<1> HIDE ForwardAssumption DEF ForwardAssumption
<1> QED BY <1>2, <1>3, <1>4, <1>5, <1>6, <1>7, <1>8, StepKinds

\* A future goes from send to record to done, tells what it takes out of left, and is
\* dropped only if it changes nothing.
Finishes(r) ==
    /\ st[r] = "sent" => st'[r] \in {"sent", "recording"} \/ (st'[r] = "dropped" /\ Touches[r] = {})
    /\ st[r] = "recording" =>
         \/ st'[r] = "recording" /\ \A i \in left[r] : i \in left'[r] \/ Counted(r, i) \in Reported'
         \/ st'[r] = "done" /\ left[r] = {}
         \/ st'[r] = "dropped" /\ Touches[r] = {}
    /\ st[r] = "done" => st'[r] = "done"
    /\ st'[r] \in {"pushed", "intent", "sent", "recording"} =>
         st[r] \in {"pushed", "intent", "sent", "recording"} \/ conn' = "open"

LEMMA FinishSteps ==
    ASSUME NothingGivenUp, AllTyped, RecordingOK, [Next]_vars, NEW q \in Requests PROVE Finishes(q)
<1>0. st \in [Requests -> States] /\ left \in [Requests -> SUBSET Items] BY DEF AllTyped, ProgressTyped
<1>1. ASSUME NEW r \in Requests, Handle(r) \/ Future(r) PROVE Finishes(q)
  <2>1. CASE Handle(r) BY <1>0, <2>1 DEF Handle, tasks, Finishes
  <2>2. CASE Rejected(r) BY <1>0, <2>2 DEF Rejected, Acknowledged, Finishes
  <2>3. CASE Respond(r) BY <1>0, <2>3 DEF Respond, Busy, Finishes
  <2>4. CASE Poll(r) \/ Forwarded(r)
    <3>1. st[r] \in {"pushed", "intent"} /\ st'[r] \in {"intent", "sent", "recording"}
        BY <1>0, <2>4 DEF Poll, FirstInLine, Forwarded, Acknowledged, Send, Returned
    <3>2. \A p \in Requests \ {r} : st'[p] = st[p]
        BY <1>0, <2>4 DEF Poll, Forwarded, Send, Returned
    <3>3. \A p \in Requests \ {r} : left'[p] = left[p]
      <4>1. left' = left \/ \E L : left' = [left EXCEPT ![r] = L]
          BY <2>4 DEF Poll, Forwarded, Send, Returned
      <4> QED BY <1>0, <4>1
    <3> QED BY <3>1, <3>2, <3>3 DEF Finishes
  <2>5. CASE ReadFailed(r) BY <2>5 DEF ReadFailed, Finishes
  <2>6. CASE NoResponse(r)
    <3>1. st[r] = "sent" /\ st' = [st EXCEPT ![r] = "recording"] /\ \E L : left' = [left EXCEPT ![r] = L]
        BY <2>6 DEF NoResponse, Returned
    <3> QED BY <1>0, <3>1 DEF Finishes
  <2>7. ASSUME NEW i \in Items, Count(r, i) \/ RecordOutcome(r, i) PROVE Finishes(q)
    <3>1. left' = [left EXCEPT ![r] = @ \ {i}] /\ st' = st BY <2>7 DEF Count, RecordOutcome
    <3>2. Counted(r, i) \in Reported'
      <4>1. CASE ignored' = ignored \cup {Counted(r, i)} BY <4>1 DEF Reported
      <4>2. ASSUME NEW was, Recorded(Outcome(r, i, was)) PROVE Counted(r, i) \in Reported'
        <5>1. trail' = trail \cup {Outcome(r, i, was)} BY <4>2 DEF Recorded, NothingGivenUp, RecordingOK
        <5>2. /\ Outcome(r, i, was).what = "outcome"
              /\ Counted(r, i) = [req |-> Outcome(r, i, was).req, item |-> Outcome(r, i, was).item,
                                  status |-> Outcome(r, i, was).status]
            BY DEF Outcome, Counted
        <5> QED BY <5>1, <5>2 DEF Reported, Outcomes
      <4> QED BY <2>7, <4>1, <4>2 DEF Count, RecordOutcome
    <3> QED BY <1>0, <3>1, <3>2 DEF Finishes
  <2> QED BY <1>1, <2>1, <2>2, <2>3, <2>4, <2>5, <2>6, <2>7 DEF Future
<1>2. ASSUME NEW a \in answers, Answered(a) \/ ReadAnswered(a) PROVE Finishes(q)
  <2>1. CASE Answered(a)
    <3>1. /\ st[a.req] = "sent" /\ st' = [st EXCEPT ![a.req] = "recording"]
          /\ \E L : left' = [left EXCEPT ![a.req] = L]
        BY <2>1 DEF Answered, Returned
    <3> QED BY <1>0, <3>1 DEF Finishes
  <2>2. CASE ReadAnswered(a) BY <2>2 DEF ReadAnswered, Finishes
  <2> QED BY <1>2, <2>1, <2>2
<1>3. CASE Serve \/ UpstreamLost \/ LossNoticed \/ Close \/ DrainTimeout \/ Drained \/ Gone
           \/ SummaryDue \/ Shutdown \/ StopServing \/ Stopped \/ SetFailMode \/ SetSummarise
           \/ UNCHANGED vars \/ \E h \in DOMAIN holding : RecordSummary(h)
  <2>1. UNCHANGED <<st, left>>
      BY <1>3 DEF Serve, UpstreamLost, LossNoticed, Close, DrainTimeout, Drained, Gone, SummaryDue, Shutdown,
                  StopServing, Stopped, SetFailMode, SetSummarise, RecordSummary, vars, futures
  <2> QED BY <2>1 DEF Finishes
<1>4. CASE Leave BY <1>0, <1>4 DEF Leave, Pending, IsAudited, Finishes
<1>5. ~CloseTimeout /\ ~Exit BY DEF NothingGivenUp, CloseTimeout, Exit
<1> HIDE ForwardAssumption DEF ForwardAssumption
<1> QED BY <1>1, <1>2, <1>3, <1>4, <1>5, StepKinds

\* A change is out because it was out before, or because its request is sent now.
LEMMA OnItsWayFrom ==
    ASSUME AllTyped, [Next]_vars, NEW r \in Requests, NEW i \in Items, OnItsWay(r, i)'
    PROVE  OnItsWay(r, i) \/ st'[r] = "sent"
<1>1. CASE NoTraffic BY <1>1 DEF NoTraffic, OnItsWay, Changed, Underway
<1>2. ASSUME NEW q \in Requests, Sent(q) PROVE OnItsWay(r, i) \/ st'[r] = "sent"
  <2>1. CASE q = r BY <1>2, <2>1 DEF Sent, AllTyped, ProgressTyped
  <2>2. CASE q # r
    <3>1. ReadOf(q) # [op |-> "change", req |-> r] /\ ChangeOf(q) # [op |-> "change", req |-> r]
        BY <2>2 DEF ReadOf, ChangeOf
    <3>2. Underway(r, i)' => Underway(r, i) BY <1>2, <3>1, SentWire DEF Underway
    <3>3. Changed(r, i)' => Changed(r, i) BY <1>2 DEF Changed, Sent
    <3> QED BY <3>2, <3>3 DEF OnItsWay
  <2> QED BY <2>1, <2>2
<1>3. CASE UpstreamLost BY <1>3, LostFacts DEF OnItsWay, Changed, Underway, server
<1>4. CASE Serve
  <2>1. Underway(r, i)' => Underway(r, i) BY <1>4, ServeFacts DEF Underway
  <2>2. ASSUME NEW c \in applied', c.req = r, c.item = i, c \notin applied PROVE Underway(r, i)
    <3>1. wire[1].op = "change" /\ c.req = wire[1].req BY <1>4, <2>2, ServeFacts
    <3>2. 1 \in DOMAIN wire /\ wire[1] = [op |-> "change", req |-> r] BY <1>4, <2>2, <3>1, ServeFacts DEF Message
    <3>3. PICK good \in SUBSET Touches[r] :
            applied' = applied \cup {[req |-> r, item |-> j, was |-> value[j]] : j \in good}
      <4>1. wire[1].op = "change" /\ r = wire[1].req BY <3>2
      <4>2. PICK good \in SUBSET Touches[r], fault \in BOOLEAN :
              /\ answers' = answers \cup {[op |-> "change", req |-> r, good |-> good, fault |-> fault]}
              /\ applied' = applied \cup {[req |-> r, item |-> j, was |-> value[j]] : j \in good}
          BY <1>4, <4>1, ServedChange
      <4> QED BY <4>2
    <3>4. i \in Touches[r] BY <2>2, <3>3
    <3> QED BY <3>2, <3>4 DEF Underway
  <2> QED BY <2>1, <2>2 DEF OnItsWay, Changed
<1> QED BY <1>1, <1>2, <1>3, <1>4, TrafficCases

\* How the connection task goes on, and what it holds.
LEMMA ConnSteps ==
    ASSUME NothingGivenUp, AllTyped, [Next]_vars
    PROVE  /\ conn \notin {"summing", "gone"} /\ conn' \in {"summing", "gone"} => Pending = {}
           /\ conn' \in {"open", "closing", "drain", "forced"} =>
                conn \in {"open", "closing", "drain", "forced"} /\ holding'["conn"] \subseteq holding["conn"]
<1> DEFINE Goes ==
        /\ conn \notin {"summing", "gone"} /\ conn' \in {"summing", "gone"} => Pending = {}
        /\ conn' \in {"open", "closing", "drain", "forced"} =>
             conn \in {"open", "closing", "drain", "forced"} /\ holding'["conn"] \subseteq holding["conn"]
<1>h. holding \in [Holders -> SUBSET Write] BY DEF AllTyped, TrailTyped
<1>1. ASSUME NEW r \in Requests, Handle(r) \/ Future(r) PROVE conn' = conn /\ holding' = holding
    BY <1>1 DEF Handle, Future, Poll, Forwarded, Rejected, ReadFailed, NoResponse, Respond, Count, RecordOutcome, tasks
<1>2. CASE \/ Serve \/ UpstreamLost \/ LossNoticed \/ \E a \in answers : Answered(a) \/ ReadAnswered(a)
           \/ Shutdown \/ Stopped \/ SetFailMode \/ SetSummarise \/ UNCHANGED vars
  <2>1. conn' = conn /\ holding' = holding
      BY <1>2 DEF Serve, UpstreamLost, LossNoticed, Answered, ReadAnswered, Shutdown, Stopped, SetFailMode,
                  SetSummarise, vars, tasks
  <2> QED BY <2>1
<1>3. CASE Close \/ Leave \/ DrainTimeout \/ Gone BY <1>3 DEF Close, Leave, DrainTimeout, Gone
<1>4. CASE Drained BY <1>4 DEF Drained
<1>5. CASE SummaryDue \/ StopServing
    BY <1>5, <1>h DEF SummaryDue, StopServing, TakeIgnored, tasks, Holders
<1>6. ASSUME NEW h \in DOMAIN holding, RecordSummary(h) PROVE Goes
  <2>1. PICK W : holding' = [holding EXCEPT ![h] = @ \ W] BY <1>6 DEF RecordSummary
  <2>2. holding'["conn"] \subseteq holding["conn"] BY <1>h, <2>1 DEF Holders
  <2>3. conn' = conn BY <1>6 DEF RecordSummary, tasks
  <2> QED BY <2>2, <2>3
<1>7. ~CloseTimeout /\ ~Exit BY DEF NothingGivenUp, CloseTimeout, Exit
<1>8. ASSUME conn' = conn, holding' = holding PROVE Goes BY <1>8
<1> HIDE ForwardAssumption DEF ForwardAssumption, Goes
<1>9. Goes BY <1>1, <1>2, <1>3, <1>4, <1>5, <1>6, <1>7, <1>8, StepKinds DEF Goes
<1> QED BY <1>9 DEF Goes

LEMMA FailModeSteps == ASSUME fail_closed \in FailModes, [Next]_vars PROVE fail_closed' \in FailModes
<1>1. ASSUME NEW r \in Requests, Handle(r) \/ Future(r) PROVE fail_closed' = fail_closed
    BY <1>1 DEF Handle, Future, Poll, Forwarded, Rejected, ReadFailed, NoResponse, Respond, Count, RecordOutcome,
                settings
<1>2. CASE Serve \/ UpstreamLost \/ LossNoticed \/ \E a \in answers : Answered(a) \/ ReadAnswered(a)
    BY <1>2 DEF Serve, UpstreamLost, LossNoticed, Answered, ReadAnswered, settings
<1>3. CASE Close \/ Leave \/ DrainTimeout \/ CloseTimeout \/ Drained \/ Gone \/ SummaryDue \/ Shutdown
           \/ StopServing \/ Stopped \/ Exit \/ \E h \in DOMAIN holding : RecordSummary(h)
    BY <1>3 DEF Close, Leave, DrainTimeout, CloseTimeout, Drained, Gone, SummaryDue, Shutdown, StopServing,
                Stopped, Exit, RecordSummary, settings
<1>4. CASE SetFailMode \/ SetSummarise \/ UNCHANGED vars
    BY <1>4 DEF SetFailMode, SetSummarise, vars, settings
<1> HIDE ForwardAssumption DEF ForwardAssumption
<1> QED BY <1>1, <1>2, <1>3, <1>4, StepKinds

LEMMA RecordingInit == Init => RecordingOK
<1> SUFFICES ASSUME Init PROVE RecordingOK OBVIOUS
<1>1. \A r \in Requests, i \in Items : ~OnItsWay(r, i) BY DEF Init, OnItsWay, Changed, Underway
<1> QED BY <1>1 DEF Init, RecordingOK

LEMMA RecordingKept ==
    ASSUME NothingGivenUp, AllTyped, DeliveryOK, ToldOK, RecordingOK, [Next]_vars PROVE RecordingOK'
<1>1. ASSUME NEW r \in Requests, NEW i \in Items, OnItsWay(r, i)'
      PROVE  \/ st'[r] = "sent"
             \/ st'[r] = "recording" /\ (i \in left'[r] \/ Told(r, i)')
             \/ st'[r] = "done" /\ Told(r, i)'
  <2>0. Told(r, i) => Told(r, i)' BY ReportedStays DEF Told
  <2>1. i \in Touches[r]
    <3>1. DeliveryOK' BY DeliveryKept
    <3> QED BY <1>1, <3>1 DEF OnItsWay, Changed, Underway, DeliveryOK, ServerOK
  <2>2. SUFFICES ASSUME OnItsWay(r, i), st'[r] # "sent"
                 PROVE  \/ st'[r] = "recording" /\ (i \in left'[r] \/ Told(r, i)')
                        \/ st'[r] = "done" /\ Told(r, i)'
      BY <1>1, OnItsWayFrom
  <2>3. CASE st[r] = "sent"
    <3>1. st'[r] = "recording" BY <2>1, <2>2, <2>3, FinishSteps DEF Finishes
    <3>2. Returns(r) BY <2>3, <3>1, ProgressSteps DEF Progress
    <3>3. CASE left'[r] = Touches[r] BY <2>1, <3>1, <3>3
    <3>4. CASE status'[r] = All("Bad")
      <4>1. ToldOK' BY ToldKept
      <4>2. Truthful(r, i, status[r][i])' BY <3>1, <4>1 DEF ToldOK
      <4>3. ~Changed(r, i)' /\ ~OnWire(r)' BY <3>4, <4>2 DEF Truthful, All
      <4> QED BY <1>1, <4>3 DEF OnItsWay, Underway, OnWire
    <3> QED BY <3>2, <3>3, <3>4 DEF Returns
  <2>4. CASE st[r] = "recording" /\ (i \in left[r] \/ Told(r, i))
    <3>1. CASE st'[r] = "recording" /\ \A j \in left[r] : j \in left'[r] \/ Counted(r, j) \in Reported'
      <4>1. Counted(r, i).req = r /\ Counted(r, i).item = i BY DEF Counted
      <4>2. Counted(r, i) \in Reported' => Told(r, i)' BY <4>1 DEF Told
      <4> QED BY <2>0, <2>4, <3>1, <4>2
    <3>2. CASE st'[r] = "done" /\ left[r] = {} BY <2>0, <2>4, <3>2
    <3> QED BY <2>1, <2>4, <3>1, <3>2, FinishSteps DEF Finishes
  <2>5. CASE st[r] = "done" /\ Told(r, i) BY <2>0, <2>5, FinishSteps DEF Finishes
  <2> QED BY <2>2, <2>3, <2>4, <2>5 DEF RecordingOK
<1>2. ASSUME conn' \in {"summing", "gone"} PROVE Pending' = {}
  <2>1. \A r \in Requests : r \in Pending' => r \in Pending BY <1>2, FinishSteps DEF Finishes, Pending
  <2>2. Pending = {}
    <3>1. CASE conn \in {"summing", "gone"} BY <3>1 DEF RecordingOK
    <3>2. CASE conn \notin {"summing", "gone"}
      <4>1. conn' = conn \/ Pending = {} \/ conn' \notin {"summing", "gone"} BY <3>2, ConnSteps
      <4> QED BY <1>2, <3>2, <4>1
    <3> QED BY <3>1, <3>2
  <2> QED BY <2>1, <2>2 DEF Pending
<1>3. ASSUME conn' \in {"open", "closing", "drain", "forced"} PROVE holding'["conn"] = {}
    BY <1>3, ConnSteps DEF RecordingOK
<1>4. fail_closed' \in FailModes BY FailModeSteps DEF RecordingOK
<1> QED BY <1>1, <1>2, <1>3, <1>4 DEF RecordingOK

LEMMA RecordingInvariance == ASSUME NothingGivenUp PROVE Spec => []RecordingOK
<1>1. Init => RecordingOK BY RecordingInit
<1>2. AllTyped /\ DeliveryOK /\ ToldOK /\ RecordingOK /\ [Next]_vars => RecordingOK' BY RecordingKept
<1> QED BY <1>1, <1>2, ToldInvariance, PTL DEF Spec

\* finish_audited, for any number of requests and items: where the store takes what it is
\* given, once the connection is gone each change that the server applied, and any that it
\* still may apply, has its record, also when the client hung up, the channel broke or the
\* target was stopped while the request was on its way.  Each hypothesis is needed: a store
\* that fails in fail-closed mode, one that stalls beyond CLOSE_TIMEOUT, and the end of the
\* process lose records.
THEOREM ChangesAreRecorded == ASSUME NothingGivenUp PROVE Spec => []ChangesRecorded
<1>1. RecordingOK => ChangesRecorded
  <2> SUFFICES ASSUME RecordingOK, conn = "gone", NEW r \in Requests, NEW i \in Items,
                      Changed(r, i) \/ Underway(r, i)
               PROVE  \E w \in Reported : w.req = r /\ w.item = i
      BY DEF ChangesRecorded
  <2>1. OnItsWay(r, i) BY DEF OnItsWay
  <2>2. Pending = {} BY DEF RecordingOK
  <2>3. st[r] \notin {"sent", "recording"} BY <2>2 DEF Pending
  <2>4. Told(r, i) BY <2>1, <2>3 DEF RecordingOK
  <2> QED BY <2>4 DEF Told
<1> QED BY <1>1, RecordingInvariance, PTL
===============================================================================
