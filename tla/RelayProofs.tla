------------------------------- MODULE RelayProofs ------------------------------
(***************************************************************************)
(* The listener, its connections and the OPC UA sessions over them, for    *)
(* any number of connections, addresses, sessions and requests: proofs     *)
(* about Connections and RelaySessions.                                    *)
(***************************************************************************)
EXTENDS Connections, RelaySessions, FiniteSetTheorems, TLAPS

USE ConAssumption DEF ConAssumption
-------------------------------------------------------------------------------
\* Connections: the trust in the certificates, and the counters of Admission

Idle == [at : {"none", "refused", "released"}]
Slot == [at : {"handshake", "closing", "ended", "leaked"}, from : Addresses]
Talk == [at : {"open", "connecting"}, from : Addresses, issued : BOOLEAN,
         secured : BOOLEAN, upstream : BOOLEAN, seen : Nat]
Counts == [active : Nat, tokens : 0..Burst, refused : Nat]

ConTyped ==
    /\ con \in [Conns -> Idle \cup Slot \cup Talk]
    /\ version \in Nat

\* A certificate in use was on the trust list when the last change this connection has seen
\* was made, or its removal is still to be announced.
TrustOK(r) ==
    r \in Talk =>
        /\ r.seen <= version
        /\ ~r.issued => ~r.secured /\ ~r.upstream /\ r.at # "connecting"
        /\ (r.seen = version /\ r.secured) =>
             /\ "client" \in trusted \cup revoking
             /\ (r.upstream \/ r.at = "connecting") => "server" \in trusted \cup revoking

TrustInv == ConTyped /\ \A c \in Conns : TrustOK(con[c])

Slots == {c \in Conns : HasSlot(c)}
SlotsOf(a) == {c \in Conns : HasSlot(c) /\ con[c].from = a}

CountInv ==
    /\ IsFiniteSet(Slots) /\ active = Cardinality(Slots) /\ active <= MaxTotal
    /\ address \in [Addresses -> Counts \cup {Unknown}]
    /\ \A a \in Addresses :
         /\ Cardinality(SlotsOf(a)) = StateOf(a).active
         /\ StateOf(a).active <= MaxOfAddress
    /\ refusals \in [Addresses -> Nat] /\ reported \in [Addresses -> Nat]
    /\ unreported \in [Addresses -> Nat] /\ taken \in [Addresses -> Nat]
    /\ accepting \in BOOLEAN
    /\ RefusalsReported

\* A step of one connection that leaves the lists and the version alone keeps the invariant
\* when the connection's new state is in order.
LEMMA TrustStep ==
    ASSUME TrustInv, NEW c \in Conns, NEW r \in Idle \cup Slot \cup Talk, Becomes(c, r),
           UNCHANGED <<trusted, version, revoking>>, TrustOK(r)
    PROVE  TrustInv'
<1>1. ConTyped' BY DEF TrustInv, ConTyped, Becomes
<1>2. ASSUME NEW d \in Conns PROVE TrustOK(con[d])'
  <2>1. TrustOK(con'[d]) BY DEF TrustInv, ConTyped, Becomes
  <2> QED BY <2>1 DEF TrustOK
<1> QED BY <1>1, <1>2 DEF TrustInv

LEMMA Disjoint == Talk \cap (Idle \cup Slot) = {} /\ Idle \cap Slot = {}
BY DEF Idle, Slot, Talk

\* What is not a Talk record says nothing about trust.
LEMMA Silent == ASSUME NEW r \in Idle \cup Slot PROVE TrustOK(r)
BY Disjoint DEF TrustOK

LEMMA StageOf ==
    ASSUME ConTyped, NEW c \in Conns
    PROVE  /\ con[c].at \in {"open", "connecting"} => con[c] \in Talk
           /\ con[c].at \in {"handshake", "closing", "ended", "leaked"} => con[c] \in Slot
           /\ ~HasSlot(c) => con[c] \in Idle
           /\ HasSlot(c) => con[c] \in Slot \cup Talk /\ con[c].from \in Addresses
BY DEF ConTyped, Idle, Slot, Talk, HasSlot

LEMMA TalkTrust ==
    ASSUME TrustInv, NEW c \in Conns,
           \/ Handshake(c) \/ OpenSecureChannel(c) \/ ProtocolError(c) \/ UpstreamConnect(c)
           \/ UpstreamAnswer(c) \/ LinkLost(c) \/ TrustChanged(c) \/ SeesShutdown(c) \/ Finish(c)
    PROVE  TrustInv'
<1> USE DEF Is
<1>a. Rest
    BY DEF Handshake, OpenSecureChannel, ProtocolError, UpstreamConnect, UpstreamAnswer,
           LinkLost, TrustChanged, SeesShutdown, Finish
<1>b. UNCHANGED <<trusted, version, revoking>> BY <1>a DEF Rest
<1>c. ConTyped /\ version \in Nat /\ TrustOK(con[c]) BY DEF TrustInv, ConTyped
<1>1. CASE Handshake(c)
  <2>1. con[c] \in Slot BY <1>1, <1>c, StageOf DEF Handshake
  <2>2. PICK e : e = [at |-> "ended", from |-> con[c].from] OBVIOUS
  <2>3. PICK o : o = [at |-> "open", from |-> con[c].from, issued |-> FALSE, secured |-> FALSE,
                      upstream |-> FALSE, seen |-> version]
      OBVIOUS
  <2>4. e \in Slot /\ o \in Talk BY <1>c, <2>1, <2>2, <2>3 DEF Slot, Talk
  <2>5. TrustOK(e) BY <2>4, Silent
  <2>6. TrustOK(o) BY <1>c, <2>3 DEF TrustOK
  <2> QED BY <1>1, <1>b, <2>2, <2>3, <2>4, <2>5, <2>6, TrustStep DEF Handshake
<1>2. CASE Is(c, "open") /\ Closing(c)
  <2>1. con[c] \in Talk BY <1>2, <1>c, StageOf
  <2>2. PICK r : r = [at |-> "closing", from |-> con[c].from] OBVIOUS
  <2>3. r \in Slot BY <2>1, <2>2 DEF Slot, Talk
  <2> QED BY <1>2, <1>b, <2>2, <2>3, Silent, TrustStep DEF Closing
<1>3. CASE OpenSecureChannel(c)
  <2>1. con[c] \in Talk BY <1>3, <1>c, StageOf DEF OpenSecureChannel
  <2>2. PICK secured \in BOOLEAN :
          /\ con[c].issued => secured = con[c].secured
          /\ IF ClientAccepted(c, secured)
             THEN Becomes(c, [con[c] EXCEPT !.issued = TRUE, !.secured = secured])
             ELSE Closing(c)
      BY <1>3 DEF OpenSecureChannel
  <2>3. CASE ClientAccepted(c, secured)
    <3>1. PICK r : r = [con[c] EXCEPT !.issued = TRUE, !.secured = secured] OBVIOUS
    <3>2. r \in Talk BY <2>1, <3>1 DEF Talk
    <3>3. r.at = "open" /\ r.issued /\ r.seen = con[c].seen /\ r.upstream = con[c].upstream
        BY <1>3, <2>1, <3>1 DEF Talk, OpenSecureChannel
    <3>4. r.secured = secured BY <2>1, <3>1 DEF Talk
    <3>5. TrustOK(r)
      <4>1. CASE con[c].issued
        <5>1. r.secured = con[c].secured BY <2>2, <3>4, <4>1
        <5> QED BY <1>3, <1>c, <2>1, <3>3, <4>1, <5>1 DEF TrustOK, OpenSecureChannel
      <4>2. CASE ~con[c].issued
        BY <1>c, <2>1, <2>3, <3>3, <3>4, <4>2 DEF TrustOK, ClientAccepted
      <4> QED BY <4>1, <4>2
    <3> QED BY <1>b, <2>2, <2>3, <3>1, <3>2, <3>5, TrustStep
  <2> QED BY <1>2, <1>3, <2>2, <2>3 DEF OpenSecureChannel
<1>4. CASE UpstreamConnect(c)
  <2>1. con[c] \in Talk /\ con[c].at = "open" BY <1>4, <1>c, StageOf DEF UpstreamConnect
  <2>2. CASE UNCHANGED con BY <1>b, <2>2 DEF TrustInv, ConTyped, TrustOK
  <2>3. CASE ~(con[c].secured /\ "server" \notin trusted)
             /\ Becomes(c, [con[c] EXCEPT !.at = "connecting"])
    <3>1. PICK r : r = [con[c] EXCEPT !.at = "connecting"] OBVIOUS
    <3>2. r \in Talk BY <2>1, <3>1 DEF Talk
    <3>3. TrustOK(r) BY <1>4, <1>c, <2>1, <2>3, <3>1 DEF TrustOK, Talk, UpstreamConnect
    <3> QED BY <1>b, <2>3, <3>1, <3>2, <3>3, TrustStep
  <2> QED BY <1>4, <2>2, <2>3 DEF UpstreamConnect
<1>5. CASE UpstreamAnswer(c)
  <2>1. con[c] \in Talk /\ con[c].at = "connecting" BY <1>5, <1>c, StageOf DEF UpstreamAnswer
  <2>2. PICK connected \in BOOLEAN :
             Becomes(c, [con[c] EXCEPT !.at = "open", !.upstream = connected])
      BY <1>5 DEF UpstreamAnswer
  <2>3. PICK r : r = [con[c] EXCEPT !.at = "open", !.upstream = connected] OBVIOUS
  <2>4. r \in Talk BY <2>1, <2>3 DEF Talk
  <2>5. TrustOK(r) BY <1>c, <2>1, <2>3 DEF TrustOK, Talk
  <2> QED BY <1>b, <2>2, <2>3, <2>4, <2>5, TrustStep
<1>6. CASE LinkLost(c) BY <1>2, <1>6 DEF LinkLost
<1>7. CASE TrustChanged(c) /\ StillTrusted(c)
  <2>1. con[c] \in Talk /\ con[c].at = "open" BY <1>7, <1>c, StageOf DEF TrustChanged
  <2>2. PICK r : r = [con[c] EXCEPT !.seen = version] OBVIOUS
  <2>3. r \in Talk BY <1>c, <2>1, <2>2 DEF Talk
  <2>4. TrustOK(r) BY <1>7, <1>c, <2>1, <2>2 DEF TrustOK, Talk, StillTrusted
  <2> QED BY <1>7, <1>b, <2>2, <2>3, <2>4, TrustStep DEF TrustChanged
<1>8. CASE Finish(c)
  <2>1. con[c].from \in Addresses BY <1>8, <1>c, StageOf DEF Finish, HasSlot
  <2>2. PICK e : e = [at |-> "ended", from |-> con[c].from] OBVIOUS
  <2>3. e \in Slot BY <2>1, <2>2 DEF Slot
  <2> QED BY <1>8, <1>b, <2>2, <2>3, Silent, TrustStep DEF Finish
<1>9. CASE TrustChanged(c) /\ ~StillTrusted(c) BY <1>2, <1>9 DEF TrustChanged
<1> QED
  BY <1>1, <1>2, <1>3, <1>4, <1>5, <1>6, <1>7, <1>8, <1>9 DEF ProtocolError, SeesShutdown

LEMMA ListTrust ==
    ASSUME TrustInv,
           \/ Refill \/ Report \/ LoopEnds \/ (\E a \in Addresses : RecordRefused(a))
           \/ Untrust \/ RecheckTrust \/ TrustRejected \/ StopTarget
           \/ UNCHANGED conVars
    PROVE  TrustInv'
<1>1. con' = con
    BY DEF Refill, Report, LoopEnds, RecordRefused, Untrust, RecheckTrust, TrustRejected,
           StopTarget, conVars
<1>2. CASE version' = version /\ trusted \cup revoking \subseteq trusted' \cup revoking'
    BY <1>1, <1>2 DEF TrustInv, ConTyped, TrustOK
<1>3. CASE RecheckTrust
  <2>1. ConTyped' BY <1>1, <1>3 DEF RecheckTrust, TrustInv, ConTyped
  <2>2. ASSUME NEW c \in Conns, con[c] \in Talk PROVE con[c].seen < version'
      BY <1>3, <2>2 DEF RecheckTrust, TrustInv, ConTyped, TrustOK, Talk
  <2>3. \A c \in Conns : TrustOK(con[c])'
      BY <1>1, <1>3, <2>2 DEF RecheckTrust, TrustInv, ConTyped, TrustOK, Talk
  <2> QED BY <2>1, <2>3 DEF TrustInv
<1>4. CASE ~RecheckTrust
  <2>1. version' = version /\ trusted \cup revoking \subseteq trusted' \cup revoking'
      BY <1>4 DEF Refill, Report, LoopEnds, RecordRefused, Untrust, TrustRejected, StopTarget, conVars
  <2> QED BY <1>2, <2>1
<1> QED BY <1>3, <1>4

LEMMA SlotTrust ==
    ASSUME TrustInv, NEW c \in Conns, Accept(c) \/ Release(c) \/ Leak(c)
    PROVE  TrustInv'
<1>1. CASE Accept(c)
  <2>0. ASSUME NEW a \in NextAddresses PROVE a \in Addresses BY <2>0 DEF NextAddresses
  <2>1. PICK a \in Addresses :
          con' \in {[con EXCEPT ![c] = [at |-> "refused"]],
                    [con EXCEPT ![c] = [at |-> "handshake", from |-> a]]}
      BY <1>1, <2>0 DEF Accept
  <2>2. PICK r \in Idle \cup Slot : Becomes(c, r) BY <2>1 DEF Idle, Slot, Becomes
  <2> QED BY <1>1, <2>2, Silent, TrustStep DEF Accept
<1>2. CASE Release(c)
  <2>1. PICK r \in Idle : Becomes(c, r) BY <1>2 DEF Idle, Release, Becomes
  <2> QED BY <1>2, <2>1, Silent, TrustStep DEF Release
<1>3. CASE Leak(c)
  <2>1. con[c] \in Slot BY <1>3, StageOf DEF Leak, TrustInv
  <2>2. PICK r : r = [con[c] EXCEPT !.at = "leaked"] OBVIOUS
  <2>3. r \in Slot BY <2>1, <2>2 DEF Slot
  <2> QED BY <1>3, <2>2, <2>3, Silent, TrustStep DEF Leak, Becomes
<1> QED BY <1>1, <1>2, <1>3

LEMMA TrustInvariance == ConSpec => []TrustInv
<1>1. ConInit => TrustInv
    BY DEF ConInit, TrustInv, ConTyped, TrustOK, Idle, Talk
<1>2. TrustInv /\ [ConNext]_conVars => TrustInv'
    BY TalkTrust, ListTrust, SlotTrust DEF ConNext
<1> QED BY <1>1, <1>2, PTL DEF ConSpec

\* Whoever trusts or revokes a certificate, and whatever a connection does meanwhile, a
\* connection that has seen the last change uses certificates that are on the trust list.
THEOREM RevokedTrustEnds == ConSpec => []RevokedNeverUsed
<1>1. TrustInv => RevokedNeverUsed
  <2> SUFFICES ASSUME TrustInv, NEW c \in Conns, Is(c, "open"), con[c].seen = version,
                      revoking = {}
               PROVE  StillOnList(c)
      BY DEF RevokedNeverUsed
  <2>1. con[c] \in Talk BY StageOf DEF TrustInv, Is
  <2> QED BY <2>1 DEF TrustInv, TrustOK, StillOnList, Is
<1> QED BY <1>1, TrustInvariance, PTL

\* A connection that keeps its slot, or goes on without one, leaves the slots as they are.
LEMMA SlotsKept ==
    ASSUME ConTyped, NEW c \in Conns, NEW r, Becomes(c, r),
           r.at \in {"none", "refused", "released"} <=> ~HasSlot(c),
           HasSlot(c) => r.from = con[c].from
    PROVE  Slots' = Slots /\ \A a \in Addresses : SlotsOf(a)' = SlotsOf(a)
<1>1. ASSUME NEW d \in Conns
      PROVE  HasSlot(d)' = HasSlot(d) /\ (HasSlot(d) => con'[d].from = con[d].from)
  <2>1. CASE d = c BY <2>1 DEF ConTyped, Becomes, HasSlot
  <2>2. CASE d # c BY <2>2 DEF ConTyped, Becomes, HasSlot
  <2> QED BY <2>1, <2>2
<1>2. Slots' = Slots BY <1>1 DEF Slots
<1>3. ASSUME NEW a \in Addresses PROVE SlotsOf(a)' = SlotsOf(a) BY <1>1 DEF SlotsOf
<1> QED BY <1>2, <1>3

\* The slots of an address are some of the slots.
LEMMA SlotsFinite ==
    ASSUME IsFiniteSet(Slots), NEW a
    PROVE  IsFiniteSet(SlotsOf(a)) /\ Cardinality(SlotsOf(a)) \in Nat
<1>1. SlotsOf(a) \in SUBSET Slots BY DEF Slots, SlotsOf
<1>2. IsFiniteSet(SlotsOf(a)) BY <1>1, FS_Subset
<1> QED BY <1>2, FS_CardinalityType

\* A step that changes neither the slots nor the counters keeps the invariant.
LEMMA CountStep ==
    ASSUME CountInv, Slots' = Slots, \A a \in Addresses : SlotsOf(a)' = SlotsOf(a),
           UNCHANGED counters
    PROVE  CountInv'
BY DEF CountInv, StateOf, RefusalsReported, Due, counters

LEMMA TalkCount ==
    ASSUME ConTyped, CountInv, NEW c \in Conns,
           \/ Handshake(c) \/ OpenSecureChannel(c) \/ ProtocolError(c) \/ UpstreamConnect(c)
           \/ UpstreamAnswer(c) \/ LinkLost(c) \/ TrustChanged(c) \/ SeesShutdown(c) \/ Finish(c)
           \/ Leak(c)
    PROVE  CountInv'
<1> USE DEF Is
<1>b. UNCHANGED counters
    BY DEF Handshake, OpenSecureChannel, ProtocolError, UpstreamConnect, UpstreamAnswer,
           LinkLost, TrustChanged, SeesShutdown, Finish, Leak, Rest
<1>1. HasSlot(c)
    BY DEF Handshake, OpenSecureChannel, ProtocolError, UpstreamConnect, UpstreamAnswer,
           LinkLost, TrustChanged, SeesShutdown, Finish, Leak, HasSlot
<1>2. ASSUME NEW r, Becomes(c, r), r.at \notin {"none", "refused", "released"},
             r.from = con[c].from
      PROVE  CountInv'
  BY <1>1, <1>2, <1>b, SlotsKept, CountStep
<1>3. CASE Handshake(c)
  <2>1. PICK r : Becomes(c, r) /\ r.at \in {"ended", "open"} /\ r.from = con[c].from
      BY <1>3 DEF Handshake
  <2> QED BY <1>2, <2>1
<1>4. CASE Finish(c)
  <2>1. PICK r : Becomes(c, r) /\ r.at = "ended" /\ r.from = con[c].from BY <1>4 DEF Finish
  <2> QED BY <1>2, <2>1
<1>9. CASE Leak(c)
  <2>1. con[c] \in Slot BY <1>9, StageOf DEF Leak
  <2>2. PICK r : r = [con[c] EXCEPT !.at = "leaked"] OBVIOUS
  <2>3. r.at = "leaked" /\ r.from = con[c].from BY <2>1, <2>2 DEF Slot
  <2>4. Becomes(c, r) BY <1>9, <2>2 DEF Leak, Becomes
  <2> QED BY <1>2, <2>3, <2>4
<1>10. CASE Closing(c)
  <2>1. PICK r : Becomes(c, r) /\ r.at = "closing" /\ r.from = con[c].from BY <1>10 DEF Closing
  <2> QED BY <1>2, <2>1
<1>5. CASE UNCHANGED con
  BY <1>5, <1>b, CountStep DEF Slots, SlotsOf, HasSlot
<1>6. CASE /\ con[c].at \in {"open", "connecting"}
           /\ ~Handshake(c) /\ ~Finish(c) /\ ~Leak(c) /\ ~Closing(c) /\ con' # con
  <2>1. con[c] \in Talk BY <1>6, StageOf
  <2>2. ASSUME NEW r, Becomes(c, r), r.at \in {"open", "connecting"}, r.from = con[c].from
        PROVE  CountInv'
      BY <1>2, <2>2
  <2>3. CASE OpenSecureChannel(c)
    <3>1. PICK secured \in BOOLEAN :
             Becomes(c, [con[c] EXCEPT !.issued = TRUE, !.secured = secured])
        BY <1>6, <2>3 DEF OpenSecureChannel
    <3> QED BY <1>6, <2>1, <2>2, <3>1 DEF Talk
  <2>5. CASE UpstreamConnect(c) BY <1>6, <2>1, <2>2, <2>5 DEF UpstreamConnect, Talk
  <2>6. CASE UpstreamAnswer(c) BY <2>1, <2>2, <2>6 DEF UpstreamAnswer, Talk
  <2>7. CASE TrustChanged(c)
    <3>1. Becomes(c, [con[c] EXCEPT !.seen = version]) BY <1>6, <2>7 DEF TrustChanged
    <3> QED BY <1>6, <2>1, <2>2, <3>1 DEF Talk
  <2> QED BY <1>6, <2>3, <2>5, <2>6, <2>7 DEF ProtocolError, SeesShutdown, LinkLost
<1> QED
  BY <1>3, <1>4, <1>5, <1>6, <1>9, <1>10 DEF OpenSecureChannel, ProtocolError, UpstreamConnect,
     UpstreamAnswer, LinkLost, TrustChanged, SeesShutdown

LEMMA CountedStates ==
    ASSUME CountInv, NEW a \in Addresses
    PROVE  /\ StateOf(a) \in Counts /\ Unknown \notin Counts
           /\ address[a] # Unknown => StateOf(a) = address[a]
<1>1. Unknown \notin Counts BY DEF Counts, Unknown
<1>2. [active |-> 0, tokens |-> Burst, refused |-> 0] \in Counts BY DEF Counts
<1>3. address[a] \in Counts \cup {Unknown} BY DEF CountInv
<1> QED BY <1>1, <1>2, <1>3 DEF StateOf

LEMMA AcceptCount == ASSUME ConTyped, CountInv, NEW c \in Conns, Accept(c) PROVE CountInv'
<1>1. PICK a \in NextAddresses :
         LET s == StateOf(a)
         IN IF active >= MaxTotal \/ s.active >= MaxOfAddress \/ s.tokens < 1
            THEN /\ address' = [address EXCEPT ![a] = [s EXCEPT !.refused = @ + 1]]
                 /\ refusals' = [refusals EXCEPT ![a] = @ + 1]
                 /\ con' = [con EXCEPT ![c] = [at |-> "refused"]]
                 /\ UNCHANGED active
            ELSE /\ address' = [address EXCEPT ![a] = [s EXCEPT !.active = @ + 1,
                                                                !.tokens = @ - 1]]
                 /\ active' = active + 1
                 /\ con' = [con EXCEPT ![c] = [at |-> "handshake", from |-> a]]
                 /\ UNCHANGED refusals
    BY DEF Accept
<1>2. a \in Addresses BY DEF NextAddresses
<1>3. PICK s : s = StateOf(a) OBVIOUS
<1>4. s \in Counts /\ Unknown \notin Counts BY <1>2, <1>3, CountedStates
<1>5. ~HasSlot(c) /\ c \notin Slots BY DEF Accept, Arriving, HasSlot, Slots
<1>6. UNCHANGED <<reported, unreported, taken, accepting>> /\ accepting BY DEF Accept, AtSelect
<1>7. CASE active >= MaxTotal \/ s.active >= MaxOfAddress \/ s.tokens < 1
  <2>1. PICK n : n = [s EXCEPT !.refused = @ + 1] OBVIOUS
  <2>2. n \in Counts /\ n.active = s.active /\ n.refused = s.refused + 1
      BY <1>4, <2>1 DEF Counts
  <2>3. /\ address' = [address EXCEPT ![a] = n] /\ refusals' = [refusals EXCEPT ![a] = @ + 1]
        /\ con' = [con EXCEPT ![c] = [at |-> "refused"]] /\ active' = active
      BY <1>1, <1>3, <1>7, <2>1
  <2>4. Slots' = Slots /\ \A b \in Addresses : SlotsOf(b)' = SlotsOf(b)
    <3>1. PICK r : r = [at |-> "refused"] OBVIOUS
    <3>2. Becomes(c, r) BY <2>3, <3>1 DEF Becomes
    <3> QED BY <1>5, <3>1, <3>2, SlotsKept
  <2>5. \A b \in Addresses : StateOf(b)' = IF b = a THEN n ELSE StateOf(b)
      BY <1>2, <1>4, <2>2, <2>3 DEF CountInv, StateOf
  <2>6. address' \in [Addresses -> Counts \cup {Unknown}]
      BY <1>2, <2>2, <2>3 DEF CountInv
  <2>7. refusals' \in [Addresses -> Nat] BY <1>2, <2>3 DEF CountInv
  <2>8. ASSUME NEW b \in Addresses
        PROVE  /\ (Cardinality(SlotsOf(b)) = StateOf(b).active)'
               /\ (StateOf(b).active <= MaxOfAddress)'
      BY <1>3, <2>2, <2>4, <2>5 DEF CountInv
  <2>9. ASSUME NEW b \in Addresses
        PROVE  (refusals[b] = reported[b] + unreported[b] + taken[b] + StateOf(b).refused)'
    <3>1. refusals[b] = reported[b] + unreported[b] + taken[b] + StateOf(b).refused
        BY <1>6 DEF CountInv, RefusalsReported, Due
    <3>2. StateOf(b) \in Counts BY CountedStates
    <3>3. StateOf(b).refused \in Nat /\ refusals[b] \in Nat /\ reported[b] \in Nat
          /\ unreported[b] \in Nat /\ taken[b] \in Nat
        BY <3>2 DEF Counts, CountInv
    <3>4. CASE b = a BY <1>3, <1>6, <2>2, <2>3, <2>5, <3>1, <3>3, <3>4 DEF CountInv
    <3>5. CASE b # a BY <1>6, <2>3, <2>5, <3>1, <3>5 DEF CountInv
    <3> QED BY <3>4, <3>5
  <2> QED BY <1>6, <2>3, <2>4, <2>6, <2>7, <2>8, <2>9 DEF CountInv, RefusalsReported, Due
<1>8. CASE ~(active >= MaxTotal \/ s.active >= MaxOfAddress \/ s.tokens < 1)
  <2>1. PICK n : n = [s EXCEPT !.active = @ + 1, !.tokens = @ - 1] OBVIOUS
  <2>a. s.active \in Nat /\ s.tokens \in 0..Burst /\ ~(s.tokens < 1) BY <1>4, <1>8 DEF Counts
  <2>b. s.tokens - 1 \in 0..Burst /\ s.active + 1 \in Nat BY <2>a
  <2>2. n \in Counts /\ n.active = s.active + 1 /\ n.refused = s.refused
      BY <1>4, <2>1, <2>b DEF Counts
  <2>3. /\ address' = [address EXCEPT ![a] = n] /\ refusals' = refusals
        /\ con' = [con EXCEPT ![c] = [at |-> "handshake", from |-> a]] /\ active' = active + 1
      BY <1>1, <1>3, <1>8, <2>1
  <2>4. Slots' = Slots \cup {c}
      BY <1>5, <2>3 DEF Slots, HasSlot, ConTyped
  <2>5. ASSUME NEW b \in Addresses
        PROVE  SlotsOf(b)' = IF b = a THEN SlotsOf(b) \cup {c} ELSE SlotsOf(b)
      BY <1>5, <2>3 DEF SlotsOf, HasSlot, ConTyped
  <2>6. \A b \in Addresses : StateOf(b)' = IF b = a THEN n ELSE StateOf(b)
      BY <1>2, <1>4, <2>2, <2>3 DEF CountInv, StateOf
  <2>7. address' \in [Addresses -> Counts \cup {Unknown}]
      BY <1>2, <2>2, <2>3 DEF CountInv
  <2>8. IsFiniteSet(Slots)' /\ Cardinality(Slots') = Cardinality(Slots) + 1
      BY <1>5, <2>4, FS_AddElement DEF CountInv
  <2>9. ASSUME NEW b \in Addresses
        PROVE  /\ (Cardinality(SlotsOf(b)) = StateOf(b).active)'
               /\ (StateOf(b).active <= MaxOfAddress)'
    <3>1. CASE b # a BY <2>5, <2>6, <3>1 DEF CountInv
    <3>2. CASE b = a
      <4>1. IsFiniteSet(SlotsOf(b)) /\ c \notin SlotsOf(b)
          BY <1>5, SlotsFinite DEF CountInv, SlotsOf
      <4>2. Cardinality(SlotsOf(b)') = Cardinality(SlotsOf(b)) + 1
          BY <2>5, <3>2, <4>1, FS_AddElement
      <4>3. Cardinality(SlotsOf(b)) = s.active BY <1>3, <3>2 DEF CountInv
      <4>4. s.active \in Nat BY <1>4 DEF Counts
      <4> QED BY <1>8, <2>2, <2>6, <3>2, <4>2, <4>3, <4>4
    <3> QED BY <3>1, <3>2
  <2>10. active' = Cardinality(Slots') /\ active' <= MaxTotal
    <3>1. Cardinality(Slots) \in Nat BY FS_CardinalityType DEF CountInv
    <3> QED BY <1>8, <2>3, <2>8, <3>1 DEF CountInv
  <2>11. RefusalsReported'
      BY <1>3, <1>6, <2>2, <2>3, <2>6 DEF CountInv, RefusalsReported, Due
  <2> QED BY <1>6, <2>3, <2>7, <2>8, <2>9, <2>10, <2>11 DEF CountInv
<1> QED BY <1>7, <1>8

LEMMA ReleaseCount == ASSUME ConTyped, CountInv, NEW c \in Conns, Release(c) PROVE CountInv'
<1>1. PICK a : a = con[c].from OBVIOUS
<1>2. a \in Addresses /\ HasSlot(c) BY <1>1, StageOf DEF Release, HasSlot, Slot
<1>3. c \in Slots /\ c \in SlotsOf(a) BY <1>1, <1>2 DEF Slots, SlotsOf
<1>4. Slots' = Slots \ {c} BY DEF Release, Slots, HasSlot, ConTyped
<1>5. ASSUME NEW b \in Addresses
      PROVE  SlotsOf(b)' = IF b = a THEN SlotsOf(b) \ {c} ELSE SlotsOf(b)
    BY <1>1 DEF Release, SlotsOf, HasSlot, ConTyped
<1>6. IsFiniteSet(Slots)' /\ Cardinality(Slots') = Cardinality(Slots) - 1
    BY <1>3, <1>4, FS_RemoveElement DEF CountInv
<1>7. Cardinality(Slots) \in Nat /\ Cardinality(Slots) # 0
    BY <1>3, FS_CardinalityType, FS_EmptySet DEF CountInv
<1>8. IsFiniteSet(SlotsOf(a)) /\ Cardinality(SlotsOf(a)) \in Nat BY SlotsFinite DEF CountInv
<1>9. Cardinality(SlotsOf(a)) # 0 BY <1>3, <1>8, FS_EmptySet
<1>10. Cardinality(SlotsOf(a)') = Cardinality(SlotsOf(a)) - 1
    BY <1>2, <1>3, <1>5, <1>8, FS_RemoveElement
<1>11. StateOf(a).active = Cardinality(SlotsOf(a)) BY <1>2 DEF CountInv
<1>12. address[a] # Unknown BY <1>9, <1>11 DEF StateOf
<1>13. PICK s : s = address[a] OBVIOUS
<1>14. s \in Counts /\ s = StateOf(a) /\ Unknown \notin Counts
    BY <1>2, <1>12, <1>13, CountedStates
<1>15. PICK n : n = [s EXCEPT !.active = s.active - 1] OBVIOUS
<1>16. s.active \in Nat /\ s.active > 0 BY <1>8, <1>9, <1>11, <1>14
<1>17. n \in Counts /\ n.active = s.active - 1 /\ n.refused = s.refused
    BY <1>14, <1>15, <1>16 DEF Counts
<1>18. address' = [address EXCEPT ![a] = n]
    BY <1>1, <1>2, <1>12, <1>13, <1>15, <1>16 DEF Release, CountInv
<1>19. address' \in [Addresses -> Counts \cup {Unknown}] BY <1>2, <1>17, <1>18 DEF CountInv
<1>20. \A b \in Addresses : StateOf(b)' = IF b = a THEN n ELSE StateOf(b)
    BY <1>2, <1>14, <1>17, <1>18 DEF CountInv, StateOf
<1>21. ASSUME NEW b \in Addresses
       PROVE  /\ (Cardinality(SlotsOf(b)) = StateOf(b).active)'
              /\ (StateOf(b).active <= MaxOfAddress)'
  <2>1. CASE b # a BY <1>5, <1>20, <2>1 DEF CountInv
  <2>2. CASE b = a
    <3>1. s.active <= MaxOfAddress BY <1>2, <1>14 DEF CountInv
    <3> QED BY <1>10, <1>11, <1>14, <1>16, <1>17, <1>20, <2>2, <3>1
  <2> QED BY <2>1, <2>2
<1>22. active' = Cardinality(Slots') /\ active' <= MaxTotal
    BY <1>6, <1>7 DEF CountInv, Release
<1>23. UNCHANGED <<refusals, reported, unreported, taken, accepting>> BY DEF Release
<1>24. RefusalsReported' BY <1>14, <1>17, <1>20, <1>23 DEF CountInv, RefusalsReported, Due
<1> QED BY <1>6, <1>19, <1>21, <1>22, <1>23, <1>24 DEF CountInv

\* A step on the counters of some addresses that leaves their active connections alone.
LEMMA CountersStep ==
    ASSUME CountInv, con' = con, active' = active,
           address' \in [Addresses -> Counts \cup {Unknown}],
           reported' \in [Addresses -> Nat], unreported' \in [Addresses -> Nat],
           taken' \in [Addresses -> Nat], accepting' \in BOOLEAN, refusals' = refusals,
           \A a \in Addresses : StateOf(a)'.active = StateOf(a).active,
           \A a \in Addresses : reported'[a] + unreported'[a] + taken'[a] + Due(a)'
                                = reported[a] + unreported[a] + taken[a] + Due(a)
    PROVE  CountInv'
<1>1. Slots' = Slots /\ \A a \in Addresses : SlotsOf(a)' = SlotsOf(a)
    BY DEF Slots, SlotsOf, HasSlot
<1> QED BY <1>1 DEF CountInv, RefusalsReported

LEMMA RefillCount == ASSUME CountInv, Refill PROVE CountInv'
<1>1. PICK a \in Addresses :
         /\ address[a] # Unknown /\ address[a].tokens < Burst
         /\ address' = [address EXCEPT ![a].tokens = @ + 1]
    BY DEF Refill
<1>2. PICK s : s = address[a] OBVIOUS
<1>3. s \in Counts /\ s = StateOf(a) /\ Unknown \notin Counts BY <1>1, <1>2, CountedStates
<1>4. s.tokens + 1 \in 0..Burst BY <1>1, <1>2, <1>3 DEF Counts
<1>5. PICK n : n = [s EXCEPT !.tokens = s.tokens + 1] OBVIOUS
<1>6. n \in Counts /\ n.active = s.active /\ n.refused = s.refused
    BY <1>3, <1>4, <1>5 DEF Counts
<1>7. address' = [address EXCEPT ![a] = n] BY <1>1, <1>2, <1>5 DEF CountInv
<1>8. address' \in [Addresses -> Counts \cup {Unknown}] BY <1>6, <1>7 DEF CountInv
<1>9. \A b \in Addresses : StateOf(b)' = IF b = a THEN n ELSE StateOf(b)
    BY <1>3, <1>6, <1>7 DEF CountInv, StateOf
<1>10. UNCHANGED <<con, active, refusals, reported, unreported, taken, accepting>> BY DEF Refill
<1>11. /\ reported' \in [Addresses -> Nat] /\ unreported' \in [Addresses -> Nat]
       /\ taken' \in [Addresses -> Nat] /\ accepting' \in BOOLEAN
    BY <1>10 DEF CountInv
<1>12. \A b \in Addresses : Due(b)' = Due(b) BY <1>3, <1>6, <1>9, <1>10 DEF Due
<1> QED BY <1>3, <1>6, <1>8, <1>9, <1>10, <1>11, <1>12, CountersStep

\* What the report takes from the counters is in the loop's hands.
LEMMA ReportCount == ASSUME CountInv, Report PROVE CountInv'
<1>1. PICK old \in SUBSET {a \in Addresses : address[a] # Unknown} :
         /\ address' = [a \in Addresses |->
              IF address[a] = Unknown \/ Forgotten(a, a \in old) THEN Unknown
              ELSE [address[a] EXCEPT !.refused = 0]]
         /\ taken' = [a \in Addresses |-> RefusedOf(a, a \in old)]
    BY DEF Report
<1>2. UNCHANGED <<con, active, refusals, reported, unreported, accepting>> /\ accepting
    BY DEF Report, AtSelect
<1>3. ASSUME NEW a \in Addresses
      PROVE  /\ address'[a] \in Counts \cup {Unknown}
             /\ StateOf(a)'.active = StateOf(a).active
             /\ StateOf(a)'.refused = 0
             /\ taken'[a] = StateOf(a).refused /\ taken'[a] \in Nat
  <2>0. Unknown \notin Counts BY CountedStates
  <2>1. CASE address[a] = Unknown
    BY <1>1, <2>0, <2>1 DEF StateOf, RefusedOf
  <2>2. CASE address[a] # Unknown /\ Forgotten(a, a \in old)
    <3>1. address[a] \in Counts /\ StateOf(a) = address[a] BY <2>2, CountedStates
    <3>2. address[a].active = 0 BY <2>2 DEF Forgotten
    <3>3. address[a].refused \in Nat BY <3>1 DEF Counts
    <3>4. address'[a] = Unknown /\ taken'[a] = address[a].refused
        BY <1>1, <2>2 DEF RefusedOf
    <3>5. StateOf(a)'.active = 0 /\ StateOf(a)'.refused = 0 BY <3>4 DEF StateOf
    <3> QED BY <2>0, <3>1, <3>2, <3>3, <3>4, <3>5
  <2>3. CASE address[a] # Unknown /\ ~Forgotten(a, a \in old)
    <3>1. PICK s : s = address[a] OBVIOUS
    <3>2. s \in Counts /\ StateOf(a) = s BY <2>3, <3>1, CountedStates
    <3>3. PICK n : n = [s EXCEPT !.refused = 0] OBVIOUS
    <3>4. n \in Counts /\ n.active = s.active /\ n.refused = 0 /\ s.refused \in Nat
        BY <3>2, <3>3 DEF Counts
    <3>5. address'[a] = n /\ taken'[a] = s.refused
        BY <1>1, <2>3, <3>1, <3>3 DEF RefusedOf
    <3>6. StateOf(a)' = n BY <2>0, <3>4, <3>5 DEF StateOf
    <3> QED BY <2>0, <3>2, <3>4, <3>5, <3>6
  <2> QED BY <2>1, <2>2, <2>3
<1>4. address' \in [Addresses -> Counts \cup {Unknown}] BY <1>1, <1>3
<1>5. taken' \in [Addresses -> Nat] BY <1>1, <1>3
<1>6. ASSUME NEW a \in Addresses
      PROVE  reported'[a] + unreported'[a] + taken'[a] + Due(a)'
             = reported[a] + unreported[a] + taken[a] + Due(a)
  <2>1. taken[a] = 0 BY DEF Report, AtSelect
  <2>2. Due(a) = StateOf(a).refused /\ Due(a)' = 0 BY <1>2, <1>3 DEF Due
  <2>3. reported[a] \in Nat /\ unreported[a] \in Nat BY DEF CountInv
  <2> QED BY <1>2, <1>3, <2>1, <2>2, <2>3
<1>7. /\ reported' \in [Addresses -> Nat] /\ unreported' \in [Addresses -> Nat]
      /\ accepting' \in BOOLEAN
    BY <1>2 DEF CountInv
<1> QED BY <1>2, <1>3, <1>4, <1>5, <1>6, <1>7, CountersStep

\* A record for an address is stored or refused; at the loop's end what is counted stays
\* unreported.
LEMMA LoopCount ==
    ASSUME CountInv, LoopEnds \/ \E a \in Addresses : RecordRefused(a) PROVE CountInv'
<1>0. UNCHANGED <<con, active, address, refusals>> BY DEF LoopEnds, RecordRefused
<1>1. \A a \in Addresses : StateOf(a)' = StateOf(a) /\ StateOf(a).refused \in Nat
    BY <1>0, CountedStates DEF StateOf, Counts
<1>2. /\ taken \in [Addresses -> Nat] /\ reported \in [Addresses -> Nat]
      /\ unreported \in [Addresses -> Nat] /\ address \in [Addresses -> Counts \cup {Unknown}]
      /\ accepting \in BOOLEAN
    BY DEF CountInv
<1>3. CASE LoopEnds
  <2>1. /\ accepting /\ accepting' = FALSE /\ UNCHANGED <<taken, reported>>
        /\ unreported' = [a \in Addresses |-> unreported[a] + StateOf(a).refused]
      BY <1>3 DEF LoopEnds, AtSelect
  <2>2. unreported' \in [Addresses -> Nat] BY <1>1, <1>2, <2>1
  <2>3. \A a \in Addresses : reported'[a] + unreported'[a] + taken'[a] + Due(a)'
                              = reported[a] + unreported[a] + taken[a] + Due(a)
      BY <1>1, <1>2, <2>1 DEF Due
  <2> QED BY <1>0, <1>1, <1>2, <2>1, <2>2, <2>3, CountersStep
<1>4. ASSUME NEW a \in Addresses, RecordRefused(a) PROVE CountInv'
  <2>1. /\ taken' = [taken EXCEPT ![a] = 0] /\ UNCHANGED accepting
        /\ \/ reported' = [reported EXCEPT ![a] = @ + taken[a]] /\ UNCHANGED unreported
           \/ unreported' = [unreported EXCEPT ![a] = @ + taken[a]] /\ UNCHANGED reported
      BY <1>4 DEF RecordRefused
  <2>2. /\ taken' \in [Addresses -> Nat] /\ reported' \in [Addresses -> Nat]
        /\ unreported' \in [Addresses -> Nat]
      BY <1>2, <2>1
  <2>3. \A b \in Addresses : Due(b)' = Due(b) BY <1>1, <2>1 DEF Due
  <2>4. ASSUME NEW b \in Addresses
        PROVE  reported'[b] + unreported'[b] + taken'[b] = reported[b] + unreported[b] + taken[b]
    <3>1. CASE b = a BY <1>2, <2>1, <3>1
    <3>2. CASE b # a BY <1>2, <2>1, <3>2
    <3> QED BY <3>1, <3>2
  <2>5. \A b \in Addresses : Due(b) \in Nat BY <1>1 DEF Due
  <2>6. \A b \in Addresses : reported'[b] + unreported'[b] + taken'[b] + Due(b)'
                              = reported[b] + unreported[b] + taken[b] + Due(b)
      BY <2>3, <2>4
  <2> QED BY <1>0, <1>1, <1>2, <2>1, <2>2, <2>6, CountersStep
<1> QED BY <1>3, <1>4

LEMMA CountInvariance == ConSpec => []CountInv
<1>1. ConInit => CountInv
  <2> SUFFICES ASSUME ConInit PROVE CountInv OBVIOUS
  <2>1. Slots = {} /\ \A a \in Addresses : SlotsOf(a) = {}
      BY DEF ConInit, Slots, SlotsOf, HasSlot
  <2>2. \A a \in Addresses : StateOf(a) = [active |-> 0, tokens |-> Burst, refused |-> 0]
      BY DEF ConInit, StateOf
  <2> QED BY <2>1, <2>2, FS_EmptySet DEF ConInit, CountInv, RefusalsReported, Due
<1>2. ConTyped /\ CountInv /\ [ConNext]_conVars => CountInv'
  <2> SUFFICES ASSUME ConTyped, CountInv, [ConNext]_conVars PROVE CountInv' OBVIOUS
  <2>1. CASE Untrust \/ RecheckTrust \/ TrustRejected \/ StopTarget \/ UNCHANGED conVars
    <3>1. UNCHANGED <<con, counters>>
        BY <2>1 DEF Untrust, RecheckTrust, TrustRejected, StopTarget, conVars
    <3> QED BY <3>1, CountStep DEF Slots, SlotsOf, HasSlot
  <2> QED BY <2>1, TalkCount, AcceptCount, ReleaseCount, RefillCount, ReportCount, LoopCount DEF ConNext
<1>3. TrustInv => ConTyped BY DEF TrustInv
<1> QED BY <1>1, <1>2, <1>3, TrustInvariance, PTL DEF ConSpec

\* However connections come and go and addresses are forgotten, the slots counted are those of
\* the running connections and of the tasks that ended outside their guard, the limits hold,
\* and a refused connection is in one report, due in the next, or left out with a record that
\* the trail refused or with the end of the accept loop.
THEOREM AdmissionIsTrue == ConSpec => []AdmissionCounts
<1>1. CountInv => AdmissionCounts
  BY DEF CountInv, AdmissionCounts, SlotsCounted, Slots, SlotsOf
<1> QED BY <1>1, CountInvariance, PTL

ListInv ==
    /\ trusted \subseteq Certs /\ revoking \subseteq Certs
    /\ version \in Nat /\ version + Cardinality(revoking) <= MaxRevoked

LEMMA FiniteCerts == IsFiniteSet(Certs)
<1>1. IsFiniteSet({"client"}) BY FS_Singleton
<1>2. Certs = {"client"} \cup {"server"} BY DEF Certs
<1> QED BY <1>1, <1>2, FS_AddElement

LEMMA ListInvariance == ConSpec => []ListInv
<1>1. ConInit => ListInv BY FS_EmptySet DEF ConInit, ListInv
<1>2. ListInv /\ [ConNext]_conVars => ListInv'
  <2> SUFFICES ASSUME ListInv, [ConNext]_conVars PROVE ListInv' OBVIOUS
  <2>1. IsFiniteSet(revoking) /\ Cardinality(revoking) \in Nat
      BY FiniteCerts, FS_Subset, FS_CardinalityType DEF ListInv
  <2>2. CASE Untrust
    <3>1. PICK k \in trusted \ revoking : trusted' = trusted \ {k} /\ revoking' = revoking \cup {k}
        BY <2>2 DEF Untrust
    <3>2. Cardinality(revoking') = Cardinality(revoking) + 1 BY <2>1, <3>1, FS_AddElement
    <3>3. version' = version /\ version + Cardinality(revoking) < MaxRevoked BY <2>2 DEF Untrust
    <3> QED BY <2>1, <3>1, <3>2, <3>3 DEF ListInv
  <2>3. CASE RecheckTrust
    <3>1. PICK k \in revoking : revoking' = revoking \ {k} BY <2>3 DEF RecheckTrust
    <3>2. Cardinality(revoking') = Cardinality(revoking) - 1 BY <2>1, <3>1, FS_RemoveElement
    <3>3. version' = version + 1 /\ trusted' = trusted BY <2>3 DEF RecheckTrust
    <3> QED BY <2>1, <3>1, <3>2, <3>3 DEF ListInv
  <2>4. CASE TrustRejected
    BY <2>4 DEF TrustRejected, ListInv
  <2>5. CASE \/ \E c \in Conns :
               \/ Accept(c) \/ Handshake(c) \/ OpenSecureChannel(c) \/ ProtocolError(c)
               \/ UpstreamConnect(c) \/ UpstreamAnswer(c) \/ LinkLost(c)
               \/ TrustChanged(c) \/ SeesShutdown(c) \/ Finish(c) \/ Release(c) \/ Leak(c)
             \/ (\E a \in Addresses : RecordRefused(a))
             \/ Refill \/ Report \/ LoopEnds \/ StopTarget \/ UNCHANGED conVars
    <3>1. UNCHANGED <<trusted, version, revoking>>
      BY <2>5 DEF Accept, Handshake, OpenSecureChannel, ProtocolError, UpstreamConnect,
         UpstreamAnswer, LinkLost, TrustChanged, SeesShutdown, Finish, Release, Leak, Refill,
         Report, RecordRefused, LoopEnds, StopTarget, Rest, conVars
    <3> QED BY <3>1 DEF ListInv
  <2> QED BY <2>2, <2>3, <2>4, <2>5 DEF ConNext
<1> QED BY <1>1, <1>2, PTL DEF ConSpec

\* Type correctness of the listener: its counters, the buckets of its addresses, the stages
\* of its connections and the trust list.
THEOREM ListenerTyped == ConSpec => []ConTypeOK
<1>1. TrustInv /\ CountInv /\ ListInv => ConTypeOK
  <2> SUFFICES ASSUME TrustInv, CountInv, ListInv PROVE ConTypeOK OBVIOUS
  <2>1. active \in Nat BY FS_CardinalityType DEF CountInv
  <2>2. version \in 0..MaxRevoked /\ trusted \subseteq Certs
    <3>1. Cardinality(revoking) \in Nat BY FiniteCerts, FS_Subset, FS_CardinalityType DEF ListInv
    <3> QED BY <3>1 DEF ListInv
  <2>3. ASSUME NEW c \in Conns
        PROVE  con[c].at \in {"none", "refused", "handshake", "open", "connecting", "closing",
                              "ended", "leaked", "released"}
    <3>1. con[c] \in Idle \cup Slot \cup Talk BY DEF TrustInv, ConTyped
    <3> QED BY <3>1 DEF Idle, Slot, Talk
  <2>4. ASSUME NEW a \in Addresses, address[a] # Unknown PROVE address[a].tokens \in 0..Burst
    <3>1. address[a] \in Counts BY <2>4 DEF CountInv
    <3> QED BY <3>1 DEF Counts
  <2>5. accepting \in BOOLEAN /\ taken \in [Addresses -> Nat] BY DEF CountInv
  <2> QED BY <2>1, <2>2, <2>3, <2>4, <2>5 DEF ConTypeOK
<1> QED BY <1>1, TrustInvariance, CountInvariance, ListInvariance, PTL
-------------------------------------------------------------------------------
\* RelaySessions: who owns a session, and whose name a record carries

USE SesAssumption DEF SesAssumption

Flying == {"sent", "executed", "late"}
Names == SesUsers \cup {NoUser}
Entry == [user : Names, owner : Chans, cert : {Cert[c] : c \in Chans}, rank : 0..2,
          dn : Nat, un : Nat]
Session == [user : Names, chan : Chans, nonce : Nat]
Creates == [at : Flying, kind : {"create"}, conn : Chans, token : SesTokens, sn : Nat]
Activates == [at : Flying, kind : {"activate"}, conn : Chans, token : SesTokens,
              user : SesUsers, dn : Nat, un : Nat, good : BOOLEAN, sn : Nat, alone : BOOLEAN]
Writes == [at : Flying, kind : {"write"}, conn : Chans, token : SesTokens, rec : Names,
           by : Names \cup {"ended", "elsewhere"}, mixed : BOOLEAN]
Closes == [at : Flying, kind : {"close"}, conn : Chans, token : SesTokens]
Proofs == [at : {"done"}, kind : {"proof"}, token : SesTokens, dn : Nat]
Others == [at : {"done"}, kind : {"other"}, token : SesTokens]
Starts == [at : {"start"}]
Request == Creates \cup Activates \cup Writes \cup Closes \cup Proofs \cup Others \cup Starts

SesTyped ==
    /\ reg \in [SesTokens -> Entry \cup {NoEntry}]
    /\ srv \in [SesTokens -> Session \cup {NoEntry}]
    /\ sreq \in [SesReqs -> Request]
    /\ nonces \in Nat
    /\ ended \in [SesTokens -> Nat]

Used(r, t) == sreq[r].at # "start" /\ sreq[r].token = t
Does(r, k, t) == InFlight(r) /\ sreq[r].kind = k /\ sreq[r].token = t

\* An activation that proved its key, whether it is answered already or not.
Proven(r, t) ==
    \/ sreq[r].at = "done" /\ sreq[r].kind = "proof" /\ sreq[r].token = t
    \/ Does(r, "activate", t) /\ sreq[r].good /\ Rank[sreq[r].conn] > 0

\* No nonce is larger than the number of nonces drawn.
NoncesOK(t) ==
    /\ reg[t] # NoEntry => reg[t].dn <= nonces /\ reg[t].un <= nonces
    /\ srv[t] # NoEntry => srv[t].nonce <= nonces
    /\ \A r \in SesReqs :
         /\ Does(r, "activate", t) => sreq[r].un <= nonces /\ sreq[r].dn <= nonces
                                      /\ sreq[r].sn <= nonces
         /\ Does(r, "create", t) => sreq[r].sn <= nonces
         /\ Proven(r, t) => sreq[r].dn <= nonces

\* A token that is being created is in no other request that matters, and nowhere yet but
\* on the server.
CreateOK(t) ==
    \A r \in SesReqs : Does(r, "create", t) =>
        /\ reg[t] = NoEntry /\ ended[t] = 0
        /\ srv[t] # NoEntry =>
             /\ sreq[r].at = "executed" /\ srv[t].user = NoUser
             /\ srv[t].chan = sreq[r].conn /\ srv[t].nonce = sreq[r].sn
        /\ \A q \in SesReqs \ {r} : Used(q, t) =>
             /\ sreq[q].kind \notin {"create", "activate", "proof"}
             /\ sreq[q].kind = "write" => sreq[q].rec = NoUser

\* An entry belongs to a connection that proved its certificate; a token without one was
\* closed here, has ended on the server, or was never activated.
EntryOK(t) ==
    /\ reg[t] # NoEntry =>
         /\ ended[t] = 0
         /\ Rank[reg[t].owner] >= reg[t].rank
         /\ reg[t].rank > 0 => Cert[reg[t].owner] = reg[t].cert
    /\ reg[t] = NoEntry =>
         \/ ended[t] = 1
         \/ srv[t] = NoEntry
         \/ srv[t].user = NoUser /\ \A r \in SesReqs : ~Does(r, "activate", t)

\* The server has the session as activation r left it.
LeftBy(r, t) ==
    /\ srv[t].user = sreq[r].user /\ srv[t].chan = sreq[r].conn /\ srv[t].nonce = sreq[r].sn

ActOK(t) ==
    \A r \in SesReqs : Does(r, "activate", t) =>
        /\ reg[t] # NoEntry => MayActivate(sreq[r].conn, reg[t])
        /\ sreq[r].good => sreq[r].at = "executed"
        /\ sreq[r].at = "late" => t \in unsure
        /\ (sreq[r].good /\ sreq[r].alone /\ srv[t] # NoEntry) => LeftBy(r, t)
        /\ \A q \in SesReqs \ {r} : Does(q, "activate", t) =>
             /\ ~sreq[r].alone
             /\ Rank[sreq[r].conn] = 0 => t \in unsure

\* A nonce that proved a key proves none again: whoever else holds it holds with it an
\* upstream nonce that the server does not expect any more.
ProofOK(t) ==
    \A r \in SesReqs : Proven(r, t) =>
        /\ (srv[t] # NoEntry /\ reg[t] # NoEntry /\ reg[t].dn = sreq[r].dn) =>
             reg[t].un # srv[t].nonce
        /\ \A q \in SesReqs \ {r} : Proven(q, t) => sreq[q].dn # sreq[r].dn
        /\ \A q \in SesReqs :
             (/\ srv[t] # NoEntry /\ Does(q, "activate", t) /\ ~sreq[q].good
              /\ Rank[sreq[q].conn] > 0 /\ sreq[q].dn = sreq[r].dn)
             => sreq[q].un # srv[t].nonce

\* The registry agrees with the server, or one activation that the server has executed is
\* still to be answered and no other one can succeed before that.
Agreed(t) ==
    /\ reg[t].user = srv[t].user /\ reg[t].owner = srv[t].chan /\ reg[t].un = srv[t].nonce
    /\ \A r \in SesReqs : Does(r, "activate", t) => ~sreq[r].good

Pending(q, t) ==
    /\ Does(q, "activate", t) /\ sreq[q].good /\ LeftBy(q, t)
    /\ reg[t].un # srv[t].nonce
    /\ \A r \in SesReqs \ {q} :
         Does(r, "activate", t) => ~sreq[r].good /\ sreq[r].un # srv[t].nonce

SyncOK(t) ==
    (reg[t] # NoEntry /\ srv[t] # NoEntry /\ t \notin unsure) =>
        Agreed(t) \/ \E q \in SesReqs : Pending(q, t)

\* What a record will say is what the server will do, as long as no activation intervenes.
WillBeTrue(r, t) ==
    /\ \A q \in SesReqs : ~Does(q, "activate", t)
    /\ \/ srv[t] = NoEntry
       \/ srv[t].chan = sreq[r].conn /\ srv[t].user = sreq[r].rec
       \/ srv[t].chan # sreq[r].conn /\ sreq[r].rec = NoUser
       \/ srv[t].user = NoUser /\ sreq[r].rec = NoUser
       \/ sreq[r].rec = NoUser /\ ended[t] = 1

IsTrue(r, t) ==
    \/ sreq[r].rec = sreq[r].by
    \/ sreq[r].by = "ended"
    \/ sreq[r].rec = NoUser /\ (sreq[r].by = "elsewhere" \/ ended[t] = 1)

WriteOK(t) ==
    \A r \in SesReqs : (Does(r, "write", t) /\ ~sreq[r].mixed) =>
        /\ sreq[r].at = "sent" => WillBeTrue(r, t)
        /\ sreq[r].at = "executed" => IsTrue(r, t)

TokenInv(t) ==
    /\ NoncesOK(t) /\ CreateOK(t) /\ EntryOK(t) /\ ActOK(t) /\ ProofOK(t) /\ SyncOK(t)
    /\ WriteOK(t)

SesInv == SesTyped /\ \A t \in SesTokens : TokenInv(t)

LEMMA NoEntryIsNone == NoEntry \notin Entry \cup Session
BY DEF NoEntry, Entry, Session

\* The fields of a request follow from its stage and its kind.
LEMMA KindOf ==
    ASSUME SesTyped, NEW r \in SesReqs
    PROVE  /\ InFlight(r) <=> sreq[r].at \in Flying
           /\ InFlight(r) => sreq[r].kind \in {"create", "activate", "write", "close"}
           /\ InFlight(r) /\ sreq[r].kind = "create" => sreq[r] \in Creates
           /\ InFlight(r) /\ sreq[r].kind = "activate" => sreq[r] \in Activates
           /\ InFlight(r) /\ sreq[r].kind = "write" => sreq[r] \in Writes
           /\ InFlight(r) /\ sreq[r].kind = "close" => sreq[r] \in Closes
           /\ sreq[r].at = "start" => sreq[r] \in Starts
           /\ sreq[r].at = "done" => sreq[r] \in Proofs \cup Others
           /\ sreq[r].at # "start" => sreq[r].token \in SesTokens
<1>1. sreq[r] \in Request BY DEF SesTyped
<1> QED
  BY <1>1 DEF InFlight, Flying, Request, Creates, Activates, Writes, Closes, Proofs, Others, Starts

LEMMA ActivatingDoes ==
    ASSUME NEW t PROVE Activating(t) = {r \in SesReqs : Does(r, "activate", t)}
BY DEF Activating, Does

\* A step that touches a token at most by forgetting an entry that has ended on the server
\* keeps what is said about that token.
LEMMA OtherToken ==
    ASSUME SesInv, NEW t \in SesTokens, nonces' \in Nat, nonces <= nonces',
           \A q \in SesReqs : sreq'[q] = sreq[q] \/ (~Used(q, t) /\ ~Used(q, t)'),
           reg'[t] = reg[t] \/ (reg'[t] = NoEntry /\ srv[t] = NoEntry),
           srv'[t] = srv[t], ended'[t] = ended[t], (t \in unsure') <=> (t \in unsure)
    PROVE  TokenInv(t)'
<1>0. TokenInv(t) /\ SesTyped BY DEF SesInv
<1>1. ASSUME NEW q \in SesReqs
      PROVE  /\ Used(q, t)' <=> Used(q, t)
             /\ \A k : Does(q, k, t)' <=> Does(q, k, t)
             /\ Proven(q, t)' <=> Proven(q, t)
             /\ Used(q, t) => sreq'[q] = sreq[q]
    BY <1>1 DEF Used, Does, Proven, InFlight
<1>2. ASSUME NEW q \in SesReqs
      PROVE  /\ (\E k : Does(q, k, t)) => Used(q, t)
             /\ Proven(q, t) => Used(q, t)
    BY DEF Used, Does, Proven, InFlight
<1>3. ASSUME NEW q \in SesReqs
      PROVE  /\ Does(q, "activate", t) => sreq[q] \in Activates
             /\ Does(q, "create", t) => sreq[q] \in Creates
             /\ Proven(q, t) => sreq[q] \in Activates \cup Proofs
    BY <1>0, KindOf DEF Does, Proven, Proofs, Others
<1>4. NoncesOK(t)'
  <2>1. reg'[t] # NoEntry => reg'[t].dn <= nonces' /\ reg'[t].un <= nonces'
      BY <1>0, NoEntryIsNone DEF TokenInv, NoncesOK, SesTyped, Entry
  <2>2. srv'[t] # NoEntry => srv'[t].nonce <= nonces'
      BY <1>0, NoEntryIsNone DEF TokenInv, NoncesOK, SesTyped, Session
  <2>3. ASSUME NEW r \in SesReqs
        PROVE  /\ Does(r, "activate", t) => sreq[r].un <= nonces' /\ sreq[r].dn <= nonces'
                                            /\ sreq[r].sn <= nonces'
               /\ Does(r, "create", t) => sreq[r].sn <= nonces'
               /\ Proven(r, t) => sreq[r].dn <= nonces'
      BY <1>0, <1>3 DEF TokenInv, NoncesOK, SesTyped, Activates, Creates, Proofs
  <2> QED BY <1>1, <1>2, <2>1, <2>2, <2>3 DEF NoncesOK
<1>5. CreateOK(t)' BY <1>0, <1>1, <1>2 DEF TokenInv, CreateOK
<1>6. EntryOK(t)' BY <1>0, <1>1, <1>2 DEF TokenInv, EntryOK
<1>7. ActOK(t)' BY <1>0, <1>1, <1>2 DEF TokenInv, ActOK, LeftBy, MayActivate
<1>8. ProofOK(t)' BY <1>0, <1>1, <1>2 DEF TokenInv, ProofOK
<1>9. SyncOK(t)'
    BY <1>0, <1>1, <1>2 DEF TokenInv, SyncOK, Agreed, Pending, LeftBy
<1>10. WriteOK(t)' BY <1>0, <1>1, <1>2 DEF TokenInv, WriteOK, WillBeTrue, IsTrue
<1> QED BY <1>4, <1>5, <1>6, <1>7, <1>8, <1>9, <1>10 DEF TokenInv

\* Request q goes on without doing anything about its session: it is over, or it closes the
\* session, or its wait ends one way or the other before it succeeded.
Ends(q, t) ==
    /\ sreq'[q].at # "start" /\ sreq'[q].token = t
    /\ \/ sreq'[q].kind \in {"close", "other"}
       \/ Proven(q, t) /\ sreq'[q].at = "done" /\ sreq'[q].kind = "proof"
          /\ sreq'[q].dn = sreq[q].dn
    /\ (Does(q, "activate", t) /\ sreq[q].good) => t \in unsure' \/ reg[t] = NoEntry

Waits(q, t) ==
    /\ sreq[q].at = "sent" /\ sreq[q].token = t
    /\ \/ /\ sreq[q].kind \in {"create", "activate", "write"}
          /\ sreq'[q] = [sreq[q] EXCEPT !.at = "late"]
          /\ sreq[q].kind = "activate" => t \in unsure'
       \/ sreq[q].kind = "activate" /\ sreq'[q] = [sreq[q] EXCEPT !.at = "executed"]

\* A step that only takes something away from a token: its entry, with a record, or its
\* session on the server, or a request that would have done something about it.
LEMMA LessToken ==
    ASSUME SesInv, NEW t \in SesTokens, nonces' = nonces,
           \A q \in SesReqs : sreq'[q] = sreq[q] \/ Ends(q, t) \/ Waits(q, t),
           \/ reg'[t] = reg[t] /\ ended'[t] = ended[t]
           \/ reg[t] # NoEntry /\ reg'[t] = NoEntry /\ ended'[t] = ended[t] + 1,
           srv'[t] \in {srv[t], NoEntry}, unsure \subseteq unsure'
    PROVE  TokenInv(t)'
<1>0. TokenInv(t) /\ SesTyped BY DEF SesInv
<1>1. ASSUME NEW q \in SesReqs, Does(q, "create", t)'
      PROVE  /\ Does(q, "create", t)
             /\ sreq'[q].conn = sreq[q].conn /\ sreq'[q].sn = sreq[q].sn
             /\ sreq[q].at = "executed" => sreq'[q].at = "executed"
  <2>1. CASE sreq'[q] = sreq[q] BY <1>1, <2>1 DEF Does, InFlight
  <2>2. CASE Ends(q, t) BY <1>1, <2>2 DEF Ends, Does
  <2>3. CASE Waits(q, t)
    <3>1. InFlight(q) /\ sreq[q] \in Creates \cup Activates \cup Writes
        BY <1>0, <2>3, KindOf DEF Waits, InFlight
    <3> QED BY <1>1, <2>3, <3>1 DEF Waits, Does, InFlight, Creates, Activates, Writes
  <2> QED BY <2>1, <2>2, <2>3
<1>2. ASSUME NEW q \in SesReqs, Does(q, "activate", t)'
      PROVE  /\ Does(q, "activate", t) /\ sreq'[q].conn = sreq[q].conn
             /\ sreq'[q].user = sreq[q].user /\ sreq'[q].sn = sreq[q].sn
             /\ sreq'[q].un = sreq[q].un /\ sreq'[q].dn = sreq[q].dn
             /\ (sreq'[q].good <=> sreq[q].good) /\ (sreq'[q].alone <=> sreq[q].alone)
             /\ sreq'[q].good => sreq'[q].at = "executed"
             /\ sreq'[q].at = "late" => t \in unsure'
  <2>1. CASE sreq'[q] = sreq[q]
      BY <1>0, <1>2, <2>1 DEF Does, InFlight, TokenInv, ActOK
  <2>2. CASE Ends(q, t) BY <1>2, <2>2 DEF Ends, Does
  <2>3. CASE Waits(q, t)
    <3>1. InFlight(q) /\ sreq[q] \in Creates \cup Activates \cup Writes
        BY <1>0, <2>3, KindOf DEF Waits, InFlight
    <3>2. sreq[q].kind = "activate" /\ sreq[q] \in Activates
        BY <1>2, <2>3, <3>1 DEF Waits, Does, Creates, Activates, Writes
    <3>3. ~sreq[q].good
        BY <1>0, <2>3, <3>1, <3>2 DEF TokenInv, ActOK, Waits, Does
    <3>4. /\ sreq'[q].conn = sreq[q].conn
          /\ sreq'[q].user = sreq[q].user /\ sreq'[q].sn = sreq[q].sn
          /\ sreq'[q].un = sreq[q].un /\ sreq'[q].dn = sreq[q].dn
          /\ sreq'[q].good = sreq[q].good /\ sreq'[q].alone = sreq[q].alone
        BY <2>3, <3>2 DEF Waits, Activates
    <3>5. sreq'[q].at = "late" => t \in unsure' BY <2>3, <3>2 DEF Waits, Activates
    <3> QED BY <2>3, <3>1, <3>2, <3>3, <3>4, <3>5 DEF Waits, Does
  <2> QED BY <2>1, <2>2, <2>3
<1>3. ASSUME NEW q \in SesReqs, Proven(q, t)'
      PROVE  Proven(q, t) /\ sreq'[q].dn = sreq[q].dn
  <2>1. CASE sreq'[q] = sreq[q] BY <1>3, <2>1 DEF Proven, Does, InFlight
  <2>2. CASE Ends(q, t) BY <1>3, <2>2 DEF Ends, Proven, Does
  <2>3. CASE Waits(q, t) /\ Does(q, "activate", t)' BY <1>2, <1>3, <2>3 DEF Proven, Does
  <2>4. CASE Waits(q, t) /\ ~Does(q, "activate", t)'
    <3>1. InFlight(q) /\ sreq[q] \in Creates \cup Activates \cup Writes
        BY <1>0, <2>4, KindOf DEF Waits, InFlight
    <3>2. sreq'[q].at # "done" BY <2>4, <3>1 DEF Waits, Creates, Activates, Writes
    <3> QED BY <1>3, <2>4, <3>2 DEF Proven
  <2> QED BY <2>1, <2>2, <2>3, <2>4
<1>4. ASSUME NEW q \in SesReqs, Does(q, "write", t)'
      PROVE  /\ Does(q, "write", t) /\ sreq'[q].conn = sreq[q].conn
             /\ sreq'[q].rec = sreq[q].rec /\ sreq'[q].by = sreq[q].by
             /\ sreq'[q].mixed <=> sreq[q].mixed
             /\ sreq'[q].at \in {"sent", "executed"} => sreq'[q].at = sreq[q].at
  <2>1. CASE sreq'[q] = sreq[q] BY <1>4, <2>1 DEF Does, InFlight
  <2>2. CASE Ends(q, t) BY <1>4, <2>2 DEF Ends, Does
  <2>3. CASE Waits(q, t)
    <3>1. InFlight(q) /\ sreq[q] \in Creates \cup Activates \cup Writes
        BY <1>0, <2>3, KindOf DEF Waits, InFlight
    <3> QED BY <1>4, <2>3, <3>1 DEF Waits, Does, InFlight, Creates, Activates, Writes
  <2> QED BY <2>1, <2>2, <2>3
<1>5. ASSUME NEW q \in SesReqs, Used(q, t)'
      PROVE  /\ sreq'[q].kind = "write" => Used(q, t) /\ sreq[q].kind = "write" /\ sreq'[q].rec = sreq[q].rec
             /\ sreq'[q].kind \in {"create", "activate", "proof"} =>
                  Used(q, t) /\ sreq[q].kind \in {"create", "activate", "proof"}
  <2>1. CASE sreq'[q] = sreq[q] BY <1>5, <2>1 DEF Used
  <2>2. CASE Ends(q, t) BY <1>5, <2>2 DEF Ends, Used, Proven, Does, InFlight
  <2>3. CASE Waits(q, t)
    <3>1. InFlight(q) /\ sreq[q] \in Creates \cup Activates \cup Writes
        BY <1>0, <2>3, KindOf DEF Waits, InFlight
    <3> QED BY <1>5, <2>3, <3>1 DEF Waits, Used, Creates, Activates, Writes
  <2> QED BY <2>1, <2>2, <2>3
<1>6. ASSUME NEW q \in SesReqs, Does(q, "activate", t), sreq[q].good, ~Does(q, "activate", t)'
      PROVE  t \in unsure' \/ reg[t] = NoEntry
  <2>1. CASE sreq'[q] = sreq[q] BY <1>6, <2>1 DEF Does, InFlight
  <2>2. CASE Ends(q, t) BY <1>6, <2>2 DEF Ends
  <2>3. CASE Waits(q, t) BY <1>0, <1>6, <2>3 DEF TokenInv, ActOK, Waits
  <2> QED BY <2>1, <2>2, <2>3
<1>7. /\ srv'[t] # NoEntry => srv[t] # NoEntry /\ srv'[t] = srv[t]
      /\ reg'[t] # NoEntry => reg[t] # NoEntry /\ reg'[t] = reg[t] /\ ended'[t] = ended[t]
    OBVIOUS
<1>8. /\ reg[t] # NoEntry => ended[t] = 0
      /\ ended[t] = 1 => ended'[t] = 1
      /\ reg'[t] = NoEntry => (reg[t] = NoEntry /\ ended'[t] = ended[t]) \/ ended'[t] = 1
    BY <1>0 DEF TokenInv, EntryOK
<1>9. NoncesOK(t)' BY <1>0, <1>1, <1>2, <1>3, <1>7 DEF TokenInv, NoncesOK
<1>10. CreateOK(t)'
  <2> SUFFICES ASSUME NEW r \in SesReqs, Does(r, "create", t)'
               PROVE  /\ reg'[t] = NoEntry /\ ended'[t] = 0
                      /\ srv'[t] # NoEntry =>
                           /\ sreq'[r].at = "executed" /\ srv'[t].user = NoUser
                           /\ srv'[t].chan = sreq'[r].conn /\ srv'[t].nonce = sreq'[r].sn
                      /\ \A q \in SesReqs \ {r} : Used(q, t)' =>
                           /\ sreq'[q].kind \notin {"create", "activate", "proof"}
                           /\ sreq'[q].kind = "write" => sreq'[q].rec = NoUser
      BY DEF CreateOK
  <2>1. reg'[t] = NoEntry /\ ended'[t] = 0 BY <1>0, <1>1 DEF TokenInv, CreateOK
  <2>2. srv'[t] # NoEntry => /\ sreq'[r].at = "executed" /\ srv'[t].user = NoUser
                             /\ srv'[t].chan = sreq'[r].conn /\ srv'[t].nonce = sreq'[r].sn
      BY <1>0, <1>1, <1>7 DEF TokenInv, CreateOK
  <2>3. ASSUME NEW q \in SesReqs \ {r}, Used(q, t)'
        PROVE  /\ sreq'[q].kind \notin {"create", "activate", "proof"}
               /\ sreq'[q].kind = "write" => sreq'[q].rec = NoUser
      BY <1>0, <1>1, <1>5, <2>3 DEF TokenInv, CreateOK
  <2> QED BY <2>1, <2>2, <2>3
<1>11. EntryOK(t)' BY <1>0, <1>2, <1>7, <1>8 DEF TokenInv, EntryOK
<1>12. ActOK(t)'
  <2> SUFFICES ASSUME NEW r \in SesReqs, Does(r, "activate", t)'
               PROVE  /\ reg'[t] # NoEntry => MayActivate(sreq'[r].conn, reg'[t])
                      /\ (sreq'[r].good /\ sreq'[r].alone /\ srv'[t] # NoEntry) => LeftBy(r, t)'
                      /\ \A q \in SesReqs \ {r} : Does(q, "activate", t)' =>
                           /\ ~sreq'[r].alone
                           /\ Rank[sreq'[r].conn] = 0 => t \in unsure'
      BY <1>2 DEF ActOK, MayActivate
  <2>1. reg'[t] # NoEntry => MayActivate(sreq'[r].conn, reg'[t])
      BY <1>0, <1>2, <1>7 DEF TokenInv, ActOK
  <2>2. (sreq'[r].good /\ sreq'[r].alone /\ srv'[t] # NoEntry) => LeftBy(r, t)'
      BY <1>0, <1>2, <1>7 DEF TokenInv, ActOK, LeftBy
  <2>3. ASSUME NEW q \in SesReqs \ {r}, Does(q, "activate", t)'
        PROVE  ~sreq'[r].alone /\ (Rank[sreq'[r].conn] = 0 => t \in unsure')
    <3>1. Does(r, "activate", t) /\ Does(q, "activate", t) BY <1>2, <2>3
    <3>2. ~sreq[r].alone /\ (Rank[sreq[r].conn] = 0 => t \in unsure)
        BY <1>0, <3>1 DEF TokenInv, ActOK
    <3>3. ~sreq'[r].alone BY <1>2, <3>2, Zenon
    <3>4. sreq'[r].conn = sreq[r].conn BY <1>2
    <3> QED BY <3>2, <3>3, <3>4
  <2> QED BY <2>1, <2>2, <2>3
<1>13. ProofOK(t)'
  <2> SUFFICES ASSUME NEW r \in SesReqs, Proven(r, t)'
               PROVE  /\ (srv'[t] # NoEntry /\ reg'[t] # NoEntry /\ reg'[t].dn = sreq'[r].dn) =>
                           reg'[t].un # srv'[t].nonce
                      /\ \A q \in SesReqs \ {r} : Proven(q, t)' => sreq'[q].dn # sreq'[r].dn
                      /\ \A q \in SesReqs :
                           (/\ srv'[t] # NoEntry /\ Does(q, "activate", t)' /\ ~sreq'[q].good
                            /\ Rank[sreq'[q].conn] > 0 /\ sreq'[q].dn = sreq'[r].dn)
                           => sreq'[q].un # srv'[t].nonce
      BY DEF ProofOK
  <2>1. (srv'[t] # NoEntry /\ reg'[t] # NoEntry /\ reg'[t].dn = sreq'[r].dn) =>
                           reg'[t].un # srv'[t].nonce
      BY <1>0, <1>3, <1>7 DEF TokenInv, ProofOK
  <2>2. \A q \in SesReqs \ {r} : Proven(q, t)' => sreq'[q].dn # sreq'[r].dn
      BY <1>0, <1>3 DEF TokenInv, ProofOK
  <2>3. ASSUME NEW q \in SesReqs, srv'[t] # NoEntry, Does(q, "activate", t)', ~sreq'[q].good,
               Rank[sreq'[q].conn] > 0, sreq'[q].dn = sreq'[r].dn
        PROVE  sreq'[q].un # srv'[t].nonce
      BY <1>0, <1>2, <1>3, <1>7, <2>3 DEF TokenInv, ProofOK
  <2> QED BY <2>1, <2>2, <2>3
<1>14. SyncOK(t)'
  <2> SUFFICES ASSUME reg'[t] # NoEntry, srv'[t] # NoEntry, t \notin unsure'
               PROVE  Agreed(t)' \/ \E q \in SesReqs : Pending(q, t)'
      BY DEF SyncOK
  <2>1. Agreed(t) \/ \E q \in SesReqs : Pending(q, t) BY <1>0, <1>7 DEF TokenInv, SyncOK
  <2>2. CASE Agreed(t) BY <1>2, <1>7, <2>2 DEF Agreed
  <2>3. ASSUME NEW q \in SesReqs, Pending(q, t) PROVE Pending(q, t)'
    <3>1. Does(q, "activate", t)' BY <1>6, <1>7, <2>3 DEF Pending
    <3> QED BY <1>2, <1>7, <2>3, <3>1 DEF Pending, LeftBy
  <2> QED BY <2>1, <2>2, <2>3
<1>15. WriteOK(t)'
  <2> SUFFICES ASSUME NEW r \in SesReqs, Does(r, "write", t)', ~sreq'[r].mixed
               PROVE  /\ sreq'[r].at = "sent" => WillBeTrue(r, t)'
                      /\ sreq'[r].at = "executed" => IsTrue(r, t)'
      BY DEF WriteOK
  <2>1. CASE sreq'[r].at = "sent"
    <3>1. WillBeTrue(r, t) BY <1>0, <1>4, <2>1 DEF TokenInv, WriteOK
    <3> QED BY <1>2, <1>4, <1>7, <1>8, <2>1, <3>1 DEF WillBeTrue
  <2>2. CASE sreq'[r].at = "executed"
    <3>1. IsTrue(r, t) BY <1>0, <1>4, <2>2 DEF TokenInv, WriteOK
    <3> QED BY <1>4, <1>8, <2>2, <3>1 DEF IsTrue
  <2> QED BY <2>1, <2>2
<1> QED BY <1>9, <1>10, <1>11, <1>12, <1>13, <1>14, <1>15 DEF TokenInv

\* An unchanged request means what it meant.
LEMMA Unmoved ==
    ASSUME NEW q, NEW t, sreq'[q] = sreq[q]
    PROVE  /\ Used(q, t)' <=> Used(q, t)
           /\ \A k : Does(q, k, t)' <=> Does(q, k, t)
           /\ Proven(q, t)' <=> Proven(q, t)
BY DEF Used, Does, Proven, InFlight

\* A step about one token t keeps the invariant when it keeps what is said about t.
LEMMA OnlyToken ==
    ASSUME SesInv, NEW t \in SesTokens, SesTyped', nonces <= nonces',
           \A q \in SesReqs : sreq'[q] = sreq[q]
                              \/ \A x \in SesTokens \ {t} : ~Used(q, x) /\ ~Used(q, x)',
           \A x \in SesTokens \ {t} :
               /\ reg'[x] = reg[x] \/ (reg'[x] = NoEntry /\ srv[x] = NoEntry)
               /\ srv'[x] = srv[x] /\ ended'[x] = ended[x]
               /\ (x \in unsure') <=> (x \in unsure),
           TokenInv(t)'
    PROVE  SesInv'
<1>1. nonces' \in Nat BY DEF SesTyped
<1>2. ASSUME NEW x \in SesTokens \ {t} PROVE TokenInv(x)' BY <1>1, OtherToken
<1> QED BY <1>2 DEF SesInv

LEMMA CreateSendKeeps == ASSUME SesInv, NEW r \in SesReqs, CreateSend(r) PROVE SesInv'
<1>0. SesTyped /\ sreq[r].at = "start" BY DEF SesInv, CreateSend, Sends
<1>1. PICK c \in Chans, t \in Unused :
         sreq' = [sreq EXCEPT ![r] = [at |-> "sent", kind |-> "create", conn |-> c, token |-> t,
                                      sn |-> 0]]
    BY DEF CreateSend
<1>2. PICK n : n = [at |-> "sent", kind |-> "create", conn |-> c, token |-> t, sn |-> 0] OBVIOUS
<1>3. t \in SesTokens /\ reg[t] = NoEntry /\ srv[t] = NoEntry /\ ended[t] = 0
    BY DEF Unused
<1>4. n \in Creates BY <1>2, <1>3 DEF Creates, Flying
<1>5. sreq' = [sreq EXCEPT ![r] = n] /\ sreq'[r] = n BY <1>0, <1>1, <1>2 DEF SesTyped
<1>6. UNCHANGED <<reg, srv, nonces, ended, unsure>> BY DEF CreateSend
<1>7. SesTyped' BY <1>0, <1>4, <1>5, <1>6 DEF SesTyped, Request
<1>8. ASSUME NEW q \in SesReqs \ {r} PROVE sreq'[q] = sreq[q] BY <1>0, <1>5 DEF SesTyped
<1>9. ASSUME NEW q \in SesReqs \ {r} PROVE ~Used(q, t)' BY <1>8 DEF Unused, Used
<1>10. ASSUME NEW q \in SesReqs, NEW k, Does(q, k, t)' PROVE q = r /\ k = "create"
    BY <1>2, <1>5, <1>9, <1>10 DEF Used, Does, InFlight
<1>11. ASSUME NEW q \in SesReqs PROVE ~Proven(q, t)'
  <2>1. CASE q = r BY <1>2, <1>5, <2>1 DEF Proven, Does
  <2>2. CASE q # r BY <1>9, <2>2 DEF Used, Proven, Does, InFlight
  <2> QED BY <2>1, <2>2
<1>12. TokenInv(t)'
  <2>1. NoncesOK(t)' BY <1>0, <1>2, <1>3, <1>5, <1>6, <1>10, <1>11 DEF NoncesOK, SesTyped
  <2>2. CreateOK(t)' BY <1>3, <1>6, <1>9, <1>10 DEF CreateOK
  <2>3. EntryOK(t)' BY <1>3, <1>6 DEF EntryOK
  <2>4. ActOK(t)' BY <1>10 DEF ActOK
  <2>5. ProofOK(t)' BY <1>11 DEF ProofOK
  <2>6. SyncOK(t)' BY <1>3, <1>6 DEF SyncOK
  <2>7. WriteOK(t)' BY <1>10 DEF WriteOK
  <2> QED BY <2>1, <2>2, <2>3, <2>4, <2>5, <2>6, <2>7 DEF TokenInv
<1>13. \A x \in SesTokens \ {t} : ~Used(r, x) /\ ~Used(r, x)' BY <1>0, <1>2, <1>5 DEF Used
<1> QED BY <1>0, <1>3, <1>6, <1>7, <1>8, <1>12, <1>13, OnlyToken DEF SesTyped

LEMMA CloseSendKeeps == ASSUME SesInv, NEW r \in SesReqs, CloseSend(r) PROVE SesInv'
<1>0. SesTyped /\ sreq[r].at = "start" BY DEF SesInv, CloseSend, Sends
<1>1. PICK c \in Chans, t \in SesTokens :
         sreq' = [sreq EXCEPT ![r] = [at |-> "sent", kind |-> "close", conn |-> c, token |-> t]]
    BY DEF CloseSend
<1>2. PICK n : n = [at |-> "sent", kind |-> "close", conn |-> c, token |-> t] OBVIOUS
<1>3. n \in Closes BY <1>2 DEF Closes, Flying
<1>4. sreq' = [sreq EXCEPT ![r] = n] /\ sreq'[r] = n BY <1>0, <1>1, <1>2 DEF SesTyped
<1>5. UNCHANGED <<reg, srv, nonces, ended, unsure>> BY DEF CloseSend
<1>6. SesTyped' BY <1>0, <1>3, <1>4, <1>5 DEF SesTyped, Request
<1>7. ASSUME NEW q \in SesReqs \ {r} PROVE sreq'[q] = sreq[q] BY <1>0, <1>4 DEF SesTyped
<1>8. Ends(r, t) BY <1>0, <1>2, <1>4 DEF Ends, Does, InFlight
<1>9. TokenInv(t)' BY <1>5, <1>7, <1>8, LessToken
<1>10. \A x \in SesTokens \ {t} : ~Used(r, x) /\ ~Used(r, x)' BY <1>0, <1>2, <1>4 DEF Used
<1> QED BY <1>0, <1>5, <1>6, <1>7, <1>9, <1>10, OnlyToken DEF SesTyped

LEMMA WriteSendKeeps == ASSUME SesInv, NEW r \in SesReqs, WriteSend(r) PROVE SesInv'
<1>0. SesTyped /\ sreq[r].at = "start" BY DEF SesInv, WriteSend, Sends
<1>1. PICK c \in Chans, t \in SesTokens :
         sreq' = [sreq EXCEPT ![r] = [at |-> "sent", kind |-> "write", conn |-> c, token |-> t,
                      rec |-> ClientOf(t, c), by |-> NoUser,
                      mixed |-> Activating(t) # {} \/ t \in unsure]]
    BY DEF WriteSend
<1>a. PICK m \in BOOLEAN : m = (Activating(t) # {} \/ t \in unsure) BY Zenon
<1>2. PICK n : n = [at |-> "sent", kind |-> "write", conn |-> c, token |-> t,
                    rec |-> ClientOf(t, c), by |-> NoUser, mixed |-> m] OBVIOUS
<1>b. TokenInv(t) BY DEF SesInv
<1>3. ClientOf(t, c) \in Names
  <2>1. reg[t] \in Entry \cup {NoEntry} BY <1>0 DEF SesTyped
  <2> QED BY <2>1 DEF ClientOf, Names, Entry
<1>4. n \in Writes BY <1>2, <1>3 DEF Writes, Flying, Names
<1>c. n = [at |-> "sent", kind |-> "write", conn |-> c, token |-> t,
           rec |-> ClientOf(t, c), by |-> NoUser, mixed |-> Activating(t) # {} \/ t \in unsure]
    BY <1>a, <1>2, Zenon
<1>5. sreq' = [sreq EXCEPT ![r] = n] /\ sreq'[r] = n BY <1>0, <1>1, <1>c DEF SesTyped
<1>6. UNCHANGED <<reg, srv, nonces, ended, unsure>> BY DEF WriteSend
<1>7. SesTyped' BY <1>0, <1>4, <1>5, <1>6 DEF SesTyped, Request
<1>8. ASSUME NEW q \in SesReqs \ {r}
      PROVE  /\ sreq'[q] = sreq[q] /\ (Used(q, t)' <=> Used(q, t))
             /\ \A k : Does(q, k, t)' <=> Does(q, k, t)
             /\ Proven(q, t)' <=> Proven(q, t)
  <2>1. sreq'[q] = sreq[q] BY <1>0, <1>5 DEF SesTyped
  <2> QED BY <2>1, Unmoved
<1>9. ~Proven(r, t)' /\ ~Proven(r, t) /\ \A k : ~Does(r, k, t) /\ (Does(r, k, t)' => k = "write")
    BY <1>0, <1>2, <1>5 DEF Proven, Does, InFlight
<1>10. TokenInv(t)'
  <2>1. NoncesOK(t)' BY <1>b, <1>6, <1>8, <1>9 DEF TokenInv, NoncesOK
  <2>2. CreateOK(t)'
    <3>1. reg[t] = NoEntry => sreq'[r].rec = NoUser BY <1>2, <1>5 DEF ClientOf
    <3>2. sreq'[r].kind = "write" BY <1>2, <1>5
    <3> QED BY <1>b, <1>6, <1>8, <1>9, <3>1, <3>2 DEF TokenInv, CreateOK
  <2>3. EntryOK(t)' BY <1>b, <1>6, <1>8, <1>9 DEF TokenInv, EntryOK
  <2>4. ActOK(t)' BY <1>b, <1>6, <1>8, <1>9 DEF TokenInv, ActOK, LeftBy, MayActivate
  <2>5. ProofOK(t)' BY <1>b, <1>6, <1>8, <1>9 DEF TokenInv, ProofOK
  <2>6. SyncOK(t)' BY <1>b, <1>6, <1>8, <1>9 DEF TokenInv, SyncOK, Agreed, Pending, LeftBy
  <2>7. WriteOK(t)'
    <3>1. ASSUME NEW q \in SesReqs \ {r}, Does(q, "write", t)', ~sreq'[q].mixed
          PROVE  /\ sreq'[q].at = "sent" => WillBeTrue(q, t)'
                 /\ sreq'[q].at = "executed" => IsTrue(q, t)'
        BY <1>b, <1>6, <1>8, <1>9, <3>1 DEF TokenInv, WriteOK, WillBeTrue, IsTrue
    <3>2. ASSUME ~sreq'[r].mixed PROVE WillBeTrue(r, t)'
      <4>1. ~m BY <1>2, <1>5, <3>2
      <4>2. Activating(t) = {} /\ t \notin unsure BY <1>a, <4>1, Zenon
      <4>3. \A q \in SesReqs : ~Does(q, "activate", t) BY <4>2, ActivatingDoes
      <4>4. sreq'[r].conn = c /\ sreq'[r].rec = ClientOf(t, c) BY <1>2, <1>5
      <4>5. CASE reg[t] = NoEntry
        <5>1. ended[t] = 1 \/ srv[t] = NoEntry \/ srv[t].user = NoUser
            BY <1>b, <4>5 DEF TokenInv, EntryOK
        <5>2. sreq'[r].rec = NoUser BY <4>4, <4>5 DEF ClientOf
        <5> QED BY <1>6, <1>8, <1>9, <4>3, <5>1, <5>2 DEF WillBeTrue
      <4>6. CASE reg[t] # NoEntry /\ srv[t] # NoEntry
        <5>1. Agreed(t) BY <1>b, <4>2, <4>3, <4>6 DEF TokenInv, SyncOK, Pending
        <5> QED BY <1>6, <1>8, <1>9, <4>3, <4>4, <4>6, <5>1 DEF WillBeTrue, Agreed, ClientOf
      <4>7. CASE srv[t] = NoEntry BY <1>6, <1>8, <1>9, <4>3, <4>7 DEF WillBeTrue
      <4> QED BY <4>5, <4>6, <4>7
    <3>3. sreq'[r].at = "sent" BY <1>2, <1>5
    <3> QED BY <3>1, <3>2, <3>3 DEF WriteOK
  <2> QED BY <2>1, <2>2, <2>3, <2>4, <2>5, <2>6, <2>7 DEF TokenInv
<1>11. \A x \in SesTokens \ {t} : ~Used(r, x) /\ ~Used(r, x)' BY <1>0, <1>2, <1>5 DEF Used
<1> QED BY <1>0, <1>6, <1>7, <1>8, <1>10, <1>11, OnlyToken DEF SesTyped

LEMMA ActivateSendKeeps == ASSUME SesInv, NEW r \in SesReqs, ActivateSend(r) PROVE SesInv'
<1>0. SesTyped /\ sreq[r].at = "start" BY DEF SesInv, ActivateSend, Sends
<1>1. PICK c \in Chans, t \in SesTokens, u \in NextUsers :
         /\ reg[t] # NoEntry
         /\ MayActivate(c, reg[t])
         /\ sreq' = [q \in SesReqs |->
              IF q = r
              THEN [at |-> "sent", kind |-> "activate", conn |-> c, token |-> t, user |-> u,
                    dn |-> reg[t].dn, un |-> reg[t].un, good |-> FALSE, sn |-> 0,
                    alone |-> Activating(t) = {}]
              ELSE IF sreq[q].at = "sent" /\ sreq[q].kind = "write" /\ sreq[q].token = t
              THEN [sreq[q] EXCEPT !.mixed = TRUE]
              ELSE IF q \in Activating(t) THEN [sreq[q] EXCEPT !.alone = FALSE] ELSE sreq[q]]
         /\ unsure' = IF Activating(t) # {} /\ Rank[c] = 0 THEN unsure \cup {t} ELSE unsure
    BY DEF ActivateSend
<1>2. u \in SesUsers BY DEF NextUsers
<1>3. TokenInv(t) /\ reg[t] \in Entry BY <1>0, <1>1 DEF SesInv, SesTyped
<1>4. UNCHANGED <<reg, srv, nonces, ended>> BY DEF ActivateSend
<1>5. PICK b \in BOOLEAN : b = (Activating(t) = {}) BY Zenon
<1>6. PICK n : n = [at |-> "sent", kind |-> "activate", conn |-> c, token |-> t, user |-> u,
                    dn |-> reg[t].dn, un |-> reg[t].un, good |-> FALSE, sn |-> 0, alone |-> b]
    OBVIOUS
<1>7. n \in Activates BY <1>2, <1>3, <1>6 DEF Activates, Flying, Entry
<1>8. sreq'[r] = n
  <2>1. n = [at |-> "sent", kind |-> "activate", conn |-> c, token |-> t, user |-> u,
             dn |-> reg[t].dn, un |-> reg[t].un, good |-> FALSE, sn |-> 0,
             alone |-> Activating(t) = {}]
      BY <1>5, <1>6, Zenon
  <2> QED BY <1>1, <2>1
<1>9. ASSUME NEW q \in SesReqs \ {r}
      PROVE  \/ /\ sreq[q].at = "sent" /\ sreq[q].kind = "write" /\ sreq[q].token = t
                /\ sreq[q] \in Writes /\ sreq'[q] = [sreq[q] EXCEPT !.mixed = TRUE]
             \/ /\ Does(q, "activate", t) /\ sreq[q] \in Activates
                /\ sreq'[q] = [sreq[q] EXCEPT !.alone = FALSE]
             \/ /\ sreq'[q] = sreq[q] /\ ~Does(q, "activate", t)
                /\ ~(sreq[q].at = "sent" /\ sreq[q].kind = "write" /\ sreq[q].token = t)
  <2>1. CASE sreq[q].at = "sent" /\ sreq[q].kind = "write" /\ sreq[q].token = t
      BY <1>0, <1>1, <2>1, KindOf DEF InFlight
  <2>2. CASE Does(q, "activate", t)
    <3>1. q \in Activating(t) BY <2>2, ActivatingDoes
    <3>2. sreq[q].kind = "activate" /\ sreq[q] \in Activates BY <1>0, <2>2, KindOf DEF Does
    <3> QED BY <1>1, <2>2, <3>1, <3>2
  <2>3. CASE /\ ~(sreq[q].at = "sent" /\ sreq[q].kind = "write" /\ sreq[q].token = t)
             /\ ~Does(q, "activate", t)
    <3>1. q \notin Activating(t) BY <2>3, ActivatingDoes
    <3> QED BY <1>1, <2>3, <3>1
  <2> QED BY <2>1, <2>2, <2>3
<1>10. ASSUME NEW q \in SesReqs \ {r}
       PROVE  /\ sreq'[q] \in Request
              /\ sreq'[q].at = sreq[q].at
              /\ Used(q, t)' <=> Used(q, t)
              /\ \A k : Does(q, k, t)' <=> Does(q, k, t)
              /\ Proven(q, t)' <=> Proven(q, t)
              /\ Proven(q, t) => sreq'[q].dn = sreq[q].dn
              /\ Used(q, t) => sreq'[q].kind = sreq[q].kind
  <2>1. CASE sreq[q] \in Writes /\ sreq'[q] = [sreq[q] EXCEPT !.mixed = TRUE]
    <3>1. sreq'[q] \in Writes /\ sreq'[q].at = sreq[q].at /\ sreq'[q].token = sreq[q].token
          /\ sreq'[q].kind = "write" /\ sreq[q].kind = "write"
        BY <2>1 DEF Writes
    <3> QED BY <3>1 DEF Request, Used, Does, Proven, InFlight
  <2>2. CASE sreq[q] \in Activates /\ sreq'[q] = [sreq[q] EXCEPT !.alone = FALSE]
    <3>1. sreq'[q] \in Activates /\ sreq'[q].at = sreq[q].at /\ sreq'[q].token = sreq[q].token
          /\ sreq'[q].kind = "activate" /\ sreq[q].kind = "activate"
          /\ sreq'[q].dn = sreq[q].dn /\ sreq'[q].good = sreq[q].good /\ sreq'[q].conn = sreq[q].conn
        BY <2>2 DEF Activates
    <3> QED BY <3>1 DEF Request, Used, Does, Proven, InFlight
  <2>3. CASE sreq'[q] = sreq[q]
    <3>1. sreq'[q] \in Request BY <1>0, <2>3 DEF SesTyped
    <3> QED BY <2>3, <3>1, Unmoved
  <2> QED BY <1>9, <2>1, <2>2, <2>3
<1>11. ASSUME NEW q \in SesReqs \ {r}, Does(q, "activate", t)
       PROVE  /\ sreq'[q].conn = sreq[q].conn /\ sreq'[q].user = sreq[q].user
              /\ sreq'[q].sn = sreq[q].sn /\ sreq'[q].un = sreq[q].un /\ sreq'[q].dn = sreq[q].dn
              /\ sreq'[q].good = sreq[q].good /\ ~sreq'[q].alone
    BY <1>9, <1>11 DEF Does, Activates
<1>12. ~Proven(r, t)' /\ ~Proven(r, t) /\ Does(r, "activate", t)'
       /\ \A k : ~Does(r, k, t) /\ (Does(r, k, t)' => k = "activate")
    BY <1>0, <1>6, <1>8 DEF Proven, Does, InFlight
<1>13. /\ sreq'[r].conn = c /\ sreq'[r].dn = reg[t].dn /\ sreq'[r].un = reg[t].un
       /\ sreq'[r].sn = 0 /\ ~sreq'[r].good /\ sreq'[r].at = "sent"
       /\ (sreq'[r].alone <=> b)
    BY <1>6, <1>8
<1>14. SesTyped'
  <2>1. sreq' \in [SesReqs -> Request] BY <1>1, <1>7, <1>8, <1>10 DEF Request
  <2> QED BY <1>0, <1>4, <2>1 DEF SesTyped
<1>15. ASSUME NEW q \in SesReqs, Does(q, "create", t) PROVE FALSE
    BY <1>1, <1>3, <1>15 DEF TokenInv, CreateOK
<1>16. unsure \subseteq unsure' /\ \A x \in SesTokens \ {t} : x \in unsure' <=> x \in unsure
    BY <1>1
<1>17. TokenInv(t)'
  <2>1. NoncesOK(t)'
    <3>1. sreq'[r].un <= nonces /\ sreq'[r].dn <= nonces /\ sreq'[r].sn <= nonces
        BY <1>0, <1>1, <1>3, <1>13 DEF TokenInv, NoncesOK, SesTyped
    <3> QED BY <1>3, <1>4, <1>10, <1>11, <1>12, <1>15, <3>1 DEF TokenInv, NoncesOK
  <2>2. CreateOK(t)' BY <1>10, <1>12, <1>15 DEF CreateOK
  <2>3. EntryOK(t)' BY <1>1, <1>3, <1>4 DEF TokenInv, EntryOK
  <2>4. ActOK(t)'
    <3>1. ASSUME NEW q \in SesReqs \ {r}, Does(q, "activate", t)
          PROVE  ~sreq'[r].alone /\ (Rank[c] = 0 => t \in unsure')
      <4>1. Activating(t) # {} BY <3>1, ActivatingDoes
      <4>2. ~b BY <1>5, <4>1, Zenon
      <4> QED BY <1>1, <1>13, <4>1, <4>2
    <3>2. ASSUME NEW q \in SesReqs \ {r}, Does(q, "activate", t), Rank[sreq[q].conn] = 0
          PROVE  t \in unsure'
      <4>1. MayActivate(sreq[q].conn, reg[t]) BY <1>1, <1>3, <3>2 DEF TokenInv, ActOK
      <4>2. reg[t].rank \in 0..2 /\ Rank[c] \in 0..2 BY <1>3 DEF Entry
      <4>3. Rank[c] = 0 BY <1>1, <3>2, <4>1, <4>2 DEF MayActivate
      <4> QED BY <3>1, <3>2, <4>3
    <3>3. ASSUME NEW q \in SesReqs, Does(q, "activate", t)'
          PROVE  /\ reg'[t] # NoEntry => MayActivate(sreq[q].conn, reg[t])'
                 /\ sreq'[q].good => sreq'[q].at = "executed"
                 /\ sreq'[q].at = "late" => t \in unsure'
                 /\ (sreq'[q].good /\ sreq'[q].alone /\ srv'[t] # NoEntry) => LeftBy(q, t)'
                 /\ \A p \in SesReqs \ {q} : Does(p, "activate", t)' =>
                      /\ ~sreq'[q].alone
                      /\ Rank[sreq'[q].conn] = 0 => t \in unsure'
      <4>1. CASE q = r
        <5>1. reg'[t] # NoEntry => MayActivate(sreq[q].conn, reg[t])'
            BY <1>1, <1>4, <1>13, <4>1 DEF MayActivate
        <5> QED BY <1>10, <1>13, <3>1, <4>1, <5>1
      <4>2. CASE q # r
        <5>1. Does(q, "activate", t) BY <1>10, <3>3, <4>2
        <5>2. /\ MayActivate(sreq[q].conn, reg[t])
              /\ sreq[q].good => sreq[q].at = "executed"
              /\ sreq[q].at = "late" => t \in unsure
            BY <1>1, <1>3, <5>1 DEF TokenInv, ActOK
        <5>3. reg'[t] # NoEntry => MayActivate(sreq[q].conn, reg[t])'
            BY <1>4, <1>11, <4>2, <5>1, <5>2 DEF MayActivate
        <5>4. sreq'[q].good => sreq'[q].at = "executed"
            BY <1>10, <1>11, <4>2, <5>1, <5>2
        <5>5. sreq'[q].at = "late" => t \in unsure' BY <1>10, <1>16, <4>2, <5>2
        <5>6. ~sreq'[q].alone BY <1>11, <4>2, <5>1
        <5>7. Rank[sreq'[q].conn] = 0 => t \in unsure' BY <1>11, <3>2, <4>2, <5>1
        <5> QED BY <5>3, <5>4, <5>5, <5>6, <5>7
      <4> QED BY <4>1, <4>2
    <3> QED BY <3>3 DEF ActOK
  <2>5. ProofOK(t)'
    <3> SUFFICES ASSUME NEW p \in SesReqs, Proven(p, t)'
                 PROVE  /\ (srv'[t] # NoEntry /\ reg'[t] # NoEntry /\ reg'[t].dn = sreq'[p].dn) =>
                             reg'[t].un # srv'[t].nonce
                        /\ \A q \in SesReqs \ {p} : Proven(q, t)' => sreq'[q].dn # sreq'[p].dn
                        /\ \A q \in SesReqs :
                             (/\ srv'[t] # NoEntry /\ Does(q, "activate", t)' /\ ~sreq'[q].good
                              /\ Rank[sreq'[q].conn] > 0 /\ sreq'[q].dn = sreq'[p].dn)
                             => sreq'[q].un # srv'[t].nonce
        BY DEF ProofOK
    <3>1. p # r /\ Proven(p, t) /\ sreq'[p].dn = sreq[p].dn BY <1>10, <1>12
    <3>2. (srv[t] # NoEntry /\ reg[t].dn = sreq[p].dn) => reg[t].un # srv[t].nonce
        BY <1>1, <1>3, <3>1 DEF TokenInv, ProofOK
    <3>3. \A q \in SesReqs \ {p} : Proven(q, t)' => sreq'[q].dn # sreq'[p].dn
        BY <1>3, <1>10, <1>12, <3>1 DEF TokenInv, ProofOK
    <3>4. ASSUME NEW q \in SesReqs, srv'[t] # NoEntry, Does(q, "activate", t)', ~sreq'[q].good,
                 Rank[sreq'[q].conn] > 0, sreq'[q].dn = sreq'[p].dn
          PROVE  sreq'[q].un # srv'[t].nonce
      <4>1. CASE q = r BY <1>4, <1>13, <3>1, <3>2, <3>4, <4>1
      <4>2. CASE q # r
        <5>1. Does(q, "activate", t) BY <1>10, <3>4, <4>2
        <5>2. ~sreq[q].good BY <1>11, <3>4, <4>2, <5>1
        <5>3. Rank[sreq[q].conn] > 0 /\ sreq[q].dn = sreq[p].dn /\ sreq'[q].un = sreq[q].un
            BY <1>11, <3>1, <3>4, <4>2, <5>1
        <5>4. srv[t] # NoEntry BY <1>4, <3>4
        <5>5. sreq[q].un # srv[t].nonce
            BY <1>3, <3>1, <5>1, <5>2, <5>3, <5>4 DEF TokenInv, ProofOK
        <5> QED BY <1>4, <5>3, <5>5
      <4> QED BY <4>1, <4>2
    <3> QED BY <1>4, <3>1, <3>2, <3>3, <3>4
  <2>6. SyncOK(t)'
    <3> SUFFICES ASSUME srv[t] # NoEntry, t \notin unsure
                 PROVE  Agreed(t)' \/ \E q \in SesReqs : Pending(q, t)'
        BY <1>1, <1>4, <1>16 DEF SyncOK
    <3>1. Agreed(t) \/ \E q \in SesReqs : Pending(q, t) BY <1>1, <1>3 DEF TokenInv, SyncOK
    <3>2. CASE Agreed(t)
      <4>1. ASSUME NEW q \in SesReqs, Does(q, "activate", t)' PROVE ~sreq'[q].good
        <5>1. CASE q = r BY <1>13, <5>1
        <5>2. CASE q # r BY <1>10, <1>11, <3>2, <4>1, <5>2 DEF Agreed
        <5> QED BY <5>1, <5>2
      <4> QED BY <1>4, <3>2, <4>1 DEF Agreed
    <3>3. ASSUME NEW q \in SesReqs, Pending(q, t) PROVE Pending(q, t)'
      <4>1. q # r /\ Does(q, "activate", t) BY <1>12, <3>3 DEF Pending
      <4>2. Does(q, "activate", t)' /\ sreq'[q].good /\ LeftBy(q, t)'
          BY <1>4, <1>10, <1>11, <3>3, <4>1 DEF Pending, LeftBy
      <4>3. ASSUME NEW p \in SesReqs \ {q}, Does(p, "activate", t)'
            PROVE  ~sreq'[p].good /\ sreq'[p].un # srv'[t].nonce
        <5>1. CASE p = r BY <1>4, <1>13, <3>3, <5>1 DEF Pending
        <5>2. CASE p # r BY <1>4, <1>10, <1>11, <3>3, <4>3, <5>2 DEF Pending
        <5> QED BY <5>1, <5>2
      <4> QED BY <1>4, <3>3, <4>2, <4>3 DEF Pending
    <3> QED BY <3>1, <3>2, <3>3
  <2>7. WriteOK(t)'
    <3> SUFFICES ASSUME NEW q \in SesReqs, Does(q, "write", t)', ~sreq'[q].mixed
                 PROVE  sreq'[q].at # "sent" /\ (sreq'[q].at = "executed" => IsTrue(q, t)')
        BY DEF WriteOK
    <3>1. q # r /\ Does(q, "write", t) BY <1>10, <1>12
    <3>2. sreq'[q] = sreq[q] /\ sreq[q].at # "sent" BY <1>9, <3>1 DEF Does, Writes
    <3> QED BY <1>3, <1>4, <3>1, <3>2 DEF TokenInv, WriteOK, IsTrue
  <2> QED BY <2>1, <2>2, <2>3, <2>4, <2>5, <2>6, <2>7 DEF TokenInv
<1>18. ASSUME NEW q \in SesReqs
       PROVE  sreq'[q] = sreq[q] \/ \A x \in SesTokens \ {t} : ~Used(q, x) /\ ~Used(q, x)'
  <2>1. CASE q = r BY <1>0, <1>6, <1>8, <2>1 DEF Used
  <2>2. CASE q # r BY <1>9, <2>2 DEF Used, Does, Writes, Activates
  <2> QED BY <2>1, <2>2
<1> QED BY <1>0, <1>4, <1>14, <1>16, <1>17, <1>18, OnlyToken DEF SesTyped

LEMMA FinishedIs ==
    ASSUME NEW x \in Creates \cup Activates \cup Writes \cup Closes
    PROVE  /\ Finished(x) \in Proofs \cup Others /\ Finished(x) \in Request
           /\ Finished(x).at = "done" /\ Finished(x).token = x.token
           /\ \/ Finished(x).kind = "other"
              \/ /\ x \in Activates /\ x.good /\ Rank[x.conn] > 0
                 /\ Finished(x).kind = "proof" /\ Finished(x).dn = x.dn
<1>1. CASE x \in Activates /\ x.good /\ Rank[x.conn] > 0
    BY <1>1 DEF Finished, Activates, Proofs, Request
<1>2. CASE ~(x \in Activates /\ x.good /\ Rank[x.conn] > 0)
  <2>1. ~(x.kind = "activate" /\ x.good /\ Rank[x.conn] > 0)
      BY <1>2 DEF Creates, Activates, Writes, Closes
  <2>2. x.token \in SesTokens BY DEF Creates, Activates, Writes, Closes
  <2>3. Finished(x) = [at |-> "done", kind |-> "other", token |-> x.token]
      BY <2>1 DEF Finished
  <2> QED BY <2>2, <2>3 DEF Others, Request
<1> QED BY <1>1, <1>2

\* The whole step, when one request goes on without doing anything about its session.
LEMMA LessStep ==
    ASSUME SesInv, NEW r \in SesReqs, NEW t \in SesTokens, Used(r, t), SesTyped',
           nonces' = nonces, \A q \in SesReqs \ {r} : sreq'[q] = sreq[q],
           Ends(r, t) \/ Waits(r, t), sreq'[r].at # "start", sreq'[r].token = t,
           \/ reg'[t] = reg[t] /\ ended'[t] = ended[t]
           \/ reg[t] # NoEntry /\ reg'[t] = NoEntry /\ ended'[t] = ended[t] + 1,
           srv'[t] \in {srv[t], NoEntry}, unsure' \in {unsure, unsure \cup {t}},
           \A x \in SesTokens \ {t} : reg'[x] = reg[x] /\ srv'[x] = srv[x] /\ ended'[x] = ended[x]
    PROVE  SesInv'
<1>1. TokenInv(t)' BY LessToken
<1>2. \A x \in SesTokens \ {t} : ~Used(r, x) /\ ~Used(r, x)' BY DEF Used
<1>3. nonces <= nonces' BY DEF SesInv, SesTyped
<1> QED BY <1>1, <1>2, <1>3, OnlyToken

\* A request that is in flight, and what it is about.
LEMMA FlyingRequest ==
    ASSUME SesTyped, NEW r \in SesReqs, InFlight(r)
    PROVE  /\ sreq[r] \in Creates \cup Activates \cup Writes \cup Closes
           /\ sreq[r].token \in SesTokens /\ sreq[r].conn \in Chans
           /\ Used(r, sreq[r].token) /\ Does(r, sreq[r].kind, sreq[r].token)
<1>1. sreq[r] \in Creates \cup Activates \cup Writes \cup Closes BY KindOf
<1> QED BY <1>1 DEF Creates, Activates, Writes, Closes, Used, Does, InFlight

\* A request that is over without having had an effect that the registry does not know.
LEMMA FinishedEnds ==
    ASSUME SesTyped, NEW r \in SesReqs, InFlight(r), sreq'[r] = Finished(sreq[r]),
           (sreq[r].kind = "activate" /\ sreq[r].good)
               => sreq[r].token \in unsure' \/ reg[sreq[r].token] = NoEntry
    PROVE  Ends(r, sreq[r].token) /\ sreq'[r].at # "start" /\ sreq'[r].token = sreq[r].token
<1>1. sreq[r] \in Creates \cup Activates \cup Writes \cup Closes BY FlyingRequest
<1>2. \/ sreq'[r].kind = "other"
      \/ /\ sreq[r] \in Activates /\ sreq[r].good /\ Rank[sreq[r].conn] > 0
         /\ sreq'[r].kind = "proof" /\ sreq'[r].dn = sreq[r].dn
    BY <1>1, FinishedIs
<1>3. sreq'[r].at = "done" /\ sreq'[r].token = sreq[r].token BY <1>1, FinishedIs
<1>4. Does(r, "activate", sreq[r].token) => sreq[r].kind = "activate" BY DEF Does
<1>5. sreq[r] \in Activates => Does(r, "activate", sreq[r].token) BY DEF Does, Activates
<1> QED BY <1>2, <1>3, <1>4, <1>5 DEF Ends, Proven

LEMMA OverKeeps ==
    ASSUME SesInv, NEW r \in SesReqs, WriteAnswer(r) \/ CloseAnswer(r) PROVE SesInv'
<1> DEFINE t == sreq[r].token
<1>0. SesTyped /\ InFlight(r) BY DEF SesInv, WriteAnswer, CloseAnswer, InFlight
<1>1. sreq' = [sreq EXCEPT ![r] = Finished(sreq[r])] BY <1>0 DEF WriteAnswer, CloseAnswer, EndOf, SesTyped
<1>2. sreq'[r] = Finished(sreq[r]) /\ \A q \in SesReqs \ {r} : sreq'[q] = sreq[q]
    BY <1>0, <1>1 DEF SesTyped
<1>3. Ends(r, t) /\ sreq'[r].at # "start" /\ sreq'[r].token = t
    BY <1>0, <1>2, FinishedEnds DEF WriteAnswer, CloseAnswer
<1>4. t \in SesTokens /\ Used(r, t) BY <1>0, FlyingRequest
<1>5. sreq' \in [SesReqs -> Request]
  <2>1. Finished(sreq[r]) \in Request BY <1>0, FlyingRequest, FinishedIs
  <2> QED BY <1>0, <1>1, <2>1 DEF SesTyped
<1>6. UNCHANGED <<srv, nonces, unsure>> BY DEF WriteAnswer, CloseAnswer
<1>7. \/ UNCHANGED <<reg, ended>>
      \/ /\ reg[t] # NoEntry /\ reg' = [reg EXCEPT ![t] = NoEntry]
         /\ ended' = [ended EXCEPT ![t] = @ + 1]
    BY DEF WriteAnswer, CloseAnswer, RemoveOwned
<1>8. SesTyped' BY <1>0, <1>4, <1>5, <1>6, <1>7 DEF SesTyped
<1>9. \A x \in SesTokens \ {t} : reg'[x] = reg[x] /\ srv'[x] = srv[x] /\ ended'[x] = ended[x]
    BY <1>0, <1>6, <1>7 DEF SesTyped
<1>10. \/ reg'[t] = reg[t] /\ ended'[t] = ended[t]
       \/ reg[t] # NoEntry /\ reg'[t] = NoEntry /\ ended'[t] = ended[t] + 1
    BY <1>0, <1>4, <1>7 DEF SesTyped
<1> HIDE DEF t
<1> QED BY <1>2, <1>3, <1>4, <1>6, <1>8, <1>9, <1>10, LessStep

LEMMA TimeoutKeeps == ASSUME SesInv, NEW r \in SesReqs, SesTimeout(r) PROVE SesInv'
<1> DEFINE t == sreq[r].token
           n == IF sreq[r].at = "sent" THEN [sreq[r] EXCEPT !.at = "late"] ELSE Finished(sreq[r])
<1>0. SesTyped /\ InFlight(r) BY DEF SesInv, SesTimeout, InFlight
<1>a. sreq[r] \in Creates \cup Activates \cup Writes \cup Closes BY <1>0, FlyingRequest
<1>1. sreq' = [sreq EXCEPT ![r] = n] BY <1>0 DEF SesTimeout, SesTyped
<1>2. sreq'[r] = n /\ \A q \in SesReqs \ {r} : sreq'[q] = sreq[q] BY <1>0, <1>1 DEF SesTyped
<1>4. t \in SesTokens /\ Used(r, t) BY <1>0, FlyingRequest
<1>b. unsure' = IF sreq[r].kind = "activate" THEN unsure \cup {t} ELSE unsure
    BY DEF SesTimeout
<1>3. (Ends(r, t) \/ Waits(r, t)) /\ sreq'[r].at # "start" /\ sreq'[r].token = t /\ n \in Request
  <2>1. CASE sreq[r].at = "sent"
    <3>1. sreq'[r] = [sreq[r] EXCEPT !.at = "late"] BY <1>2, <2>1
    <3>2. /\ sreq'[r].at = "late" /\ sreq'[r].token = t /\ sreq'[r].kind = sreq[r].kind
          /\ sreq'[r] \in Request
        BY <1>a, <3>1 DEF Creates, Activates, Writes, Closes, Request, Flying
    <3>3. sreq[r].kind \in {"create", "activate", "write", "close"}
        BY <1>a DEF Creates, Activates, Writes, Closes
    <3>4. CASE sreq[r].kind = "close" BY <1>2, <3>2, <3>4 DEF Ends, Does
    <3>5. CASE sreq[r].kind # "close" BY <1>2, <1>b, <2>1, <3>1, <3>2, <3>3, <3>5 DEF Waits
    <3> QED BY <3>4, <3>5
  <2>2. CASE sreq[r].at # "sent"
    <3>1. sreq'[r] = Finished(sreq[r]) BY <1>2, <2>2
    <3>2. Finished(sreq[r]) \in Request BY <1>a, FinishedIs
    <3>3. sreq[r].kind = "activate" => t \in unsure' BY <1>b
    <3> QED BY <1>0, <2>2, <3>1, <3>2, <3>3, FinishedEnds
  <2> QED BY <2>1, <2>2
<1>5. sreq' \in [SesReqs -> Request] BY <1>0, <1>1, <1>3 DEF SesTyped
<1>6. UNCHANGED <<srv, nonces>> BY DEF SesTimeout
<1>7. \/ UNCHANGED <<reg, ended>>
      \/ /\ reg[t] # NoEntry /\ reg' = [reg EXCEPT ![t] = NoEntry]
         /\ ended' = [ended EXCEPT ![t] = @ + 1]
    BY DEF SesTimeout, RemoveOwned
<1>8. SesTyped' BY <1>0, <1>4, <1>5, <1>6, <1>7 DEF SesTyped
<1>9. \A x \in SesTokens \ {t} : reg'[x] = reg[x] /\ srv'[x] = srv[x] /\ ended'[x] = ended[x]
    BY <1>0, <1>6, <1>7 DEF SesTyped
<1>10. \/ reg'[t] = reg[t] /\ ended'[t] = ended[t]
       \/ reg[t] # NoEntry /\ reg'[t] = NoEntry /\ ended'[t] = ended[t] + 1
    BY <1>0, <1>4, <1>7 DEF SesTyped
<1>11. unsure' \in {unsure, unsure \cup {t}} BY <1>b
<1> HIDE DEF t
<1> QED BY <1>2, <1>3, <1>4, <1>6, <1>8, <1>9, <1>10, <1>11, LessStep

LEMMA ExpiresKeeps == ASSUME SesInv, NEW t \in SesTokens, ServerExpires(t) PROVE SesInv'
<1>0. SesTyped BY DEF SesInv
<1>1. UNCHANGED <<reg, sreq, nonces, ended, unsure>> /\ srv' = [srv EXCEPT ![t] = NoEntry]
    BY DEF ServerExpires
<1>2. SesTyped' BY <1>0, <1>1 DEF SesTyped
<1>3. srv'[t] = NoEntry /\ \A x \in SesTokens \ {t} : srv'[x] = srv[x] BY <1>0, <1>1 DEF SesTyped
<1>4. TokenInv(t)' BY <1>1, <1>3, LessToken
<1> QED BY <1>0, <1>1, <1>2, <1>3, <1>4, OnlyToken DEF SesTyped

\* The server did not accept an activation.
LEMMA RefusedKeeps ==
    ASSUME SesInv, NEW r \in SesReqs, sreq[r].at \in {"sent", "late"}, sreq[r].kind = "activate",
           sreq' = [sreq EXCEPT ![r] = AnswerOf(@)], UNCHANGED <<reg, srv, nonces, ended, unsure>>
    PROVE  SesInv'
<1> DEFINE t == sreq[r].token
<1>0. SesTyped /\ InFlight(r) BY DEF SesInv, InFlight
<1>a. sreq[r] \in Activates /\ t \in SesTokens /\ Used(r, t) /\ Does(r, "activate", t)
    BY <1>0, KindOf, FlyingRequest
<1>b. ~sreq[r].good BY <1>a DEF SesInv, TokenInv, ActOK
<1>2. sreq'[r] = AnswerOf(sreq[r]) /\ \A q \in SesReqs \ {r} : sreq'[q] = sreq[q]
    BY <1>0 DEF SesTyped
<1>3. (Ends(r, t) \/ Waits(r, t)) /\ sreq'[r].at # "start" /\ sreq'[r].token = t
      /\ AnswerOf(sreq[r]) \in Request
  <2>1. CASE sreq[r].at = "sent"
    <3>1. sreq'[r] = [sreq[r] EXCEPT !.at = "executed"] BY <1>2, <2>1 DEF AnswerOf
    <3>2. sreq'[r].at = "executed" /\ sreq'[r].token = t /\ sreq'[r] \in Activates
        BY <1>a, <3>1 DEF Activates, Flying
    <3> QED BY <1>2, <2>1, <3>1, <3>2 DEF Waits, Request
  <2>2. CASE sreq[r].at = "late"
    <3>1. sreq'[r] = Finished(sreq[r]) BY <1>2, <2>2 DEF AnswerOf
    <3>2. Finished(sreq[r]) \in Request BY <1>a, FinishedIs
    <3> QED BY <1>0, <1>2, <1>b, <3>1, <3>2, FinishedEnds
  <2> QED BY <2>1, <2>2
<1>8. SesTyped' BY <1>0, <1>3 DEF SesTyped
<1> HIDE DEF t
<1> QED BY <1>2, <1>3, <1>a, <1>8, LessStep

LEMMA ExecuteCloseKeeps ==
    ASSUME SesInv, NEW r \in SesReqs, sreq[r].at \in {"sent", "late"}, sreq[r].kind = "close",
           srv' = [srv EXCEPT ![sreq[r].token] =
                      IF Bound(sreq[r].token, sreq[r].conn) THEN NoEntry ELSE @],
           sreq' = [sreq EXCEPT ![r] = AnswerOf(@)], UNCHANGED <<reg, nonces, ended, unsure>>
    PROVE  SesInv'
<1> DEFINE t == sreq[r].token
<1>0. SesTyped /\ InFlight(r) BY DEF SesInv, InFlight
<1>a. sreq[r] \in Closes /\ t \in SesTokens /\ Used(r, t) BY <1>0, KindOf, FlyingRequest
<1>2. sreq'[r] = AnswerOf(sreq[r]) /\ \A q \in SesReqs \ {r} : sreq'[q] = sreq[q]
    BY <1>0 DEF SesTyped
<1>3. Ends(r, t) /\ sreq'[r].at # "start" /\ sreq'[r].token = t /\ AnswerOf(sreq[r]) \in Request
  <2>1. CASE sreq[r].at = "sent"
    <3>1. sreq'[r] = [sreq[r] EXCEPT !.at = "executed"] BY <1>2, <2>1 DEF AnswerOf
    <3>2. sreq'[r].at = "executed" /\ sreq'[r].token = t /\ sreq'[r] \in Closes
          /\ sreq'[r].kind = "close"
        BY <1>a, <3>1 DEF Closes, Flying
    <3> QED BY <1>2, <3>2 DEF Ends, Does, Request
  <2>2. CASE sreq[r].at = "late"
    <3>1. sreq'[r] = Finished(sreq[r]) BY <1>2, <2>2 DEF AnswerOf
    <3>2. Finished(sreq[r]) \in Request BY <1>a, FinishedIs
    <3> QED BY <1>0, <1>2, <3>1, <3>2, FinishedEnds
  <2> QED BY <2>1, <2>2
<1>4. srv'[t] \in {srv[t], NoEntry} /\ \A x \in SesTokens \ {t} : srv'[x] = srv[x]
    BY <1>0, <1>a DEF SesTyped
<1>5. srv' \in [SesTokens -> Session \cup {NoEntry}] BY <1>0, <1>a DEF SesTyped
<1>8. SesTyped' BY <1>0, <1>3, <1>5 DEF SesTyped
<1> HIDE DEF t
<1> QED BY <1>2, <1>3, <1>4, <1>a, <1>8, LessStep

LEMMA ExecuteWriteKeeps ==
    ASSUME SesInv, NEW r \in SesReqs, sreq[r].at \in {"sent", "late"}, sreq[r].kind = "write",
           sreq' = [sreq EXCEPT ![r] = AnswerOf([@ EXCEPT !.by =
                      IF srv[sreq[r].token] = NoEntry THEN "ended"
                      ELSE IF Bound(sreq[r].token, sreq[r].conn) THEN srv[sreq[r].token].user
                      ELSE "elsewhere"])],
           UNCHANGED <<reg, srv, nonces, ended, unsure>>
    PROVE  SesInv'
<1>0. SesTyped /\ InFlight(r) BY DEF SesInv, InFlight
<1>1. PICK t : t = sreq[r].token OBVIOUS
<1>a. sreq[r] \in Writes /\ t \in SesTokens /\ Used(r, t) /\ Does(r, "write", t)
    BY <1>0, <1>1, KindOf, FlyingRequest
<1>b. TokenInv(t) BY <1>a DEF SesInv
<1>2. PICK by : by = IF srv[t] = NoEntry THEN "ended"
                     ELSE IF Bound(t, sreq[r].conn) THEN srv[t].user ELSE "elsewhere"
    OBVIOUS
<1>3. by \in Names \cup {"ended", "elsewhere"}
  <2>1. srv[t] \in Session \cup {NoEntry} BY <1>0, <1>a DEF SesTyped
  <2> QED BY <1>2, <2>1 DEF Session
<1>4. PICK x : x = [sreq[r] EXCEPT !.by = by] OBVIOUS
<1>5. x \in Writes /\ x.at = sreq[r].at /\ x.token = t /\ x.conn = sreq[r].conn
      /\ x.rec = sreq[r].rec /\ x.by = by /\ x.mixed = sreq[r].mixed /\ x.kind = "write"
    BY <1>1, <1>3, <1>4, <1>a DEF Writes
<1>6. sreq' = [sreq EXCEPT ![r] = AnswerOf(x)] BY <1>0, <1>1, <1>2, <1>4 DEF SesTyped
<1>7. sreq'[r] = AnswerOf(x) /\ \A q \in SesReqs \ {r} : sreq'[q] = sreq[q]
    BY <1>0, <1>6 DEF SesTyped
<1>8. CASE sreq[r].at = "late"
  <2>1. sreq'[r] = Finished(x) BY <1>5, <1>7, <1>8 DEF AnswerOf
  <2>2. Finished(x) \in Request /\ Finished(x).at = "done" /\ Finished(x).token = t
        /\ Finished(x).kind = "other"
      BY <1>5, FinishedIs DEF Writes, Activates
  <2>3. Ends(r, t) BY <1>a, <2>1, <2>2 DEF Ends, Does, Writes
  <2>4. SesTyped' BY <1>0, <1>6, <1>7, <2>1, <2>2 DEF SesTyped
  <2> QED BY <1>7, <1>a, <2>1, <2>2, <2>3, <2>4, LessStep
<1>9. CASE sreq[r].at = "sent"
  <2>1. sreq'[r] = [x EXCEPT !.at = "executed"] BY <1>5, <1>7, <1>9 DEF AnswerOf
  <2>2. sreq'[r] \in Writes /\ sreq'[r].at = "executed" /\ sreq'[r].token = t
        /\ sreq'[r].conn = sreq[r].conn /\ sreq'[r].rec = sreq[r].rec /\ sreq'[r].by = by
        /\ sreq'[r].mixed = sreq[r].mixed /\ sreq'[r].kind = "write"
      BY <1>5, <2>1 DEF Writes, Flying
  <2>3. AnswerOf(x) \in Request BY <1>7, <2>2 DEF Request
  <2>4. SesTyped' BY <1>0, <1>6, <2>3 DEF SesTyped
  <2>5. ASSUME NEW q \in SesReqs
        PROVE  /\ Used(q, t)' <=> Used(q, t)
               /\ \A k : Does(q, k, t)' <=> Does(q, k, t)
               /\ Proven(q, t)' <=> Proven(q, t)
               /\ q # r => sreq'[q] = sreq[q]
    <3>1. CASE q = r BY <1>0, <1>a, <2>2, <3>1 DEF Used, Does, Proven, InFlight, Writes
    <3>2. CASE q # r BY <1>7, <3>2, Unmoved
    <3> QED BY <3>1, <3>2
  <2>6. ~Proven(r, t) /\ \A k : Does(r, k, t) => k = "write"
      BY <1>a DEF Proven, Does, Writes, InFlight
  <2>7. TokenInv(t)'
    <3>1. NoncesOK(t)' BY <1>b, <2>5, <2>6 DEF TokenInv, NoncesOK
    <3>2. CreateOK(t)'
      <4>1. CreateOK(t) BY <1>b DEF TokenInv
      <4>2. ASSUME NEW q \in SesReqs, Does(q, "create", t)'
            PROVE  q # r /\ Does(q, "create", t) /\ sreq'[q] = sreq[q]
          BY <2>5, <2>6, <4>2
      <4>3. ASSUME NEW q \in SesReqs
            PROVE  sreq'[q].kind = sreq[q].kind /\ sreq'[q].rec = sreq[q].rec
        <5>1. CASE q = r BY <1>a, <2>2, <5>1 DEF Writes
        <5>2. CASE q # r BY <2>5, <5>2
        <5> QED BY <5>1, <5>2
      <4> QED BY <2>5, <4>1, <4>2, <4>3 DEF CreateOK
    <3>3. EntryOK(t)' BY <1>b, <2>5, <2>6 DEF TokenInv, EntryOK
    <3>4. ActOK(t)'
      <4>1. ActOK(t) BY <1>b DEF TokenInv
      <4>2. ASSUME NEW q \in SesReqs, Does(q, "activate", t)'
            PROVE  q # r /\ Does(q, "activate", t) /\ sreq'[q] = sreq[q]
          BY <2>5, <2>6, <4>2
      <4> QED BY ONLY <4>1, <4>2, UNCHANGED <<reg, srv, unsure>> DEF ActOK, LeftBy, MayActivate
    <3>5. ProofOK(t)' BY <1>b, <2>5, <2>6 DEF TokenInv, ProofOK
    <3>6. SyncOK(t)'
      <4>1. SyncOK(t) BY <1>b DEF TokenInv
      <4>2. ASSUME NEW q \in SesReqs
            PROVE  /\ Does(q, "activate", t)' <=> Does(q, "activate", t)
                   /\ Does(q, "activate", t) => q # r /\ sreq'[q] = sreq[q]
          BY <2>5, <2>6, <4>2
      <4> QED BY ONLY <4>1, <4>2, UNCHANGED <<reg, srv, unsure>> DEF SyncOK, Agreed, Pending, LeftBy
    <3>7. WriteOK(t)'
      <4>1. ASSUME NEW q \in SesReqs \ {r}, Does(q, "write", t)', ~sreq'[q].mixed
            PROVE  /\ sreq'[q].at = "sent" => WillBeTrue(q, t)'
                   /\ sreq'[q].at = "executed" => IsTrue(q, t)'
          BY <1>b, <2>5, <2>6, <4>1 DEF TokenInv, WriteOK, WillBeTrue, IsTrue
      <4>2. ASSUME ~sreq'[r].mixed PROVE IsTrue(r, t)'
        <5>1. WillBeTrue(r, t) BY <1>9, <1>a, <1>b, <2>2, <4>2 DEF TokenInv, WriteOK
        <5> QED BY <1>2, <2>2, <5>1 DEF WillBeTrue, IsTrue, Bound
      <4> QED BY <2>2, <4>1, <4>2 DEF WriteOK
    <3> QED BY <3>1, <3>2, <3>3, <3>4, <3>5, <3>6, <3>7 DEF TokenInv
  <2>8. \A y \in SesTokens \ {t} : ~Used(r, y) /\ ~Used(r, y)' BY <1>1, <2>2 DEF Used
  <2> QED BY <1>0, <1>7, <1>a, <2>4, <2>7, <2>8, OnlyToken DEF SesTyped
<1> QED BY <1>8, <1>9

LEMMA ExecuteCreateKeeps ==
    ASSUME SesInv, NEW r \in SesReqs, sreq[r].at \in {"sent", "late"}, sreq[r].kind = "create",
           srv' = [srv EXCEPT ![sreq[r].token] = [user |-> NoUser, chan |-> sreq[r].conn,
                                                  nonce |-> nonces + 1]],
           nonces' = nonces + 1,
           sreq' = [sreq EXCEPT ![r] = AnswerOf([@ EXCEPT !.sn = nonces + 1])],
           UNCHANGED <<reg, ended, unsure>>
    PROVE  SesInv'
<1>0. SesTyped /\ InFlight(r) BY DEF SesInv, InFlight
<1>1. PICK t : t = sreq[r].token OBVIOUS
<1>a. sreq[r] \in Creates /\ t \in SesTokens /\ Used(r, t) /\ Does(r, "create", t)
      /\ sreq[r].conn \in Chans
    BY <1>0, <1>1, KindOf, FlyingRequest
<1>b. TokenInv(t) /\ nonces \in Nat BY <1>0, <1>a DEF SesInv, SesTyped
<1>2. PICK x : x = [sreq[r] EXCEPT !.sn = nonces + 1] OBVIOUS
<1>3. x \in Creates /\ x.at = sreq[r].at /\ x.token = t /\ x.conn = sreq[r].conn
      /\ x.sn = nonces + 1
    BY <1>1, <1>2, <1>a, <1>b DEF Creates
<1>4. sreq' = [sreq EXCEPT ![r] = AnswerOf(x)] BY <1>0, <1>2 DEF SesTyped
<1>5. sreq'[r] = AnswerOf(x) /\ \A q \in SesReqs \ {r} : sreq'[q] = sreq[q]
    BY <1>0, <1>4 DEF SesTyped
<1>6. /\ sreq'[r] \in Request /\ sreq'[r].token = t /\ sreq'[r].at # "start"
      /\ \/ sreq'[r].at = "done" /\ sreq'[r].kind = "other"
         \/ /\ sreq'[r].at = "executed" /\ sreq'[r].kind = "create"
            /\ sreq'[r].conn = sreq[r].conn /\ sreq'[r].sn = nonces + 1
  <2>1. CASE sreq[r].at = "late"
    <3>1. sreq'[r] = Finished(x) BY <1>3, <1>5, <2>1 DEF AnswerOf
    <3> QED BY <1>3, <3>1, FinishedIs DEF Creates, Activates
  <2>2. CASE sreq[r].at = "sent"
    <3>1. sreq'[r] = [x EXCEPT !.at = "executed"] BY <1>3, <1>5, <2>2 DEF AnswerOf
    <3> QED BY <1>3, <3>1 DEF Creates, Flying, Request
  <2> QED BY <2>1, <2>2
<1>7. reg[t] = NoEntry /\ ended[t] = 0 BY <1>a, <1>b DEF TokenInv, CreateOK
<1>8. srv'[t] = [user |-> NoUser, chan |-> sreq[r].conn, nonce |-> nonces + 1]
      /\ \A y \in SesTokens \ {t} : srv'[y] = srv[y]
    BY <1>0, <1>1, <1>a DEF SesTyped
<1>9. SesTyped'
  <2>1. srv' \in [SesTokens -> Session \cup {NoEntry}]
      BY <1>0, <1>1, <1>a, <1>b, <1>8 DEF SesTyped, Session, Names
  <2> QED BY <1>0, <1>4, <1>5, <1>6, <1>b, <2>1 DEF SesTyped
<1>10. ASSUME NEW q \in SesReqs \ {r}
       PROVE  /\ sreq'[q] = sreq[q] /\ (Used(q, t)' <=> Used(q, t))
              /\ \A k : Does(q, k, t)' <=> Does(q, k, t)
              /\ Proven(q, t)' <=> Proven(q, t)
    BY <1>5, Unmoved
<1>11. ASSUME NEW q \in SesReqs \ {r}
       PROVE  /\ ~Does(q, "create", t) /\ ~Does(q, "activate", t) /\ ~Proven(q, t)
              /\ Used(q, t) => /\ sreq[q].kind \notin {"create", "activate", "proof"}
                               /\ sreq[q].kind = "write" => sreq[q].rec = NoUser
  <2>1. Used(q, t) => /\ sreq[q].kind \notin {"create", "activate", "proof"}
                      /\ sreq[q].kind = "write" => sreq[q].rec = NoUser
      BY <1>a, <1>b DEF TokenInv, CreateOK
  <2> QED BY <2>1 DEF Used, Does, Proven, InFlight
<1>12. ~Proven(r, t)' /\ \A k : Does(r, k, t)' => k = "create"
    BY <1>6 DEF Proven, Does, InFlight
<1>13. ASSUME NEW q \in SesReqs PROVE ~Does(q, "activate", t)' /\ ~Proven(q, t)'
    BY <1>10, <1>11, <1>12
<1>14. TokenInv(t)'
  <2>1. NoncesOK(t)'
    <3>1. Does(r, "create", t)' => sreq'[r].sn <= nonces' BY <1>6, <1>b DEF Does, InFlight
    <3>2. srv'[t].nonce <= nonces' BY <1>8, <1>b
    <3> QED BY <1>7, <1>10, <1>11, <1>13, <3>1, <3>2 DEF NoncesOK
  <2>2. CreateOK(t)'
    <3> SUFFICES ASSUME Does(r, "create", t)'
                 PROVE  /\ sreq'[r].at = "executed" /\ srv'[t].user = NoUser
                        /\ srv'[t].chan = sreq'[r].conn /\ srv'[t].nonce = sreq'[r].sn
        BY <1>7, <1>10, <1>11 DEF CreateOK
    <3> QED BY <1>6, <1>8 DEF Does
  <2>3. EntryOK(t)' BY <1>7, <1>8, <1>13 DEF EntryOK
  <2>4. ActOK(t)' BY <1>13 DEF ActOK
  <2>5. ProofOK(t)' BY <1>13 DEF ProofOK
  <2>6. SyncOK(t)' BY <1>7 DEF SyncOK
  <2>7. WriteOK(t)'
    <3> SUFFICES ASSUME NEW q \in SesReqs, Does(q, "write", t)', ~sreq'[q].mixed
                 PROVE  /\ sreq'[q].at = "sent" => WillBeTrue(q, t)'
                        /\ sreq'[q].at = "executed" => IsTrue(q, t)'
        BY DEF WriteOK
    <3>1. q # r /\ Does(q, "write", t) /\ sreq'[q] = sreq[q] BY <1>10, <1>12
    <3>2. sreq[q].rec = NoUser BY <1>11, <3>1 DEF Does, Used, InFlight
    <3>3. sreq[q].at = "executed" => IsTrue(q, t) BY <1>b, <3>1 DEF TokenInv, WriteOK
    <3> QED BY <1>8, <1>13, <3>1, <3>2, <3>3 DEF WillBeTrue, IsTrue
  <2> QED BY <2>1, <2>2, <2>3, <2>4, <2>5, <2>6, <2>7 DEF TokenInv
<1>15. \A y \in SesTokens \ {t} : ~Used(r, y) /\ ~Used(r, y)' BY <1>1, <1>6 DEF Used
<1>16. nonces <= nonces' BY <1>b
<1> QED BY <1>5, <1>8, <1>9, <1>14, <1>15, <1>16, <1>a, OnlyToken

\* The server accepted an activation: its nonce is used up, and it is the only one of its
\* session that has succeeded and is not answered.
LEMMA ExecuteActivateKeeps ==
    ASSUME SesInv, NEW r \in SesReqs, sreq[r].at \in {"sent", "late"}, sreq[r].kind = "activate",
           srv[sreq[r].token] # NoEntry,
           Rank[sreq[r].conn] > 0 => sreq[r].un = srv[sreq[r].token].nonce,
           srv' = [srv EXCEPT ![sreq[r].token] = [user |-> sreq[r].user, chan |-> sreq[r].conn,
                                                  nonce |-> nonces + 1]],
           nonces' = nonces + 1,
           sreq' = [sreq EXCEPT ![r] = AnswerOf([@ EXCEPT !.good = TRUE, !.sn = nonces + 1])],
           UNCHANGED <<reg, ended, unsure>>
    PROVE  SesInv'
<1>0. SesTyped /\ InFlight(r) BY DEF SesInv, InFlight
<1>1. PICK t : t = sreq[r].token OBVIOUS
<1>a. sreq[r] \in Activates /\ t \in SesTokens /\ Used(r, t) /\ Does(r, "activate", t)
    BY <1>0, <1>1, KindOf, FlyingRequest
<1>b. TokenInv(t) /\ nonces \in Nat BY <1>0, <1>a DEF SesInv, SesTyped
<1>c. ~sreq[r].good BY <1>a, <1>b DEF TokenInv, ActOK
<1>d. sreq[r].conn \in Chans /\ Rank[sreq[r].conn] \in 0..2 BY <1>a DEF Activates
<1>2. PICK x : x = [sreq[r] EXCEPT !.good = TRUE, !.sn = nonces + 1] OBVIOUS
<1>3. /\ x \in Activates /\ x.at = sreq[r].at /\ x.token = t /\ x.conn = sreq[r].conn
      /\ x.user = sreq[r].user /\ x.dn = sreq[r].dn /\ x.un = sreq[r].un /\ x.good
      /\ x.sn = nonces + 1 /\ x.alone = sreq[r].alone
  <2>0. PICK y : y = [sreq[r] EXCEPT !.good = TRUE] OBVIOUS
  <2>a. y \in Activates BY <1>a, <2>0 DEF Activates
  <2>b. x = [y EXCEPT !.sn = nonces + 1] BY <1>2, <2>0
  <2>1. x \in Activates BY <1>b, <2>a, <2>b DEF Activates
  <2>2. x.good BY <1>2, <1>a DEF Activates
  <2>3. /\ x.at = sreq[r].at /\ x.token = t /\ x.conn = sreq[r].conn
        /\ x.user = sreq[r].user /\ x.dn = sreq[r].dn /\ x.un = sreq[r].un
        /\ x.sn = nonces + 1
      BY <1>1, <1>2, <1>a DEF Activates
  <2>4. x.alone = sreq[r].alone BY <1>2, <1>a DEF Activates
  <2> QED BY <2>1, <2>2, <2>3, <2>4
<1>4. sreq' = [sreq EXCEPT ![r] = AnswerOf(x)] BY <1>0, <1>2 DEF SesTyped
<1>5. sreq'[r] = AnswerOf(x) /\ \A q \in SesReqs \ {r} : sreq'[q] = sreq[q]
    BY <1>0, <1>4 DEF SesTyped
<1>7. /\ sreq'[r] \in Request /\ sreq'[r].token = t /\ sreq'[r].at # "start"
      /\ \/ sreq'[r].at = "done" /\ sreq'[r].kind = "other" /\ sreq[r].at = "late"
         \/ /\ sreq'[r].at = "done" /\ sreq'[r].kind = "proof" /\ sreq'[r].dn = sreq[r].dn
            /\ Rank[sreq[r].conn] > 0 /\ sreq[r].at = "late"
         \/ /\ sreq'[r].at = "executed" /\ sreq'[r].kind = "activate" /\ sreq[r].at = "sent"
            /\ sreq'[r].conn = sreq[r].conn /\ sreq'[r].user = sreq[r].user
            /\ sreq'[r].dn = sreq[r].dn /\ sreq'[r].un = sreq[r].un /\ sreq'[r].good
            /\ sreq'[r].sn = nonces + 1 /\ sreq'[r].alone = sreq[r].alone
  <2>1. CASE sreq[r].at = "late"
    <3>1. sreq'[r] = Finished(x) BY <1>3, <1>5, <2>1 DEF AnswerOf
    <3> QED BY <1>3, <2>1, <3>1, FinishedIs
  <2>2. CASE sreq[r].at = "sent"
    <3>1. sreq'[r] = [x EXCEPT !.at = "executed"] BY <1>3, <1>5, <2>2 DEF AnswerOf
    <3>2. sreq'[r] \in Activates BY <1>3, <3>1 DEF Activates, Flying
    <3> QED BY <1>3, <2>2, <3>1, <3>2 DEF Activates, Request
  <2> QED BY <2>1, <2>2
<1>8. srv'[t] = [user |-> sreq[r].user, chan |-> sreq[r].conn, nonce |-> nonces + 1]
      /\ \A y \in SesTokens \ {t} : srv'[y] = srv[y]
    BY <1>0, <1>1, <1>a DEF SesTyped
<1>9. SesTyped'
  <2>1. srv' \in [SesTokens -> Session \cup {NoEntry}]
      BY <1>0, <1>1, <1>a, <1>b, <1>8 DEF SesTyped, Session, Names, Activates
  <2> QED BY <1>0, <1>4, <1>5, <1>7, <1>b, <2>1 DEF SesTyped
<1>10. ASSUME NEW q \in SesReqs \ {r}
       PROVE  /\ sreq'[q] = sreq[q] /\ (Used(q, t)' <=> Used(q, t))
              /\ \A k : Does(q, k, t)' <=> Does(q, k, t)
              /\ Proven(q, t)' <=> Proven(q, t)
    BY <1>5, Unmoved
<1>11. /\ \A k : Does(r, k, t)' => k = "activate" /\ sreq[r].at = "sent"
       /\ Proven(r, t)' => sreq'[r].dn = sreq[r].dn /\ Rank[sreq[r].conn] > 0
    BY <1>7 DEF Does, Proven, InFlight
<1>12. ASSUME NEW q \in SesReqs PROVE ~Does(q, "create", t)
  <2>1. ASSUME Does(q, "create", t) PROVE FALSE
    <3>1. q # r BY <1>a, <2>1 DEF Does
    <3>2. sreq[r].kind \notin {"create", "activate", "proof"}
        BY <1>a, <1>b, <2>1, <3>1 DEF TokenInv, CreateOK
    <3> QED BY <3>2
  <2> QED BY <2>1
<1>13. reg[t] = NoEntry => ended[t] = 1 BY <1>1, <1>a, <1>b DEF TokenInv, EntryOK
<1>14. ASSUME NEW q \in SesReqs, Does(q, "activate", t)
       PROVE  sreq[q].un < nonces + 1 /\ sreq[q].dn < nonces + 1 /\ sreq[q].sn < nonces + 1
  <2>1. sreq[q] \in Activates BY <1>0, <1>14, KindOf DEF Does
  <2> QED BY <1>14, <1>b, <2>1 DEF TokenInv, NoncesOK, Activates
<1>15. reg[t] # NoEntry => reg[t].un < nonces + 1 /\ reg[t].dn < nonces + 1
  <2>1. reg[t] # NoEntry => reg[t] \in Entry BY <1>0, <1>a DEF SesTyped
  <2> QED BY <1>b, <2>1 DEF TokenInv, NoncesOK, Entry
<1>16. TokenInv(t)'
  <2>1. NoncesOK(t)'
    <3>1. reg'[t] # NoEntry => reg'[t].dn <= nonces' /\ reg'[t].un <= nonces'
      <4>1. reg[t] # NoEntry => reg[t].un \in Nat /\ reg[t].dn \in Nat
          BY <1>0, <1>a DEF SesTyped, Entry
      <4> QED BY <1>15, <1>b, <4>1
    <3>2. srv'[t].nonce <= nonces' BY <1>8, <1>b
    <3>3. ASSUME NEW q \in SesReqs, Does(q, "activate", t)'
          PROVE  sreq'[q].un <= nonces' /\ sreq'[q].dn <= nonces' /\ sreq'[q].sn <= nonces'
      <4>1. CASE q = r
        <5>1. sreq'[r].un = sreq[r].un /\ sreq'[r].dn = sreq[r].dn /\ sreq'[r].sn = nonces + 1
            BY <1>7, <3>3, <4>1 DEF Does, InFlight
        <5>2. sreq[r].un \in Nat /\ sreq[r].dn \in Nat BY <1>a DEF Activates
        <5>3. sreq[r].un < nonces + 1 /\ sreq[r].dn < nonces + 1 BY <1>14, <1>a
        <5> QED BY <1>b, <4>1, <5>1, <5>2, <5>3
      <4>2. CASE q # r
        <5>1. Does(q, "activate", t) /\ sreq'[q] = sreq[q] BY <1>10, <3>3, <4>2
        <5>2. sreq[q] \in Activates BY <1>0, <5>1, KindOf DEF Does
        <5> QED BY <1>14, <1>b, <5>1, <5>2 DEF Activates
      <4> QED BY <4>1, <4>2
    <3>4. ASSUME NEW q \in SesReqs, Proven(q, t)' PROVE sreq'[q].dn <= nonces'
      <4>1. CASE q = r
        <5>1. sreq[r].dn \in Nat BY <1>a DEF Activates
        <5> QED BY <1>11, <1>14, <1>a, <1>b, <3>4, <4>1, <5>1
      <4>2. CASE q # r
        <5>1. Proven(q, t) /\ sreq'[q] = sreq[q] BY <1>10, <3>4, <4>2
        <5>2. sreq[q].dn \in Nat BY <1>0, <5>1, KindOf DEF Proven, Does, Activates, Proofs, Others
        <5> QED BY <1>b, <5>1, <5>2 DEF TokenInv, NoncesOK
      <4> QED BY <4>1, <4>2
    <3> QED BY <1>10, <1>11, <1>12, <3>1, <3>2, <3>3, <3>4 DEF NoncesOK
  <2>2. CreateOK(t)' BY <1>10, <1>11, <1>12 DEF CreateOK
  <2>3. EntryOK(t)' BY <1>13, <1>b DEF TokenInv, EntryOK
  <2>4. ActOK(t)'
    <3> SUFFICES ASSUME NEW q \in SesReqs, Does(q, "activate", t)'
                 PROVE  /\ reg'[t] # NoEntry => MayActivate(sreq'[q].conn, reg[t])
                        /\ sreq'[q].good => sreq'[q].at = "executed"
                        /\ sreq'[q].at = "late" => t \in unsure
                        /\ (sreq'[q].good /\ sreq'[q].alone) => LeftBy(q, t)'
                        /\ \A p \in SesReqs \ {q} : Does(p, "activate", t)' =>
                             /\ ~sreq'[q].alone
                             /\ Rank[sreq'[q].conn] = 0 => t \in unsure
        BY DEF ActOK, MayActivate
    <3>1. ASSUME NEW p \in SesReqs, Does(p, "activate", t)' PROVE Does(p, "activate", t)
        BY <1>10, <1>a, <3>1
    <3>2. CASE q = r
      <4>1. /\ sreq'[r].at = "executed" /\ sreq'[r].conn = sreq[r].conn
            /\ sreq'[r].user = sreq[r].user /\ sreq'[r].sn = nonces + 1
            /\ sreq'[r].alone = sreq[r].alone
          BY <1>7, <3>2 DEF Does, InFlight
      <4>2. LeftBy(r, t)' BY <1>8, <4>1 DEF LeftBy
      <4>3. reg[t] # NoEntry => MayActivate(sreq[r].conn, reg[t])
          BY <1>a, <1>b DEF TokenInv, ActOK
      <4>4. \A p \in SesReqs \ {r} : Does(p, "activate", t) =>
                 ~sreq[r].alone /\ (Rank[sreq[r].conn] = 0 => t \in unsure)
          BY <1>a, <1>b DEF TokenInv, ActOK
      <4>5. \A p \in SesReqs \ {r} : Does(p, "activate", t)' =>
                 ~sreq'[r].alone /\ (Rank[sreq'[r].conn] = 0 => t \in unsure)
          BY <3>1, <4>1, <4>4
      <4>6. reg'[t] # NoEntry => MayActivate(sreq'[r].conn, reg[t]) BY <4>1, <4>3
      <4> QED BY <3>2, <4>1, <4>2, <4>5, <4>6
    <3>3. CASE q # r
      <4>1. Does(q, "activate", t) /\ sreq'[q] = sreq[q] BY <1>10, <3>3
      <4>2. ~sreq[q].alone BY <1>a, <1>b, <3>3, <4>1 DEF TokenInv, ActOK
      <4>3. /\ reg[t] # NoEntry => MayActivate(sreq[q].conn, reg[t])
            /\ sreq[q].good => sreq[q].at = "executed"
            /\ sreq[q].at = "late" => t \in unsure
          BY <1>b, <4>1 DEF TokenInv, ActOK
      <4>4. Rank[sreq[q].conn] = 0 => t \in unsure
          BY <1>a, <1>b, <3>3, <4>1 DEF TokenInv, ActOK
      <4> QED BY <4>1, <4>2, <4>3, <4>4
    <3> QED BY <3>2, <3>3
  <2>5. ProofOK(t)'
    <3> SUFFICES ASSUME NEW p \in SesReqs, Proven(p, t)'
                 PROVE  /\ reg'[t] # NoEntry => reg'[t].un # srv'[t].nonce
                        /\ \A q \in SesReqs \ {p} : Proven(q, t)' => sreq'[q].dn # sreq'[p].dn
                        /\ \A q \in SesReqs : (Does(q, "activate", t)' /\ ~sreq'[q].good)
                                              => sreq'[q].un # srv'[t].nonce
        BY DEF ProofOK
    <3>1. reg'[t] # NoEntry => reg'[t].un # srv'[t].nonce
      <4>1. reg[t] # NoEntry => reg[t].un \in Nat BY <1>0, <1>a DEF SesTyped, Entry
      <4> QED BY <1>8, <1>15, <1>b, <4>1
    <3>2. ASSUME NEW q \in SesReqs \ {r}, Proven(q, t), Proven(r, t)'
          PROVE  sreq[q].dn # sreq[r].dn
        BY <1>1, <1>11, <1>a, <1>b, <1>c, <3>2 DEF TokenInv, ProofOK
    <3>3. ASSUME NEW q \in SesReqs \ {p}, Proven(q, t)' PROVE sreq'[q].dn # sreq'[p].dn
      <4>1. CASE p = r BY <1>10, <1>11, <3>2, <3>3, <4>1
      <4>2. CASE q = r BY <1>10, <1>11, <3>2, <3>3, <4>2
      <4>3. CASE p # r /\ q # r BY <1>10, <1>b, <3>3, <4>3 DEF TokenInv, ProofOK
      <4> QED BY <4>1, <4>2, <4>3
    <3>4. ASSUME NEW q \in SesReqs, Does(q, "activate", t)', ~sreq'[q].good
          PROVE  sreq'[q].un # srv'[t].nonce
      <4>1. q # r BY <1>7, <3>4 DEF Does, InFlight
      <4>2. Does(q, "activate", t) /\ sreq'[q] = sreq[q] BY <1>10, <3>4, <4>1
      <4>3. sreq[q] \in Activates BY <1>0, <4>2, KindOf DEF Does
      <4> QED BY <1>8, <1>14, <1>b, <4>2, <4>3 DEF Activates
    <3> QED BY <3>1, <3>3, <3>4
  <2>6. SyncOK(t)'
    <3> SUFFICES ASSUME reg[t] # NoEntry, t \notin unsure PROVE Pending(r, t)'
        BY DEF SyncOK
    <3>1. sreq[r].at = "sent" BY <1>a, <1>b DEF TokenInv, ActOK
    <3>2. /\ Does(r, "activate", t)' /\ sreq'[r].good
          /\ sreq'[r].conn = sreq[r].conn /\ sreq'[r].user = sreq[r].user
          /\ sreq'[r].sn = nonces + 1
        BY <1>7, <3>1 DEF Does, InFlight
    <3>3. LeftBy(r, t)' BY <1>8, <3>2 DEF LeftBy
    <3>4. reg'[t].un # srv'[t].nonce
      <4>1. reg[t].un \in Nat BY <1>0, <1>a DEF SesTyped, Entry
      <4> QED BY <1>8, <1>15, <1>b, <4>1
    <3>5. ASSUME NEW q \in SesReqs, Pending(q, t) PROVE FALSE
      <4>1. q # r /\ Does(q, "activate", t) BY <1>c, <3>5 DEF Pending
      <4>2. sreq[r].un # srv[t].nonce BY <1>a, <3>5, <4>1 DEF Pending
      <4>3. Rank[sreq[r].conn] = 0 BY <1>1, <1>d, <4>2
      <4> QED BY <1>a, <1>b, <4>1, <4>3 DEF TokenInv, ActOK
    <3>6. Agreed(t) BY <1>1, <1>b, <3>5 DEF TokenInv, SyncOK
    <3>7. ASSUME NEW q \in SesReqs \ {r}, Does(q, "activate", t)'
          PROVE  ~sreq'[q].good /\ sreq'[q].un # srv'[t].nonce
      <4>2. Does(q, "activate", t) /\ sreq'[q] = sreq[q] BY <1>10, <3>7
      <4>3. sreq[q] \in Activates BY <1>0, <4>2, KindOf DEF Does
      <4>4. ~sreq[q].good BY <3>6, <4>2 DEF Agreed
      <4>5. sreq[q].un # srv'[t].nonce BY <1>8, <1>14, <1>b, <4>2, <4>3 DEF Activates
      <4> QED BY <4>2, <4>4, <4>5
    <3> QED BY <3>2, <3>3, <3>4, <3>7 DEF Pending
  <2>7. WriteOK(t)'
    <3> SUFFICES ASSUME NEW q \in SesReqs, Does(q, "write", t)', ~sreq'[q].mixed
                 PROVE  sreq'[q].at # "sent" /\ (sreq'[q].at = "executed" => IsTrue(q, t)')
        BY DEF WriteOK
    <3>1. q # r /\ Does(q, "write", t) /\ sreq'[q] = sreq[q] BY <1>10, <1>11
    <3>2. sreq[q].at # "sent" BY <1>a, <1>b, <3>1 DEF TokenInv, WriteOK, WillBeTrue
    <3>3. sreq[q].at = "executed" => IsTrue(q, t) BY <1>b, <3>1 DEF TokenInv, WriteOK
    <3> QED BY <3>1, <3>2, <3>3 DEF IsTrue
  <2> QED BY <2>1, <2>2, <2>3, <2>4, <2>5, <2>6, <2>7 DEF TokenInv
<1>17. \A y \in SesTokens \ {t} : ~Used(r, y) /\ ~Used(r, y)' BY <1>1, <1>7 DEF Used
<1>18. nonces <= nonces' BY <1>b
<1> QED BY <1>5, <1>8, <1>9, <1>16, <1>17, <1>18, <1>a, OnlyToken

LEMMA CreateAnswerKeeps == ASSUME SesInv, NEW r \in SesReqs, CreateAnswer(r) PROVE SesInv'
<1>0. SesTyped /\ InFlight(r) BY DEF SesInv, InFlight, CreateAnswer
<1>1. PICK t, c : t = sreq[r].token /\ c = sreq[r].conn OBVIOUS
<1>a. sreq[r] \in Creates /\ t \in SesTokens /\ Used(r, t) /\ Does(r, "create", t) /\ c \in Chans
    BY <1>0, <1>1, KindOf, FlyingRequest DEF CreateAnswer
<1>b. TokenInv(t) /\ nonces \in Nat BY <1>0, <1>a DEF SesInv, SesTyped
<1>2. PICK e : e = [user |-> NoUser, owner |-> c, cert |-> Cert[c], rank |-> Rank[c],
                    dn |-> nonces + 1, un |-> sreq[r].sn]
    OBVIOUS
<1>3. e \in Entry BY <1>2, <1>a, <1>b DEF Entry, Names, Creates
<1>4. PICK old \in SUBSET {x \in SesTokens \ {t} : srv[x] = NoEntry} :
         reg' = [x \in SesTokens |-> IF x \in old THEN NoEntry ELSE IF x # t THEN reg[x] ELSE e]
    BY <1>1, <1>2 DEF CreateAnswer
<1>5. UNCHANGED <<srv, ended, unsure>> /\ nonces' = nonces + 1 BY DEF CreateAnswer
<1>6. sreq' = [sreq EXCEPT ![r] = Finished(sreq[r])] BY <1>0 DEF CreateAnswer, EndOf, SesTyped
<1>7. sreq'[r] = Finished(sreq[r]) /\ \A q \in SesReqs \ {r} : sreq'[q] = sreq[q]
    BY <1>0, <1>6 DEF SesTyped
<1>8. /\ sreq'[r] \in Request /\ sreq'[r].at = "done" /\ sreq'[r].kind = "other"
      /\ sreq'[r].token = t
    BY <1>1, <1>7, <1>a, FinishedIs DEF Creates, Activates
<1>9. reg'[t] = e /\ e # NoEntry BY <1>3, <1>4, <1>a, NoEntryIsNone
<1>10. SesTyped'
  <2>1. reg' \in [SesTokens -> Entry \cup {NoEntry}] BY <1>0, <1>3, <1>4 DEF SesTyped
  <2>2. sreq' \in [SesReqs -> Request] BY <1>0, <1>6, <1>7, <1>8 DEF SesTyped
  <2> QED BY <1>0, <1>5, <1>b, <2>1, <2>2 DEF SesTyped
<1>11. ASSUME NEW q \in SesReqs \ {r}
       PROVE  /\ sreq'[q] = sreq[q] /\ (Used(q, t)' <=> Used(q, t))
              /\ \A k : Does(q, k, t)' <=> Does(q, k, t)
              /\ Proven(q, t)' <=> Proven(q, t)
    BY <1>7, Unmoved
<1>12. ASSUME NEW q \in SesReqs \ {r}
       PROVE  ~Does(q, "create", t) /\ ~Does(q, "activate", t) /\ ~Proven(q, t)
  <2>1. Used(q, t) => sreq[q].kind \notin {"create", "activate", "proof"}
      BY <1>a, <1>b DEF TokenInv, CreateOK
  <2> QED BY <2>1 DEF Used, Does, Proven, InFlight
<1>13. ~Proven(r, t)' /\ \A k : ~Does(r, k, t)' BY <1>8 DEF Proven, Does, InFlight
<1>14. ASSUME NEW q \in SesReqs
       PROVE  ~Does(q, "create", t)' /\ ~Does(q, "activate", t)' /\ ~Proven(q, t)'
    BY <1>11, <1>12, <1>13
<1>15. /\ ended[t] = 0
       /\ srv[t] # NoEntry => srv[t].user = NoUser /\ srv[t].chan = c /\ srv[t].nonce = sreq[r].sn
    BY <1>1, <1>a, <1>b DEF TokenInv, CreateOK
<1>16. TokenInv(t)'
  <2>1. NoncesOK(t)'
    <3>1. sreq[r].sn \in Nat /\ sreq[r].sn <= nonces
        BY <1>a, <1>b DEF TokenInv, NoncesOK, Creates
    <3>2. reg'[t].dn <= nonces' /\ reg'[t].un <= nonces' BY <1>2, <1>5, <1>9, <1>b, <3>1
    <3>3. srv'[t] # NoEntry => srv'[t].nonce <= nonces' BY <1>5, <1>15, <1>b, <3>1
    <3> QED BY <1>14, <3>2, <3>3 DEF NoncesOK
  <2>2. CreateOK(t)' BY <1>14 DEF CreateOK
  <2>3. EntryOK(t)' BY <1>2, <1>5, <1>9, <1>15, <1>a DEF EntryOK
  <2>4. ActOK(t)' BY <1>14 DEF ActOK
  <2>5. ProofOK(t)' BY <1>14 DEF ProofOK
  <2>6. SyncOK(t)' BY <1>2, <1>5, <1>9, <1>14, <1>15 DEF SyncOK, Agreed
  <2>7. WriteOK(t)'
    <3> SUFFICES ASSUME NEW q \in SesReqs, Does(q, "write", t)', ~sreq'[q].mixed
                 PROVE  /\ sreq'[q].at = "sent" => WillBeTrue(q, t)'
                        /\ sreq'[q].at = "executed" => IsTrue(q, t)'
        BY DEF WriteOK
    <3>1. q # r /\ Does(q, "write", t) /\ sreq'[q] = sreq[q] BY <1>11, <1>13
    <3> QED BY <1>5, <1>14, <1>b, <3>1 DEF TokenInv, WriteOK, WillBeTrue, IsTrue
  <2> QED BY <2>1, <2>2, <2>3, <2>4, <2>5, <2>6, <2>7 DEF TokenInv
<1>17. \A y \in SesTokens \ {t} : ~Used(r, y) /\ ~Used(r, y)' BY <1>1, <1>8 DEF Used
<1>18. nonces <= nonces' BY <1>5, <1>b
<1>19. \A x \in SesTokens \ {t} : reg'[x] = reg[x] \/ (reg'[x] = NoEntry /\ srv[x] = NoEntry)
    BY <1>4
<1> QED BY <1>5, <1>7, <1>10, <1>16, <1>17, <1>18, <1>19, <1>a, OnlyToken

LEMMA ActivateAnswerKeeps == ASSUME SesInv, NEW r \in SesReqs, ActivateAnswer(r) PROVE SesInv'
<1>0. SesTyped /\ InFlight(r) BY DEF SesInv, InFlight, ActivateAnswer
<1>1. PICK t, c : t = sreq[r].token /\ c = sreq[r].conn OBVIOUS
<1>a. /\ sreq[r] \in Activates /\ t \in SesTokens /\ Used(r, t) /\ Does(r, "activate", t)
      /\ c \in Chans /\ sreq[r].at = "executed"
    BY <1>0, <1>1, KindOf, FlyingRequest DEF ActivateAnswer
<1>b. TokenInv(t) /\ nonces \in Nat BY <1>0, <1>a DEF SesInv, SesTyped
<1>2. sreq' = [sreq EXCEPT ![r] = Finished(sreq[r])] BY <1>0 DEF ActivateAnswer, EndOf, SesTyped
<1>3. sreq'[r] = Finished(sreq[r]) /\ \A q \in SesReqs \ {r} : sreq'[q] = sreq[q]
    BY <1>0, <1>2 DEF SesTyped
<1>4. UNCHANGED <<srv, ended>> BY DEF ActivateAnswer
<1>5. /\ sreq'[r] \in Request /\ sreq'[r].at = "done" /\ sreq'[r].token = t
      /\ \/ sreq'[r].kind = "other"
         \/ /\ sreq[r].good /\ Rank[c] > 0 /\ sreq'[r].kind = "proof" /\ sreq'[r].dn = sreq[r].dn
    BY <1>1, <1>3, <1>a, FinishedIs
<1>6. sreq' \in [SesReqs -> Request] BY <1>0, <1>2, <1>3, <1>5 DEF SesTyped
<1>7. CASE ~(sreq[r].good /\ reg[t] # NoEntry)
  <2>1. UNCHANGED <<reg, nonces, unsure>> BY <1>1, <1>7 DEF ActivateAnswer
  <2>2. Ends(r, t) BY <1>0, <1>1, <1>3, <1>7, FinishedEnds
  <2>3. SesTyped' BY <1>0, <1>4, <1>6, <2>1 DEF SesTyped
  <2> QED BY <1>3, <1>4, <1>5, <1>a, <2>1, <2>2, <2>3, LessStep
<1>8. CASE sreq[r].good /\ reg[t] # NoEntry
  <2>1. reg[t] \in Entry BY <1>0, <1>8, <1>a DEF SesTyped
  <2>2. PICK e : e = [reg[t] EXCEPT !.user = sreq[r].user, !.owner = c, !.un = sreq[r].sn,
                                    !.dn = nonces + 1]
      OBVIOUS
  <2>3. /\ e \in Entry /\ e # NoEntry /\ e.user = sreq[r].user /\ e.owner = c
        /\ e.un = sreq[r].sn /\ e.dn = nonces + 1 /\ e.rank = reg[t].rank /\ e.cert = reg[t].cert
    <3>1. sreq[r].user \in Names /\ sreq[r].sn \in Nat BY <1>a DEF Activates, Names
    <3>2. PICK d : d = [reg[t] EXCEPT !.user = sreq[r].user, !.owner = c] OBVIOUS
    <3>3. d \in Entry /\ d.user = sreq[r].user /\ d.owner = c /\ d.rank = reg[t].rank
          /\ d.cert = reg[t].cert
        BY <1>a, <2>1, <3>1, <3>2 DEF Entry
    <3>4. e = [d EXCEPT !.un = sreq[r].sn, !.dn = nonces + 1] BY <2>2, <3>2
    <3>5. PICK f : f = [d EXCEPT !.un = sreq[r].sn] OBVIOUS
    <3>6. f \in Entry /\ f.user = d.user /\ f.owner = d.owner /\ f.rank = d.rank
          /\ f.cert = d.cert /\ f.un = sreq[r].sn
        BY <3>1, <3>3, <3>5 DEF Entry
    <3>7. e = [f EXCEPT !.dn = nonces + 1] BY <3>4, <3>5
    <3>8. e \in Entry /\ e.user = f.user /\ e.owner = f.owner /\ e.rank = f.rank
          /\ e.cert = f.cert /\ e.un = f.un /\ e.dn = nonces + 1
        BY <1>b, <3>6, <3>7 DEF Entry
    <3> QED BY <3>3, <3>6, <3>8, NoEntryIsNone
  <2>4. reg' = [reg EXCEPT ![t] = e] /\ nonces' = nonces + 1
        /\ unsure' = IF sreq[r].alone THEN unsure \ {t} ELSE unsure
      BY <1>0, <1>1, <1>8, <1>a, <2>2 DEF ActivateAnswer, Activated, SesTyped
  <2>5. reg'[t] = e /\ \A x \in SesTokens \ {t} : reg'[x] = reg[x]
      BY <1>0, <1>a, <2>4 DEF SesTyped
  <2>6. SesTyped'
    <3>1. reg' \in [SesTokens -> Entry \cup {NoEntry}] BY <1>0, <1>a, <2>3, <2>4 DEF SesTyped
    <3> QED BY <1>0, <1>4, <1>6, <1>b, <2>4, <3>1 DEF SesTyped
  <2>7. ASSUME NEW q \in SesReqs \ {r}
        PROVE  /\ sreq'[q] = sreq[q] /\ (Used(q, t)' <=> Used(q, t))
               /\ \A k : Does(q, k, t)' <=> Does(q, k, t)
               /\ Proven(q, t)' <=> Proven(q, t)
      BY <1>3, Unmoved
  <2>8. (\A k : ~Does(r, k, t)') /\ (Proven(r, t)' => Proven(r, t) /\ sreq'[r].dn = sreq[r].dn)
      BY <1>1, <1>5, <1>8, <1>a DEF Proven, Does, InFlight
  <2>9. ASSUME NEW q \in SesReqs PROVE ~Does(q, "create", t)
      BY <1>8, <1>b DEF TokenInv, CreateOK
  <2>10. ASSUME NEW q \in SesReqs, Proven(q, t)'
         PROVE  Proven(q, t) /\ sreq'[q].dn = sreq[q].dn
      BY <2>7, <2>8, <2>10
  <2>11. ASSUME NEW q \in SesReqs, Proven(q, t) PROVE sreq[q].dn \in Nat /\ sreq[q].dn <= nonces
    <3>1. sreq[q].dn \in Nat BY <1>0, <2>11, KindOf DEF Proven, Does, Activates, Proofs, Others
    <3> QED BY <1>b, <2>11, <3>1 DEF TokenInv, NoncesOK
  <2>12. ASSUME NEW q \in SesReqs, Does(q, "activate", t)'
         PROVE  q # r /\ Does(q, "activate", t) /\ sreq'[q] = sreq[q]
      BY <2>7, <2>8, <2>12
  <2>13. ASSUME NEW q \in SesReqs, Does(q, "activate", t)', t \in unsure PROVE t \in unsure'
    <3>1. ~sreq[r].alone BY <1>a, <1>b, <2>12, <2>13 DEF TokenInv, ActOK
    <3> QED BY <2>4, <2>13, <3>1
  <2>14. TokenInv(t)'
    <3>1. NoncesOK(t)'
      <4>1. sreq[r].sn \in Nat /\ sreq[r].sn <= nonces
          BY <1>a, <1>b DEF TokenInv, NoncesOK, Activates
      <4>2. reg'[t].dn <= nonces' /\ reg'[t].un <= nonces' BY <1>b, <2>3, <2>4, <2>5, <4>1
      <4>3. srv'[t] # NoEntry => srv'[t].nonce <= nonces'
        <5>1. srv[t] # NoEntry => srv[t].nonce \in Nat /\ srv[t].nonce <= nonces
            BY <1>0, <1>a, <1>b DEF TokenInv, NoncesOK, SesTyped, Session
        <5> QED BY <1>4, <1>b, <2>4, <5>1
      <4>4. ASSUME NEW q \in SesReqs, Does(q, "activate", t)'
            PROVE  sreq'[q].un <= nonces' /\ sreq'[q].dn <= nonces' /\ sreq'[q].sn <= nonces'
        <5>1. sreq[q] \in Activates BY <1>0, <2>12, <4>4, KindOf DEF Does
        <5> QED BY <1>b, <2>4, <2>12, <4>4, <5>1 DEF TokenInv, NoncesOK, Activates
      <4>5. ASSUME NEW q \in SesReqs, Proven(q, t)' PROVE sreq'[q].dn <= nonces'
          BY <1>b, <2>4, <2>10, <2>11, <4>5
      <4>6. ASSUME NEW q \in SesReqs PROVE ~Does(q, "create", t)' BY <2>7, <2>8, <2>9
      <4> QED BY <4>2, <4>3, <4>4, <4>5, <4>6 DEF NoncesOK
    <3>2. CreateOK(t)' BY <2>7, <2>8, <2>9 DEF CreateOK
    <3>3. EntryOK(t)'
      <4>1. MayActivate(c, reg[t]) /\ ended[t] = 0
          BY <1>1, <1>8, <1>a, <1>b DEF TokenInv, ActOK, EntryOK
      <4>2. reg[t].rank \in 0..2 /\ Rank[c] \in 0..2 BY <1>a, <2>1 DEF Entry
      <4> QED BY <1>4, <2>3, <2>5, <4>1, <4>2 DEF EntryOK, MayActivate
    <3>4. ActOK(t)'
      <4> SUFFICES ASSUME NEW q \in SesReqs, Does(q, "activate", t)'
                   PROVE  /\ MayActivate(sreq[q].conn, reg[t])'
                          /\ sreq'[q].good => sreq'[q].at = "executed"
                          /\ sreq'[q].at = "late" => t \in unsure'
                          /\ (sreq'[q].good /\ sreq'[q].alone /\ srv'[t] # NoEntry) => LeftBy(q, t)'
                          /\ \A p \in SesReqs \ {q} : Does(p, "activate", t)' =>
                               /\ ~sreq'[q].alone
                               /\ Rank[sreq'[q].conn] = 0 => t \in unsure'
          BY DEF ActOK
      <4>1. q # r /\ Does(q, "activate", t) /\ sreq'[q] = sreq[q] BY <2>12
      <4>2. /\ MayActivate(sreq[q].conn, reg[t]) /\ ~sreq[q].alone
            /\ sreq[q].good => sreq[q].at = "executed"
            /\ sreq[q].at = "late" => t \in unsure
            /\ Rank[sreq[q].conn] = 0 => t \in unsure
          BY <1>8, <1>a, <1>b, <4>1 DEF TokenInv, ActOK
      <4>3. MayActivate(sreq[q].conn, reg[t])' BY <2>3, <2>5, <4>1, <4>2 DEF MayActivate
      <4> QED BY <2>13, <4>1, <4>2, <4>3
    <3>5. ProofOK(t)'
      <4> SUFFICES ASSUME NEW p \in SesReqs, Proven(p, t)'
                   PROVE  /\ reg'[t].dn # sreq'[p].dn
                          /\ \A q \in SesReqs \ {p} : Proven(q, t)' => sreq'[q].dn # sreq'[p].dn
                          /\ \A q \in SesReqs :
                               (/\ srv'[t] # NoEntry /\ Does(q, "activate", t)' /\ ~sreq'[q].good
                                /\ Rank[sreq'[q].conn] > 0 /\ sreq'[q].dn = sreq'[p].dn)
                               => sreq'[q].un # srv'[t].nonce
          BY DEF ProofOK
      <4>1. reg'[t].dn # sreq'[p].dn BY <1>b, <2>3, <2>5, <2>10, <2>11
      <4>2. \A q \in SesReqs \ {p} : Proven(q, t)' => sreq'[q].dn # sreq'[p].dn
          BY <1>b, <2>10 DEF TokenInv, ProofOK
      <4>3. ASSUME NEW q \in SesReqs, srv[t] # NoEntry, Does(q, "activate", t)', ~sreq'[q].good,
                   Rank[sreq'[q].conn] > 0, sreq'[q].dn = sreq'[p].dn
            PROVE  sreq'[q].un # srv[t].nonce
          BY <1>b, <2>10, <2>12, <4>3 DEF TokenInv, ProofOK
      <4> QED BY <1>4, <4>1, <4>2, <4>3
    <3>6. SyncOK(t)'
      <4> SUFFICES ASSUME srv[t] # NoEntry, t \notin unsure' PROVE Agreed(t)'
          BY <1>4 DEF SyncOK
      <4>1. LeftBy(r, t) /\ \A q \in SesReqs \ {r} : Does(q, "activate", t) => ~sreq[q].good
        <5>1. CASE sreq[r].alone BY <1>8, <1>a, <1>b, <5>1 DEF TokenInv, ActOK
        <5>2. CASE ~sreq[r].alone
          <6>1. t \notin unsure BY <2>4, <5>2
          <6>2. ~Agreed(t) BY <1>8, <1>a DEF Agreed
          <6>3. PICK q \in SesReqs : Pending(q, t) BY <1>8, <1>b, <6>1, <6>2 DEF TokenInv, SyncOK
          <6>4. q = r BY <1>8, <1>a, <6>3 DEF Pending
          <6> QED BY <6>3, <6>4 DEF Pending
        <5> QED BY <5>1, <5>2
      <4>2. \A q \in SesReqs : Does(q, "activate", t)' => ~sreq'[q].good BY <2>12, <4>1
      <4> QED BY <1>1, <1>4, <2>3, <2>5, <4>1, <4>2 DEF Agreed, LeftBy
    <3>7. WriteOK(t)'
      <4> SUFFICES ASSUME NEW q \in SesReqs, Does(q, "write", t)', ~sreq'[q].mixed
                   PROVE  sreq'[q].at # "sent" /\ (sreq'[q].at = "executed" => IsTrue(q, t)')
          BY DEF WriteOK
      <4>1. q # r /\ Does(q, "write", t) /\ sreq'[q] = sreq[q] BY <2>7, <2>8
      <4>2. sreq[q].at # "sent" BY <1>a, <1>b, <4>1 DEF TokenInv, WriteOK, WillBeTrue
      <4>3. sreq[q].at = "executed" => IsTrue(q, t) BY <1>b, <4>1 DEF TokenInv, WriteOK
      <4> QED BY <1>4, <4>1, <4>2, <4>3 DEF IsTrue
    <3> QED BY <3>1, <3>2, <3>3, <3>4, <3>5, <3>6, <3>7 DEF TokenInv
  <2>15. \A y \in SesTokens \ {t} : ~Used(r, y) /\ ~Used(r, y)' BY <1>1, <1>5 DEF Used
  <2>16. nonces <= nonces' /\ \A x \in SesTokens \ {t} : x \in unsure' <=> x \in unsure
      BY <1>b, <2>4
  <2> QED BY <1>3, <1>4, <1>a, <2>5, <2>6, <2>14, <2>15, <2>16, OnlyToken
<1> QED BY <1>7, <1>8

LEMMA ExecuteKeeps == ASSUME SesInv, NEW r \in SesReqs, Execute(r) PROVE SesInv'
<1>1. sreq[r].at \in {"sent", "late"} /\ UNCHANGED <<reg, ended, unsure>> BY DEF Execute
<1>2. CASE sreq[r].kind = "create" BY <1>1, <1>2, ExecuteCreateKeeps DEF Execute
<1>3. CASE sreq[r].kind = "write" BY <1>1, <1>3, ExecuteWriteKeeps DEF Execute
<1>4. CASE sreq[r].kind = "close" BY <1>1, <1>4, ExecuteCloseKeeps DEF Execute
<1>5. CASE sreq[r].kind = "activate"
  <2>1. CASE /\ srv[sreq[r].token] # NoEntry
             /\ Rank[sreq[r].conn] > 0 => sreq[r].un = srv[sreq[r].token].nonce
      BY <1>1, <1>5, <2>1, ExecuteActivateKeeps DEF Execute
  <2>2. CASE ~(/\ srv[sreq[r].token] # NoEntry
               /\ Rank[sreq[r].conn] > 0 => sreq[r].un = srv[sreq[r].token].nonce)
      BY <1>1, <1>5, <2>2, RefusedKeeps DEF Execute
  <2> QED BY <2>1, <2>2
<1> QED BY <1>2, <1>3, <1>4, <1>5 DEF Execute

LEMMA SesInvariance == SesSpec => []SesInv
<1>1. SesInit => SesInv
  <2> SUFFICES ASSUME SesInit PROVE SesInv OBVIOUS
  <2>1. SesTyped BY DEF SesInit, SesTyped, Request, Starts
  <2>2. ASSUME NEW t \in SesTokens PROVE TokenInv(t)
    <3>1. reg[t] = NoEntry /\ srv[t] = NoEntry BY DEF SesInit
    <3>2. ASSUME NEW r \in SesReqs PROVE ~Proven(r, t) /\ \A k : ~Does(r, k, t)
        BY DEF SesInit, Proven, Does, InFlight
    <3> QED BY <3>1, <3>2 DEF TokenInv, NoncesOK, CreateOK, EntryOK, ActOK, ProofOK, SyncOK, WriteOK
  <2> QED BY <2>1, <2>2 DEF SesInv
<1>2. SesInv /\ [SesNext]_sesVars => SesInv'
  <2> SUFFICES ASSUME SesInv, [SesNext]_sesVars PROVE SesInv' OBVIOUS
  <2>1. ASSUME NEW r \in SesReqs, ServerRefuses(r) PROVE SesInv'
      BY <2>1, RefusedKeeps DEF ServerRefuses
  <2>2. CASE UNCHANGED sesVars
    <3>1. UNCHANGED <<reg, srv, sreq, nonces, ended, unsure>> BY <2>2 DEF sesVars
    <3>2. SesTyped' BY <3>1 DEF SesInv, SesTyped
    <3>3. nonces' \in Nat /\ nonces <= nonces' BY <3>1 DEF SesInv, SesTyped
    <3>4. \A t \in SesTokens : TokenInv(t)' BY <3>1, <3>3, OtherToken
    <3> QED BY <3>2, <3>4 DEF SesInv
  <2> QED
    BY <2>1, <2>2, CreateSendKeeps, ActivateSendKeeps, WriteSendKeeps, CloseSendKeeps, ExecuteKeeps,
       CreateAnswerKeeps, ActivateAnswerKeeps, OverKeeps, TimeoutKeeps, ExpiresKeeps DEF SesNext
<1> QED BY <1>1, <1>2, PTL DEF SesSpec

\* Type correctness of the sessions: the registry holds users, owners and nonces that were
\* drawn, and a request is in a stage the code has.
THEOREM SessionsTyped == SesSpec => []SesTypeOK
<1>1. SesInv => SesTypeOK
  <2> SUFFICES ASSUME SesInv PROVE SesTypeOK OBVIOUS
  <2>1. ASSUME NEW t \in SesTokens, reg[t] # NoEntry
        PROVE  /\ reg[t].user \in SesUsers \cup {NoUser} /\ reg[t].owner \in Chans
               /\ reg[t].dn \in 0..nonces /\ reg[t].un \in 0..nonces
    <3>1. reg[t] \in Entry /\ nonces \in Nat BY <2>1 DEF SesInv, SesTyped
    <3>2. reg[t].dn <= nonces /\ reg[t].un <= nonces BY <2>1 DEF SesInv, TokenInv, NoncesOK
    <3> QED BY <3>1, <3>2 DEF Entry, Names
  <2>2. ASSUME NEW r \in SesReqs PROVE sreq[r].at \in {"start", "sent", "executed", "late", "done"}
    <3>1. sreq[r] \in Request BY DEF SesInv, SesTyped
    <3> QED BY <3>1 DEF Request, Flying, Creates, Activates, Writes, Closes, Proofs, Others, Starts
  <2> QED BY <2>1, <2>2 DEF SesTypeOK
<1> QED BY <1>1, SesInvariance, PTL

\* However the requests of all connections interleave, time out and are executed late, a
\* write outside an activation of its own session, on a session whose user the gateway can
\* know, is recorded under the user as whom the server executed it, or under nobody.
THEOREM RecordsNameTheUser == SesSpec => []AttributionTruthful
<1>1. SesInv => AttributionTruthful
  <2> SUFFICES ASSUME SesInv, NEW r \in SesReqs, sreq[r].at = "executed", sreq[r].kind = "write",
                      ~sreq[r].mixed
               PROVE  IsTrue(r, sreq[r].token)
      BY DEF AttributionTruthful, IsTrue
  <2>1. SesTyped /\ InFlight(r) BY DEF SesInv, InFlight
  <2>2. sreq[r].token \in SesTokens /\ Does(r, "write", sreq[r].token) BY <2>1, FlyingRequest
  <2> QED BY <2>2 DEF SesInv, TokenInv, WriteOK
<1> QED BY <1>1, SesInvariance, PTL

\* Every owner of a session proved the key of its certificate with a nonce of its own,
\* also when activations overlap.
THEOREM OwnersProvedTheirKeys == SesSpec => []OwnershipProved
<1>1. SesInv => OwnerProvedKey BY DEF SesInv, TokenInv, EntryOK, OwnerProvedKey
<1>2. SesInv => NonceProvesOnce
  <2> SUFFICES ASSUME SesInv, NEW r \in SesReqs, NEW q \in SesReqs, r # q,
                      sreq[r].at = "done", sreq[r].kind = "proof",
                      sreq[q].at = "done", sreq[q].kind = "proof", sreq[r].token = sreq[q].token
               PROVE  sreq[r].dn # sreq[q].dn
      BY DEF NonceProvesOnce
  <2>1. PICK t : t = sreq[r].token OBVIOUS
  <2>2. t \in SesTokens BY <2>1, KindOf DEF SesInv
  <2>3. Proven(r, t) /\ Proven(q, t) BY <2>1 DEF Proven
  <2> QED BY <2>2, <2>3 DEF SesInv, TokenInv, ProofOK
<1> QED BY <1>1, <1>2, SesInvariance, PTL DEF OwnershipProved
===============================================================================
