---------------------------- MODULE SettingsProofs ----------------------------
(***************************************************************************)
(* Proofs about two things users change in a running gateway, for every    *)
(* value of the constants: its own certificate and key (Pki), and the      *)
(* groups of nodes whose writes are summarised (Summarise).                *)
(***************************************************************************)
EXTENDS Pki, Summarise, TLAPS, WellFoundedInduction, FiniteSetTheorems

\* A nonempty set of natural numbers has a least element.
LEMMA LeastOfNats ==
    ASSUME NEW S \in SUBSET Nat, S # {}
    PROVE  \E x \in S : \A y \in S : x <= y
<1>1. \A x, y \in Nat : <<y, x>> \in OpToRel(<, Nat) <=> y < x
  BY DEF OpToRel
<1>2. \E R : IsWellFoundedOn(R, Nat) /\ \A x, y \in Nat : <<y, x>> \in R <=> y < x
  BY <1>1, NatLessThanWellFounded
<1>3. PICK R : IsWellFoundedOn(R, Nat) /\ \A x, y \in Nat : <<y, x>> \in R <=> y < x
  BY <1>2
<1>4. PICK x \in S : \A y \in S : ~(<<y, x>> \in R)
  BY <1>3, WFMin
<1>5. ASSUME NEW y \in S PROVE x <= y
  <2>1. ~(y < x) BY <1>3, <1>4, Zenon
  <2> QED BY <2>1
<1> QED BY <1>5

\* A nonempty set of clock readings has a newest one: Max finds it.
LEMMA NewestStamp ==
    ASSUME NEW S \in SUBSET Stamps, S # {}
    PROVE  Max(S) \in S /\ \A y \in S : y <= Max(S)
<1>1. PICK N \in Nat : S \subseteq 0 .. N
  BY PkiAssumption DEF PkiAssumption
<1> DEFINE T == {n \in Nat : N - n \in S}
<1>2. T \in SUBSET Nat /\ T # {}
  <2>1. PICK s \in S : TRUE OBVIOUS
  <2>2. N - s \in T BY <1>1
  <2> QED BY <2>2
<1>3. PICK m \in T : \A y \in T : m <= y BY <1>2, LeastOfNats
<1>4. N - m \in S /\ \A y \in S : y <= N - m
  <2>1. \A y \in S : N - y \in T BY <1>1
  <2> QED BY <1>1, <1>3, <2>1
<1>5. \E x \in S : \A y \in S : x >= y BY <1>1, <1>4
<1>6. Max(S) \in S /\ \A y \in S : Max(S) >= y BY <1>5 DEF Max
<1> QED BY <1>1, <1>6
-------------------------------------------------------------------------------
\* A request between its check and its answer, one that is copying the pair,
\* and a backup that is being written.
Active(r) == pkReq[r].pc # "idle"
Copies(r) == pkReq[r].pc \in {"copyCert", "copyKey"}
Copying(t) == \E q \in PkReqs : Copies(q) /\ pkReq[q].stamp = t

\* A backup restore_backup would take, and one that nobody is writing.
Good(t) == Readable(pkBak[t]) /\ PairMatches(pkBak[t])
Held == \E t \in Stamps : Good(t) /\ ~Copying(t)

\* The key is written before the certificate, a start writes a pair that
\* matches, and requests run in a started gateway only.
FilesInv ==
    /\ pkCert # 0 => pkKey # 0
    /\ pkUp = "on" => pkCert # 0
    /\ pkUp \in {"key", "cert"} => pkNew.cert # 0 /\ pkNew.cert = pkNew.key
    /\ pkUp = "cert" => pkKey = pkNew.key
    /\ \A r \in PkReqs : Active(r) => pkUp = "on" /\ pkReq[r].pair # 0 /\ pkReq[r].stamp \in Stamps

\* A matching backup is held whenever the pair does not match or soon may not.
HeldInv ==
    ~pkOver =>
        /\ \A q, r \in PkReqs : Active(q) /\ Active(r) /\ pkReq[q].stamp = pkReq[r].stamp => q = r
        /\ pkCert # 0 /\ ~PairMatches(Own) => Held
        /\ pkUp \in {"key", "cert"} /\ pkCert # 0 => Held
        /\ \A r \in PkReqs : pkReq[r].pc \in {"key", "cert"} => Held
        /\ \A r \in PkReqs : pkReq[r].pc = "copyKey" => Held \/ pkBak[pkReq[r].stamp].cert = pkCert

\* One request at a time, a clock that goes on, and no backup overwritten
\* while the pair was in change.
Alone == ~pkRaced /\ ~pkBack /\ ~pkOver

LastPair == [cert |-> pkLast, key |-> pkLast]

\* The newest backup that matches is the pair last installed, and nobody is
\* writing it.
Newest(t) == pkBak[t] = LastPair /\ \A u \in Stamps : Good(u) => u <= t
Kept == \E t \in Stamps : Newest(t) /\ ~Copying(t)

\* What a request r has done so far with the backup and the files.
Progress(r) ==
    LET t == pkReq[r].stamp
    IN  /\ t <= pkNow /\ \A u \in Stamps : pkBak[u] # NoPair => u <= t
        /\ pkReq[r].pc = "copyCert" => PairMatches(Own) \/ pkBak[t] = NoPair
        /\ pkReq[r].pc = "copyKey" => pkBak[t].cert = pkCert /\ (PairMatches(Own) \/ pkBak[t].key = 0)
        /\ pkReq[r].pc \in {"key", "cert"} => Kept
        /\ pkReq[r].pc = "cert" => pkKey = pkReq[r].pair
        /\ pkReq[r].pc = "restart" => PairMatches(Own)

LastInv ==
    Alone =>
        /\ \A q, r \in PkReqs : Active(q) /\ Active(r) => q = r
        /\ pkCert = pkLast
        /\ \A t \in Stamps : pkBak[t] # NoPair => t <= pkNow
        /\ pkUp = "on" /\ (\A r \in PkReqs : pkReq[r].pc # "restart") => pkUsed = LastPair
        /\ pkCert # 0 /\ ~PairMatches(Own) => Kept
        /\ pkUp \in {"key", "cert"} /\ pkCert # 0 => pkNew = LastPair /\ Kept
        /\ \A r \in PkReqs : Active(r) => Progress(r)

PkInv == PkTypeOK /\ FilesInv /\ HeldInv /\ LastInv
-------------------------------------------------------------------------------
Pairs == [cert : PairIds, key : PairIds]
PkPcs == {"idle", "copyCert", "copyKey", "key", "cert", "restart"}
PkRequests == [pc : PkPcs, pair : PairIds, stamp : Stamps \cup {0}]

\* The files, the backups and the requests keep their types.
LEMMA PkTyped == PkTypeOK /\ [PkNext]_pkVars => PkTypeOK'
<1> SUFFICES ASSUME PkTypeOK, [PkNext]_pkVars PROVE PkTypeOK' OBVIOUS
<1> USE PkiAssumption DEF PkiAssumption, PairIds
<1>0. /\ pkReq \in [PkReqs -> PkRequests] /\ pkBak \in [Stamps -> Pairs]
      /\ NoRequest \in PkRequests /\ NoPair \in Pairs /\ Own \in Pairs
  BY DEF PkTypeOK, PkRequests, PkPcs, Pairs, NoRequest, NoPair, Own
<1>1. CASE StartReady BY <1>0, <1>1 DEF StartReady, PkTypeOK, Pairs
<1>2. CASE StartCreates BY <1>2 DEF StartCreates, PkTypeOK
<1>3. CASE StartRestores
  <2> DEFINE good == {t \in DOMAIN pkBak : Readable(pkBak[t]) /\ PairMatches(pkBak[t])}
  <2>1. good \in SUBSET Stamps BY <1>0
  <2>2. pkNew' = pkBak[Max(good)] /\ good # {} BY <1>3 DEF StartRestores, Restorable
  <2>3. pkNew' \in Pairs BY <1>0, <2>1, <2>2, NewestStamp
  <2> QED BY <1>3, <2>3 DEF StartRestores, PkTypeOK, Pairs
<1>4. CASE StartWritesKey \/ StartWritesCert
  BY <1>4 DEF StartWritesKey, StartWritesCert, PkTypeOK
<1>5. ASSUME NEW r \in PkReqs, ReplaceOwn(r) PROVE PkTypeOK'
  <2>1. [pc |-> "copyCert", pair |-> pkPairs + 1, stamp |-> pkNow] \in PkRequests
    BY <1>5 DEF ReplaceOwn, PkTypeOK, PkRequests, PkPcs
  <2>2. pkReq' \in [PkReqs -> PkRequests] BY <1>0, <1>5, <2>1 DEF ReplaceOwn
  <2>3. pkRaced' \in BOOLEAN /\ pkOver' \in BOOLEAN BY <1>5 DEF ReplaceOwn
  <2>4. pkPairs' \in PairIds BY <1>5 DEF ReplaceOwn, PkTypeOK
  <2> QED BY <1>5, <2>2, <2>3, <2>4 DEF ReplaceOwn, PkTypeOK, PkRequests, PkPcs
<1>6. ASSUME NEW r \in PkReqs, BackupCert(r) \/ BackupKey(r) PROVE PkTypeOK'
  <2>1. pkReq' \in [PkReqs -> PkRequests]
    BY <1>0, <1>6 DEF BackupCert, BackupKey, PkRequests, PkPcs
  <2>2. pkBak' \in [Stamps -> Pairs]
    <3>1. CASE BackupCert(r) BY <1>0, <3>1 DEF BackupCert, Pairs, PkTypeOK
    <3>2. CASE BackupKey(r) BY <1>0, <3>2 DEF BackupKey, CopiedKey, Pairs, PkTypeOK
    <3> QED BY <1>6, <3>1, <3>2
  <2> QED BY <1>6, <2>1, <2>2 DEF BackupCert, BackupKey, PkTypeOK, PkRequests, PkPcs, Pairs
<1>7. ASSUME NEW r \in PkReqs, InstallKey(r) \/ InstallCert(r) \/ RestartRelays(r) PROVE PkTypeOK'
  <2>1. pkReq' \in [PkReqs -> PkRequests]
    BY <1>0, <1>7 DEF InstallKey, InstallCert, RestartRelays, PkRequests, PkPcs
  <2>2. pkReq[r].pair \in PairIds BY <1>0 DEF PkRequests
  <2> QED BY <1>0, <1>7, <2>1, <2>2 DEF InstallKey, InstallCert, RestartRelays, PkTypeOK, PkRequests, PkPcs, Pairs
<1>8. ASSUME NEW part PROVE Torn(part) \in [Stamps -> Pairs]
  BY <1>0 DEF Torn, Pairs
<1>9. ASSUME NEW r \in PkReqs, FileFails(r) PROVE PkTypeOK'
  <2>1. pkReq' \in [PkReqs -> PkRequests] BY <1>0, <1>9 DEF FileFails
  <2>2. pkBak' \in [Stamps -> Pairs] BY <1>8, <1>9 DEF FileFails
  <2>3. pkFaults' \in 0 .. MaxPkFaults BY <1>9 DEF FileFails, PkTypeOK
  <2> QED BY <1>9, <2>1, <2>2, <2>3 DEF FileFails, PkTypeOK, PkRequests, PkPcs, Pairs
<1>10. CASE Crash
  <2>1. pkReq' \in [PkReqs -> PkRequests] BY <1>0, <1>10 DEF Crash
  <2>2. pkBak' \in [Stamps -> Pairs] BY <1>8, <1>10 DEF Crash
  <2>3. pkFaults' \in 0 .. MaxPkFaults BY <1>10 DEF Crash, PkTypeOK
  <2> QED BY <1>0, <1>10, <2>1, <2>2, <2>3 DEF Crash, PkTypeOK, PkRequests, PkPcs, Pairs
<1>11. CASE ClockChanges BY <1>11 DEF ClockChanges, PkTypeOK
<1>12. CASE UNCHANGED pkVars BY <1>12 DEF pkVars, PkTypeOK
<1> QED BY <1>1, <1>2, <1>3, <1>4, <1>5, <1>6, <1>7, <1>9, <1>10, <1>11, <1>12 DEF PkNext

\* What a step of a request does to the requests.
LEMMA RequestMoves ==
    ASSUME PkTypeOK, NEW r \in PkReqs
    PROVE  /\ \A q \in PkReqs : pkReq[q].pc \in PkPcs
           /\ ReplaceOwn(r) => /\ pkReq'[r] = [pc |-> "copyCert", pair |-> pkPairs + 1, stamp |-> pkNow]
                               /\ \A q \in PkReqs \ {r} : pkReq'[q] = pkReq[q]
           /\ BackupCert(r) \/ BackupKey(r) \/ InstallKey(r) \/ InstallCert(r) =>
                /\ pkReq'[r].pair = pkReq[r].pair /\ pkReq'[r].stamp = pkReq[r].stamp
                /\ \A q \in PkReqs \ {r} : pkReq'[q] = pkReq[q]
           /\ BackupCert(r) => pkReq[r].pc = "copyCert" /\ pkReq'[r].pc = "copyKey"
           /\ BackupKey(r) => pkReq[r].pc = "copyKey" /\ pkReq'[r].pc = "key"
           /\ InstallKey(r) => pkReq[r].pc = "key" /\ pkReq'[r].pc = "cert"
           /\ InstallCert(r) => pkReq[r].pc = "cert" /\ pkReq'[r].pc = "restart"
           /\ RestartRelays(r) \/ FileFails(r) =>
                /\ pkReq[r].pc # "idle" /\ pkReq'[r].pc = "idle"
                /\ \A q \in PkReqs \ {r} : pkReq'[q] = pkReq[q]
           /\ Crash => \A q \in PkReqs : pkReq'[q].pc = "idle"
<1>1. pkReq \in [PkReqs -> PkRequests] BY DEF PkTypeOK, PkRequests, PkPcs
<1>2. \A q \in PkReqs : pkReq[q].pc \in PkPcs BY <1>1 DEF PkRequests
<1>3. ReplaceOwn(r) => /\ pkReq'[r] = [pc |-> "copyCert", pair |-> pkPairs + 1, stamp |-> pkNow]
                       /\ \A q \in PkReqs \ {r} : pkReq'[q] = pkReq[q]
  BY <1>1 DEF ReplaceOwn
<1>4. ASSUME NEW p, pkReq' = [pkReq EXCEPT ![r].pc = p]
      PROVE  /\ pkReq'[r].pc = p /\ pkReq'[r].pair = pkReq[r].pair /\ pkReq'[r].stamp = pkReq[r].stamp
             /\ \A q \in PkReqs \ {r} : pkReq'[q] = pkReq[q]
  BY <1>1, <1>4 DEF PkRequests
<1>5. BackupCert(r) => pkReq[r].pc = "copyCert" /\ pkReq' = [pkReq EXCEPT ![r].pc = "copyKey"]
  BY DEF BackupCert
<1>6. BackupKey(r) => pkReq[r].pc = "copyKey" /\ pkReq' = [pkReq EXCEPT ![r].pc = "key"]
  BY DEF BackupKey
<1>7. InstallKey(r) => pkReq[r].pc = "key" /\ pkReq' = [pkReq EXCEPT ![r].pc = "cert"]
  BY DEF InstallKey
<1>8. InstallCert(r) => pkReq[r].pc = "cert" /\ pkReq' = [pkReq EXCEPT ![r].pc = "restart"]
  BY DEF InstallCert
<1>9. RestartRelays(r) \/ FileFails(r) =>
        /\ pkReq[r].pc # "idle" /\ pkReq'[r].pc = "idle"
        /\ \A q \in PkReqs \ {r} : pkReq'[q] = pkReq[q]
  BY <1>1 DEF RestartRelays, FileFails, NoRequest
<1>10. Crash => \A q \in PkReqs : pkReq'[q].pc = "idle" BY DEF Crash, NoRequest
<1> QED BY <1>2, <1>3, <1>4, <1>5, <1>6, <1>7, <1>8, <1>9, <1>10

\* A torn copy harms only backups that are being written, and makes no backup.
LEMMA TornFacts ==
    ASSUME PkTypeOK, NEW part \in SUBSET PkReqs, NEW t \in Stamps
    PROVE  /\ ~Copying(t) => Torn(part)[t] = pkBak[t]
           /\ Torn(part)[t].cert \in {0, pkBak[t].cert}
           /\ Torn(part)[t].key \in {0, pkBak[t].key}
<1>1. pkBak[t] \in Pairs BY DEF PkTypeOK, Pairs
<1>2. pkBak[t] = [cert |-> pkBak[t].cert, key |-> pkBak[t].key] BY <1>1 DEF Pairs
<1> QED BY <1>2 DEF Torn, Copying, Copies

\* What each step does to the backups.
LEMMA BackupSteps ==
    ASSUME PkTypeOK, FilesInv, [PkNext]_pkVars
    PROVE  \/ UNCHANGED pkBak
           \/ \E r \in PkReqs : BackupCert(r)
           \/ \E r \in PkReqs : BackupKey(r)
           \/ \E part \in SUBSET PkReqs : pkBak' = Torn(part)
<1>1. ASSUME NEW r \in PkReqs, ReplaceOwn(r) \/ InstallKey(r) \/ InstallCert(r) \/ RestartRelays(r)
      PROVE  UNCHANGED pkBak
  BY <1>1 DEF ReplaceOwn, InstallKey, InstallCert, RestartRelays
<1>2. ASSUME NEW r \in PkReqs, FileFails(r) PROVE \E part \in SUBSET PkReqs : pkBak' = Torn(part)
  BY <1>2 DEF FileFails
<1>3. CASE Crash BY <1>3 DEF Crash
<1>4. CASE StartReady \/ StartCreates \/ StartRestores \/ StartWritesKey \/ StartWritesCert
           \/ ClockChanges \/ UNCHANGED pkVars
  BY <1>4 DEF StartReady, StartCreates, StartRestores, StartWritesKey, StartWritesCert, ClockChanges, pkVars
<1> QED BY <1>1, <1>2, <1>3, <1>4 DEF PkNext

\* Nobody but a new request begins to write a backup.
LEMMA CopyingSteps ==
    ASSUME PkTypeOK, [PkNext]_pkVars, NEW t, ~Copying(t)
    PROVE  \/ ~Copying(t)'
           \/ t = pkNow /\ \E r \in PkReqs : ReplaceOwn(r)
<1> SUFFICES ASSUME NEW q \in PkReqs, Copies(q)', pkReq'[q].stamp = t
             PROVE  t = pkNow /\ \E r \in PkReqs : ReplaceOwn(r)
  BY DEF Copying
<1>1. CASE pkReq'[q] = pkReq[q] BY <1>1 DEF Copying, Copies
<1>2. ASSUME NEW r \in PkReqs, ReplaceOwn(r) PROVE t = pkNow \/ pkReq'[q] = pkReq[q]
  <2>1. CASE q = r BY <1>2, <2>1, RequestMoves
  <2>2. CASE q # r BY <1>2, <2>2, RequestMoves
  <2> QED BY <2>1, <2>2
<1>3. ASSUME NEW r \in PkReqs, BackupCert(r) \/ BackupKey(r) \/ InstallKey(r) \/ InstallCert(r)
                                 \/ RestartRelays(r) \/ FileFails(r)
      PROVE  FALSE
  <2>1. CASE q # r BY <1>1, <1>3, <2>1, RequestMoves DEF Copying, Copies
  <2>2. CASE q = r /\ BackupCert(r) BY <2>2, RequestMoves DEF Copying, Copies
  <2>3. CASE q = r /\ ~BackupCert(r) BY <1>3, <2>3, RequestMoves DEF Copies
  <2> QED BY <2>1, <2>2, <2>3
<1>4. CASE Crash BY <1>4, RequestMoves DEF Copies
<1>5. CASE StartReady \/ StartCreates \/ StartRestores \/ StartWritesKey \/ StartWritesCert
           \/ ClockChanges \/ UNCHANGED pkVars
  BY <1>1, <1>5
     DEF StartReady, StartCreates, StartRestores, StartWritesKey, StartWritesCert, ClockChanges, pkVars
<1> QED BY <1>1, <1>2, <1>3, <1>4, <1>5 DEF PkNext

\* A backup that nobody writes stays what it is.
LEMMA BackupStays ==
    ASSUME PkTypeOK, FilesInv, [PkNext]_pkVars, NEW t \in Stamps, ~Copying(t)
    PROVE  pkBak'[t] = pkBak[t]
<1>0. pkBak \in [Stamps -> Pairs] BY DEF PkTypeOK, Pairs
<1>1. ASSUME NEW r \in PkReqs, BackupCert(r) \/ BackupKey(r) PROVE pkBak'[t] = pkBak[t]
  <2>1. pkReq[r].stamp # t BY <1>1 DEF BackupCert, BackupKey, Copying, Copies
  <2> QED BY <1>0, <1>1, <2>1 DEF BackupCert, BackupKey, CopiedKey
<1>2. ASSUME NEW part \in SUBSET PkReqs, pkBak' = Torn(part) PROVE pkBak'[t] = pkBak[t]
  BY <1>2, TornFacts
<1> QED BY <1>1, <1>2, BackupSteps

\* A matching backup that is held stays held, unless a new request takes its name.
LEMMA HeldStays ==
    ASSUME PkTypeOK, FilesInv, [PkNext]_pkVars, Held,
           \A r \in PkReqs : ~ReplaceOwn(r)
    PROVE  Held'
<1>1. PICK t \in Stamps : Good(t) /\ ~Copying(t) BY DEF Held
<1>2. pkBak'[t] = pkBak[t] BY <1>1, BackupStays
<1>3. ~Copying(t)' BY <1>1, CopyingSteps
<1>4. Good(t)' BY <1>1, <1>2 DEF Good
<1> QED BY <1>3, <1>4 DEF Held

\* restore_backup takes a pair that matches, and the newest of them.
LEMMA RestoredMatches ==
    ASSUME PkTypeOK, NEW pair \in Restorable(pkBak)
    PROVE  /\ pair.cert # 0 /\ pair.cert = pair.key
           /\ \E t \in Stamps : pair = pkBak[t] /\ Good(t) /\ \A u \in Stamps : Good(u) => u <= t
<1> DEFINE good == {t \in DOMAIN pkBak : Readable(pkBak[t]) /\ PairMatches(pkBak[t])}
<1>1. DOMAIN pkBak = Stamps BY DEF PkTypeOK
<1>2. good # {} /\ pair = pkBak[Max(good)] BY DEF Restorable
<1>3. good \in SUBSET Stamps BY <1>1
<1>4. Max(good) \in good /\ \A y \in good : y <= Max(good) BY <1>2, <1>3, NewestStamp
<1>5. \A u \in Stamps : Good(u) <=> u \in good BY <1>1 DEF Good
<1> QED BY <1>2, <1>3, <1>4, <1>5 DEF Good, Readable, PairMatches

\* Every step keeps the order in which the files are written.
LEMMA FilesKept ==
    ASSUME PkTypeOK, FilesInv, [PkNext]_pkVars
    PROVE  FilesInv'
<1> USE PkiAssumption DEF PkiAssumption, PairIds
<1>0. ASSUME UNCHANGED pkReq, UNCHANGED pkUp \/ \A q \in PkReqs : ~Active(q)
      PROVE  \A q \in PkReqs : Active(q)' =>
                pkUp' = "on" /\ pkReq'[q].pair # 0 /\ pkReq'[q].stamp \in Stamps
  BY <1>0 DEF FilesInv, Active
<1>1. pkUp # "on" => \A q \in PkReqs : ~Active(q) BY DEF FilesInv
<1>2. CASE StartReady
  BY <1>0, <1>1, <1>2 DEF StartReady, FilesInv, Readable, Own
<1>3. CASE StartCreates
  <2>1. pkPairs + 1 # 0 BY DEF PkTypeOK
  <2> QED BY <1>0, <1>1, <1>3, <2>1 DEF StartCreates, FilesInv
<1>4. CASE StartRestores
  <2>1. pkNew' \in Restorable(pkBak) /\ pkUp' = "key" /\ pkUp = "off"
        /\ UNCHANGED <<pkCert, pkKey, pkReq>>
    BY <1>4 DEF StartRestores
  <2>2. pkNew'.cert # 0 /\ pkNew'.cert = pkNew'.key BY <2>1, RestoredMatches
  <2> QED BY <1>0, <1>1, <2>1, <2>2 DEF FilesInv
<1>5. CASE StartWritesKey
  <2>1. pkUp = "key" /\ pkUp' = "cert" /\ pkKey' = pkNew.key /\ UNCHANGED <<pkCert, pkNew, pkReq>>
    BY <1>5 DEF StartWritesKey
  <2> QED BY <1>0, <1>1, <2>1 DEF FilesInv
<1>6. CASE StartWritesCert
  <2>1. pkUp = "cert" /\ pkUp' = "on" /\ pkCert' = pkNew.cert /\ UNCHANGED <<pkKey, pkNew, pkReq>>
    BY <1>6 DEF StartWritesCert
  <2> QED BY <1>0, <1>1, <2>1 DEF FilesInv
<1>7. ASSUME NEW r \in PkReqs, ReplaceOwn(r) PROVE FilesInv'
  <2>1. pkUp = "on" /\ UNCHANGED <<pkCert, pkKey, pkUp, pkNew>> BY <1>7 DEF ReplaceOwn
  <2>2. pkPairs + 1 # 0 /\ pkNow \in Stamps BY DEF PkTypeOK
  <2>3. ASSUME NEW q \in PkReqs, Active(q)' PROVE pkReq'[q].pair # 0 /\ pkReq'[q].stamp \in Stamps
    <3>1. CASE q = r BY <1>7, <2>2, <3>1, RequestMoves
    <3>2. CASE q # r BY <1>7, <2>3, <3>2, RequestMoves DEF FilesInv, Active
    <3> QED BY <3>1, <3>2
  <2> QED BY <2>1, <2>3 DEF FilesInv
<1>8. ASSUME NEW r \in PkReqs, BackupCert(r) \/ BackupKey(r) \/ InstallKey(r) \/ InstallCert(r)
                                 \/ RestartRelays(r) \/ FileFails(r)
      PROVE  FilesInv'
  <2>1. UNCHANGED <<pkUp, pkNew>> /\ Active(r)
    BY <1>8, RequestMoves
       DEF BackupCert, BackupKey, InstallKey, InstallCert, RestartRelays, FileFails, Active
  <2>2. pkUp = "on" /\ pkCert # 0 /\ pkKey # 0 /\ pkReq[r].pair # 0 BY <2>1 DEF FilesInv
  <2>3. pkCert' \in {pkCert, pkReq[r].pair} /\ pkKey' \in {pkKey, pkReq[r].pair}
    BY <1>8 DEF BackupCert, BackupKey, InstallKey, InstallCert, RestartRelays, FileFails
  <2>4. ASSUME NEW q \in PkReqs, Active(q)' PROVE pkReq'[q].pair # 0 /\ pkReq'[q].stamp \in Stamps
    <3>1. CASE q = r BY <1>8, <2>1, <2>4, <3>1, RequestMoves DEF FilesInv, Active
    <3>2. CASE q # r BY <1>8, <2>4, <3>2, RequestMoves DEF FilesInv, Active
    <3> QED BY <3>1, <3>2
  <2> QED BY <2>1, <2>2, <2>3, <2>4 DEF FilesInv
<1>9. CASE Crash
  <2>1. \A q \in PkReqs : ~Active(q)' BY <1>9, RequestMoves DEF Active
  <2> QED BY <1>9, <2>1 DEF Crash, FilesInv
<1>10. CASE ClockChanges BY <1>0, <1>10 DEF ClockChanges, FilesInv
<1>11. CASE UNCHANGED pkVars BY <1>0, <1>11 DEF pkVars, FilesInv
<1> QED BY <1>2, <1>3, <1>4, <1>5, <1>6, <1>7, <1>8, <1>9, <1>10, <1>11 DEF PkNext

\* Once a backup was overwritten while the pair was in change, it stays said.
LEMMA OverStays ==
    ASSUME [PkNext]_pkVars, ~pkOver'
    PROVE  ~pkOver
<1>1. ASSUME NEW r \in PkReqs, ReplaceOwn(r) PROVE ~pkOver BY <1>1 DEF ReplaceOwn
<1>2. ASSUME NEW r \in PkReqs, BackupCert(r) \/ BackupKey(r) \/ InstallKey(r) \/ InstallCert(r)
                                 \/ RestartRelays(r) \/ FileFails(r)
      PROVE  ~pkOver
  BY <1>2 DEF BackupCert, BackupKey, InstallKey, InstallCert, RestartRelays, FileFails
<1>3. CASE StartReady \/ StartCreates \/ StartRestores \/ StartWritesKey \/ StartWritesCert
           \/ Crash \/ ClockChanges \/ UNCHANGED pkVars
  BY <1>3
     DEF StartReady, StartCreates, StartRestores, StartWritesKey, StartWritesCert, Crash, ClockChanges, pkVars
<1> QED BY <1>1, <1>2, <1>3 DEF PkNext

\* A new request finds the pair matching and nobody at work, or takes a name
\* that no backup has.
LEMMA NewRequest ==
    ASSUME PkTypeOK, NEW r \in PkReqs, ReplaceOwn(r), ~pkOver'
    PROVE  /\ ~Active(r) /\ pkUp = "on"
           /\ \/ PairMatches(Own) /\ \A q \in PkReqs : ~Active(q)
              \/ pkBak[pkNow] = NoPair /\ \A q \in PkReqs : Active(q) => pkReq[q].stamp # pkNow
           /\ UNCHANGED <<pkCert, pkKey, pkBak, pkNow, pkUp, pkNew, pkUsed, pkLast, pkBack>>
  BY DEF ReplaceOwn, Active

\* Every step keeps a matching backup while one is needed.
LEMMA HeldKept ==
    ASSUME PkTypeOK, FilesInv, HeldInv, [PkNext]_pkVars
    PROVE  HeldInv'
<1> SUFFICES ASSUME ~pkOver' PROVE HeldInv' BY DEF HeldInv
<1> USE PkiAssumption DEF PkiAssumption
<1>0. ~pkOver BY OverStays
<1>1. /\ \A q, r \in PkReqs : Active(q) /\ Active(r) /\ pkReq[q].stamp = pkReq[r].stamp => q = r
      /\ pkCert # 0 /\ ~PairMatches(Own) => Held
      /\ pkUp \in {"key", "cert"} /\ pkCert # 0 => Held
      /\ \A r \in PkReqs : pkReq[r].pc \in {"key", "cert"} => Held
      /\ \A r \in PkReqs : pkReq[r].pc = "copyKey" => Held \/ pkBak[pkReq[r].stamp].cert = pkCert
  BY <1>0 DEF HeldInv
<1>2. pkUp # "on" => \A q \in PkReqs : ~Active(q) BY DEF FilesInv
<1>3. pkBak \in [Stamps -> Pairs] /\ pkReq \in [PkReqs -> PkRequests]
  BY DEF PkTypeOK, Pairs, PkRequests, PkPcs
<1>4. ASSUME NEW r \in PkReqs, ReplaceOwn(r) PROVE HeldInv'
  <2>1. /\ ~Active(r) /\ pkUp = "on"
        /\ \/ PairMatches(Own) /\ \A q \in PkReqs : ~Active(q)
           \/ pkBak[pkNow] = NoPair /\ \A q \in PkReqs : Active(q) => pkReq[q].stamp # pkNow
        /\ UNCHANGED <<pkCert, pkKey, pkBak, pkUp>>
    BY <1>4, NewRequest
  <2>2. /\ pkReq'[r].pc = "copyCert" /\ pkReq'[r].stamp = pkNow
        /\ \A q \in PkReqs \ {r} : pkReq'[q] = pkReq[q]
    BY <1>4, RequestMoves
  <2>3. Own' = Own BY <2>1 DEF Own
  <2>4. CASE PairMatches(Own) /\ \A q \in PkReqs : ~Active(q)
    <3>1. \A q \in PkReqs : Active(q)' => q = r BY <2>2, <2>4 DEF Active
    <3>2. \A q \in PkReqs : pkReq'[q].pc \notin {"key", "cert", "copyKey"}
      BY <2>2, <3>1 DEF Active
    <3>3. PairMatches(Own') BY <2>3, <2>4
    <3> QED BY <2>1, <3>1, <3>2, <3>3 DEF HeldInv
  <2>5. CASE pkBak[pkNow] = NoPair /\ \A q \in PkReqs : Active(q) => pkReq[q].stamp # pkNow
    <3>1. Held => Held'
      <4> SUFFICES ASSUME NEW t \in Stamps, Good(t), ~Copying(t) PROVE Held' BY DEF Held
      <4>1. t # pkNow BY <2>5 DEF Good, Readable, NoPair
      <4>2. ~Copying(t)' BY <4>1, CopyingSteps
      <4>3. Good(t)' BY <2>1 DEF Good
      <4> QED BY <4>2, <4>3 DEF Held
    <3>2. ASSUME NEW q \in PkReqs, NEW p \in PkReqs, Active(q)', Active(p)',
                 pkReq'[q].stamp = pkReq'[p].stamp
          PROVE  q = p
      BY <1>1, <2>2, <2>5, <3>2 DEF Active
    <3>3. \A q \in PkReqs : pkReq'[q].pc \in {"key", "cert"} => Held' BY <1>1, <2>2, <3>1
    <3>4. \A q \in PkReqs : pkReq'[q].pc = "copyKey" => Held' \/ pkBak'[pkReq'[q].stamp].cert = pkCert'
      BY <1>1, <2>1, <2>2, <3>1
    <3>5. pkCert' # 0 /\ ~PairMatches(Own') => Held' BY <1>1, <2>1, <2>3, <3>1
    <3> QED BY <2>1, <3>2, <3>3, <3>4, <3>5 DEF HeldInv
  <2> QED BY <2>1, <2>4, <2>5
<1>5. ASSUME NEW r \in PkReqs, BackupCert(r) \/ BackupKey(r) \/ InstallKey(r) \/ InstallCert(r)
                                 \/ RestartRelays(r) \/ FileFails(r)
      PROVE  /\ \A q, p \in PkReqs : Active(q)' /\ Active(p)' /\ pkReq'[q].stamp = pkReq'[p].stamp => q = p
             /\ pkUp = "on" /\ pkUp' = "on"
             /\ Active(r) /\ pkReq[r].stamp \in Stamps
  <2>1. Active(r) /\ UNCHANGED pkUp
    BY <1>5, RequestMoves
       DEF BackupCert, BackupKey, InstallKey, InstallCert, RestartRelays, FileFails, Active
  <2>2. \A q \in PkReqs : Active(q)' => Active(q) /\ pkReq'[q].stamp = pkReq[q].stamp
    <3> SUFFICES ASSUME NEW q \in PkReqs, Active(q)' PROVE Active(q) /\ pkReq'[q].stamp = pkReq[q].stamp
      OBVIOUS
    <3>1. CASE q = r BY <1>5, <2>1, <3>1, RequestMoves DEF Active
    <3>2. CASE q # r BY <1>5, <3>2, RequestMoves DEF Active
    <3> QED BY <3>1, <3>2
  <2> QED BY <1>1, <2>1, <2>2 DEF FilesInv
<1>6. ASSUME \A r \in PkReqs : ~ReplaceOwn(r) PROVE Held => Held'
  BY <1>6, HeldStays
<1>7. ASSUME NEW r \in PkReqs, BackupCert(r) PROVE HeldInv'
  <2> DEFINE t == pkReq[r].stamp
  <2>1. t \in Stamps /\ pkUp' = "on" BY <1>5, <1>7
  <2>2. pkBak'[t].cert = pkCert BY <1>3, <1>7, <2>1 DEF BackupCert, Pairs
  <2>3. \A u \in Stamps \ {t} : pkBak'[u] = pkBak[u] BY <1>3, <1>7 DEF BackupCert
  <2>4. UNCHANGED <<pkCert, pkKey>> BY <1>7 DEF BackupCert
  <2>5. Own' = Own BY <2>4 DEF Own
  <2>6. Held => Held'
    <3>1. pkPairs \in Int /\ pkPairs' = pkPairs BY <1>7 DEF PkTypeOK, PairIds, BackupCert
    <3>2. \A q \in PkReqs : ~ReplaceOwn(q) BY <3>1 DEF ReplaceOwn
    <3> QED BY <1>6, <3>2
  <2>7. ASSUME NEW q \in PkReqs, pkReq'[q].pc = "copyKey"
        PROVE  Held' \/ pkBak'[pkReq'[q].stamp].cert = pkCert'
    <3>1. CASE q = r BY <1>7, <2>2, <2>4, <3>1, RequestMoves
    <3>2. CASE q # r
      <4>1. pkReq'[q] = pkReq[q] BY <1>7, <3>2, RequestMoves
      <4>2. Active(q) BY <2>7, <4>1 DEF Active
      <4>3. pkReq[q].stamp \in Stamps \ {t} BY <1>1, <1>5, <1>7, <3>2, <4>2 DEF FilesInv
      <4> QED BY <1>1, <2>3, <2>4, <2>6, <2>7, <4>1, <4>3
    <3> QED BY <3>1, <3>2
  <2>8. \A q \in PkReqs : pkReq'[q].pc \in {"key", "cert"} => Held'
    <3> SUFFICES ASSUME NEW q \in PkReqs, pkReq'[q].pc \in {"key", "cert"} PROVE Held' OBVIOUS
    <3>1. q # r BY <1>7, RequestMoves
    <3>2. pkReq'[q] = pkReq[q] BY <1>7, <3>1, RequestMoves
    <3> QED BY <1>1, <2>6, <3>2
  <2>9. pkCert' # 0 /\ ~PairMatches(Own') => Held' BY <1>1, <2>4, <2>5, <2>6
  <2> QED BY <1>5, <1>7, <2>1, <2>7, <2>8, <2>9 DEF HeldInv
<1>8. ASSUME NEW r \in PkReqs, BackupKey(r) PROVE HeldInv'
  <2>0. PICK t : t = pkReq[r].stamp OBVIOUS
  <2>1. t \in Stamps /\ pkUp = "on" /\ pkUp' = "on" BY <1>5, <1>8, <2>0
  <2>2. pkCert # 0 /\ pkKey # 0 BY <2>1 DEF FilesInv
  <2>3. Held'
    <3>1. CASE Held
      <4>1. pkPairs \in Int /\ pkPairs' = pkPairs BY <1>8 DEF PkTypeOK, PairIds, BackupKey
      <4>2. \A q \in PkReqs : ~ReplaceOwn(q) BY <4>1 DEF ReplaceOwn
      <4> QED BY <1>6, <3>1, <4>2
    <3>2. CASE ~Held
      <4>1. pkCert = pkKey BY <1>1, <2>2, <3>2 DEF PairMatches, Own
      <4>2. pkBak[t].cert = pkCert BY <1>1, <1>8, <2>0, <3>2 DEF BackupKey
      <4>3. pkBak'[t].cert = pkCert /\ pkBak'[t].key = pkKey
        BY <1>3, <1>8, <2>0, <2>1, <2>2, <4>2 DEF BackupKey, CopiedKey, Pairs
      <4>4. Good(t)' BY <2>2, <4>1, <4>3 DEF Good, Readable, PairMatches
      <4>5. ~Copying(t)'
        <5> SUFFICES ASSUME NEW q \in PkReqs, Copies(q)', pkReq'[q].stamp = t PROVE FALSE
          BY DEF Copying
        <5>1. q # r BY <1>8, RequestMoves DEF Copies
        <5>2. pkReq'[q] = pkReq[q] BY <1>8, <5>1, RequestMoves
        <5>3. Active(q) /\ Active(r) BY <1>8, <5>2, RequestMoves DEF Copies, Active
        <5> QED BY <1>1, <2>0, <5>1, <5>2, <5>3
      <4> QED BY <2>1, <4>4, <4>5 DEF Held
    <3> QED BY <3>1, <3>2
  <2> QED BY <1>5, <1>8, <2>1, <2>3 DEF HeldInv
<1>9. ASSUME NEW r \in PkReqs, InstallKey(r) \/ InstallCert(r) PROVE HeldInv'
  <2>1. Held BY <1>1, <1>9, RequestMoves
  <2>2. \A q \in PkReqs : ~ReplaceOwn(q)
    <3>1. pkPairs \in Int BY DEF PkTypeOK, PairIds
    <3>2. pkPairs' = pkPairs BY <1>9 DEF InstallKey, InstallCert
    <3> QED BY <3>1, <3>2 DEF ReplaceOwn
  <2>3. Held' BY <1>6, <2>1, <2>2
  <2> QED BY <1>5, <1>9, <2>3 DEF HeldInv
<1>10. ASSUME NEW r \in PkReqs, RestartRelays(r) \/ FileFails(r) PROVE HeldInv'
  <2>1. UNCHANGED <<pkCert, pkKey, pkPairs>> /\ pkUp' = "on" BY <1>5, <1>10 DEF RestartRelays, FileFails
  <2>2. Own' = Own BY <2>1 DEF Own
  <2>3. \A q \in PkReqs : ~ReplaceOwn(q)
    <3>1. pkPairs \in Int BY DEF PkTypeOK, PairIds
    <3> QED BY <2>1, <3>1 DEF ReplaceOwn
  <2>4. Held => Held' BY <1>6, <2>3
  <2>5. \A u \in Stamps \ {pkReq[r].stamp} : pkBak'[u].cert = pkBak[u].cert
    <3>1. CASE RestartRelays(r) BY <3>1 DEF RestartRelays
    <3>2. CASE FileFails(r)
      <4>1. PICK part \in SUBSET {r} : pkBak' = Torn(part) BY <3>2 DEF FileFails
      <4> QED BY <4>1 DEF Torn
    <3> QED BY <1>10, <3>1, <3>2
  <2>6. ASSUME NEW q \in PkReqs, Active(q)' PROVE q # r /\ pkReq'[q] = pkReq[q] /\ Active(q)
    BY <1>10, <2>6, RequestMoves DEF Active
  <2>7. ASSUME NEW q \in PkReqs, pkReq'[q].pc = "copyKey"
        PROVE  Held' \/ pkBak'[pkReq'[q].stamp].cert = pkCert'
    <3>1. Active(q)' BY <2>7 DEF Active
    <3>2. q # r /\ pkReq'[q] = pkReq[q] /\ Active(q) BY <2>6, <3>1
    <3>3. pkReq[q].stamp \in Stamps \ {pkReq[r].stamp} BY <1>1, <1>5, <1>10, <3>2 DEF FilesInv
    <3> QED BY <1>1, <2>1, <2>4, <2>5, <2>7, <3>2, <3>3
  <2>8. ASSUME NEW q \in PkReqs, pkReq'[q].pc \in {"key", "cert"} PROVE Held'
    <3>1. Active(q)' BY <2>8 DEF Active
    <3> QED BY <1>1, <2>4, <2>6, <2>8, <3>1
  <2>9. pkCert' # 0 /\ ~PairMatches(Own') => Held' BY <1>1, <2>1, <2>2, <2>4
  <2> QED BY <1>5, <1>10, <2>1, <2>7, <2>8, <2>9 DEF HeldInv
<1>11. CASE Crash
  <2>1. \A q \in PkReqs : pkReq'[q].pc = "idle" BY <1>11, RequestMoves
  <2>2. pkUp' = "off" /\ UNCHANGED <<pkCert, pkKey, pkPairs>> BY <1>11 DEF Crash
  <2>3. \A q \in PkReqs : ~ReplaceOwn(q)
    <3>1. pkPairs \in Int BY DEF PkTypeOK, PairIds
    <3> QED BY <2>2, <3>1 DEF ReplaceOwn
  <2>4. Held => Held' BY <1>6, <2>3
  <2>5. pkCert' # 0 /\ ~PairMatches(Own') => Held' BY <1>1, <2>2, <2>4 DEF Own
  <2>6. \A q \in PkReqs : ~Active(q)' BY <2>1 DEF Active
  <2> QED BY <2>1, <2>2, <2>5, <2>6 DEF HeldInv
<1>12. ASSUME UNCHANGED <<pkReq, pkBak, pkCert>>,
              pkCert' # 0 /\ ~PairMatches(Own') => Held,
              pkUp' \in {"key", "cert"} /\ pkCert' # 0 => Held
       PROVE  HeldInv'
  <2>1. Held => Held' BY <1>12 DEF Held, Good, Copying, Copies
  <2>2. \A q \in PkReqs : Active(q)' <=> Active(q) BY <1>12 DEF Active
  <2> QED BY <1>1, <1>12, <2>1, <2>2 DEF HeldInv
<1>13. CASE StartReady \/ StartCreates \/ StartRestores \/ ClockChanges \/ UNCHANGED pkVars
  <2>1. UNCHANGED <<pkReq, pkBak, pkCert, pkKey>>
    BY <1>13 DEF StartReady, StartCreates, StartRestores, ClockChanges, pkVars
  <2>2. pkCert' # 0 /\ ~PairMatches(Own') => Held BY <1>1, <2>1 DEF Own
  <2>3. pkUp' \in {"key", "cert"} /\ pkCert' # 0 => Held
    <3>1. CASE StartReady BY <3>1 DEF StartReady
    <3>2. CASE StartCreates BY <3>2 DEF StartCreates, Readable, Own, FilesInv
    <3>3. CASE StartRestores BY <1>1, <3>3 DEF StartRestores, Readable, Own
    <3>4. CASE ClockChanges \/ UNCHANGED pkVars BY <1>1, <3>4 DEF ClockChanges, pkVars
    <3> QED BY <1>13, <3>1, <3>2, <3>3, <3>4
  <2> QED BY <1>12, <2>1, <2>2, <2>3
<1>14. CASE StartWritesKey
  <2>1. UNCHANGED <<pkReq, pkBak, pkCert>> /\ pkUp = "key" BY <1>14 DEF StartWritesKey
  <2>2. pkCert # 0 => Held BY <1>1, <2>1
  <2> QED BY <1>12, <2>1, <2>2
<1>15. CASE StartWritesCert
  <2>1. pkUp = "cert" /\ pkUp' = "on" /\ UNCHANGED <<pkReq, pkBak, pkKey>> /\ pkCert' = pkNew.cert
    BY <1>15 DEF StartWritesCert
  <2>2. PairMatches(Own') BY <2>1 DEF FilesInv, PairMatches, Own
  <2>3. \A q \in PkReqs : ~Active(q)' /\ pkReq'[q].pc = "idle" BY <1>2, <2>1 DEF Active
  <2> QED BY <2>1, <2>2, <2>3 DEF HeldInv
<1> QED BY <1>4, <1>7, <1>8, <1>9, <1>10, <1>11, <1>13, <1>14, <1>15 DEF PkNext
-------------------------------------------------------------------------------
\* Requests at once, a clock that went back, an overwritten backup: what
\* happened stays said, and the clock only goes on while none of it did.
LEMMA AloneStays ==
    ASSUME PkTypeOK, [PkNext]_pkVars, Alone'
    PROVE  /\ Alone /\ pkNow <= pkNow'
           /\ \A r \in PkReqs : ReplaceOwn(r) => \A q \in PkReqs : ~Active(q)
<1> USE PkiAssumption DEF PkiAssumption
<1>0. pkNow \in Nat BY DEF PkTypeOK
<1>1. ASSUME NEW r \in PkReqs, ReplaceOwn(r)
      PROVE  Alone /\ pkNow' = pkNow /\ \A q \in PkReqs : ~Active(q)
  BY <1>1 DEF ReplaceOwn, Alone, Active
<1>2. ASSUME NEW r \in PkReqs, BackupCert(r) \/ BackupKey(r) \/ InstallKey(r) \/ InstallCert(r)
                                 \/ RestartRelays(r) \/ FileFails(r)
      PROVE  Alone /\ pkNow' = pkNow
  BY <1>2 DEF BackupCert, BackupKey, InstallKey, InstallCert, RestartRelays, FileFails, Alone
<1>3. CASE StartReady \/ StartCreates \/ StartRestores \/ StartWritesKey \/ StartWritesCert
           \/ Crash \/ UNCHANGED pkVars
  <2>1. Alone /\ pkNow' = pkNow
    BY <1>3
       DEF StartReady, StartCreates, StartRestores, StartWritesKey, StartWritesCert, Crash, pkVars, Alone
  <2> QED BY <1>0, <1>1, <2>1
<1>4. CASE ClockChanges
  <2>1. PICK t \in Stamps \ {pkNow} : pkNow' = t /\ pkBack' = (pkBack \/ t < pkNow)
    BY <1>4 DEF ClockChanges
  <2>2. Alone /\ ~(t < pkNow) BY <1>4, <2>1 DEF ClockChanges, Alone
  <2>3. pkNow <= t BY <1>0, <2>1, <2>2
  <2> QED BY <1>1, <2>1, <2>2, <2>3
<1> QED BY <1>0, <1>1, <1>2, <1>3, <1>4 DEF PkNext

\* The newest backup that matches stays the pair last installed.
LEMMA KeptStays ==
    ASSUME PkTypeOK, FilesInv, [PkNext]_pkVars, Kept, pkLast' = pkLast,
           \A r \in PkReqs : ~ReplaceOwn(r),
           \A u \in Stamps : Good(u)' => Good(u)
    PROVE  Kept'
<1>1. PICK t \in Stamps : Newest(t) /\ ~Copying(t) BY DEF Kept
<1>2. pkBak'[t] = pkBak[t] BY <1>1, BackupStays
<1>3. ~Copying(t)' BY <1>1, CopyingSteps
<1>4. Newest(t)'
  <2>1. pkBak'[t] = LastPair' BY <1>1, <1>2 DEF Newest, LastPair
  <2>2. \A u \in Stamps : Good(u)' => u <= t BY <1>1 DEF Newest
  <2> QED BY <2>1, <2>2 DEF Newest
<1> QED BY <1>3, <1>4 DEF Kept

\* restore_backup brings the pair last installed back.
LEMMA RestoresLast ==
    ASSUME PkTypeOK, Kept, pkLast # 0, NEW pair \in Restorable(pkBak)
    PROVE  pair = LastPair
<1> USE PkiAssumption DEF PkiAssumption
<1>1. PICK t \in Stamps : Newest(t) BY DEF Kept
<1>2. PICK n \in Stamps : pair = pkBak[n] /\ Good(n) /\ \A u \in Stamps : Good(u) => u <= n
  BY RestoredMatches
<1>3. Good(t) BY <1>1 DEF Newest, Good, LastPair, Readable, PairMatches
<1>4. t <= n /\ n <= t BY <1>1, <1>2, <1>3 DEF Newest
<1>5. t = n BY <1>4
<1> QED BY <1>1, <1>2, <1>5 DEF Newest

\* Only a new request makes another pair, so any other step is none.
LEMMA NoRequestBegins ==
    ASSUME PkTypeOK, UNCHANGED pkPairs
    PROVE  \A r \in PkReqs : ~ReplaceOwn(r)
<1>1. pkPairs \in Int BY PkiAssumption DEF PkiAssumption, PkTypeOK, PairIds
<1> QED BY <1>1 DEF ReplaceOwn

\* With one request active, a step of it leaves no other.
LEMMA OnlyOne ==
    ASSUME PkTypeOK, NEW r \in PkReqs, Active(r), \A q, p \in PkReqs : Active(q) /\ Active(p) => q = p,
           \A q \in PkReqs \ {r} : pkReq'[q] = pkReq[q]
    PROVE  /\ \A q \in PkReqs \ {r} : ~Active(q) /\ ~Active(q)' /\ pkReq[q].pc = "idle" /\ pkReq'[q].pc = "idle"
           /\ \A q, p \in PkReqs : Active(q)' /\ Active(p)' => q = p
<1>1. \A q \in PkReqs \ {r} : ~Active(q) OBVIOUS
<1>2. \A q \in PkReqs \ {r} : ~Active(q)' BY <1>1 DEF Active
<1> QED BY <1>1, <1>2 DEF Active

\* Every step keeps the pair last installed in the files, in the newest
\* matching backup, or in both.
LEMMA LastKept ==
    ASSUME PkTypeOK, PkTypeOK', FilesInv, LastInv, [PkNext]_pkVars
    PROVE  LastInv'
<1> SUFFICES ASSUME Alone' PROVE LastInv' BY DEF LastInv
<1> USE PkiAssumption DEF PkiAssumption
<1>0. /\ Alone /\ pkNow <= pkNow'
      /\ \A r \in PkReqs : ReplaceOwn(r) => \A q \in PkReqs : ~Active(q)
  BY AloneStays
<1>1. /\ \A q, r \in PkReqs : Active(q) /\ Active(r) => q = r
      /\ pkCert = pkLast
      /\ \A t \in Stamps : pkBak[t] # NoPair => t <= pkNow
      /\ pkUp = "on" /\ (\A r \in PkReqs : pkReq[r].pc # "restart") => pkUsed = LastPair
      /\ pkCert # 0 /\ ~PairMatches(Own) => Kept
      /\ pkUp \in {"key", "cert"} /\ pkCert # 0 => pkNew = LastPair /\ Kept
      /\ \A r \in PkReqs : Active(r) => Progress(r)
  BY <1>0 DEF LastInv
<1>2. pkUp # "on" => \A q \in PkReqs : ~Active(q) BY DEF FilesInv
<1>3. pkBak \in [Stamps -> Pairs] /\ pkNow \in Nat /\ pkNow' \in Nat BY DEF PkTypeOK, Pairs
<1>4. ASSUME NEW r \in PkReqs, ReplaceOwn(r) PROVE LastInv'
  <2>1. \A q \in PkReqs : ~Active(q) BY <1>0, <1>4
  <2>2. /\ pkUp = "on" /\ (PairMatches(Own) \/ pkBak[pkNow] = NoPair)
        /\ UNCHANGED <<pkCert, pkKey, pkBak, pkNow, pkUp, pkUsed, pkLast>>
    <3>1. ~pkOver' BY DEF Alone
    <3> QED BY <1>4, <3>1, NewRequest
  <2>3. /\ pkReq'[r].pc = "copyCert" /\ pkReq'[r].stamp = pkNow
        /\ \A q \in PkReqs \ {r} : pkReq'[q] = pkReq[q]
    BY <1>4, RequestMoves
  <2>4. \A q \in PkReqs : Active(q)' => q = r BY <2>1, <2>3 DEF Active
  <2>5. Own' = Own /\ LastPair' = LastPair BY <2>2 DEF Own, LastPair
  <2>6. ASSUME pkCert # 0, ~PairMatches(Own) PROVE Kept'
    <3>1. PICK t \in Stamps : Newest(t) /\ ~Copying(t) BY <1>1, <2>6 DEF Kept
    <3>2. t # pkNow BY <1>1, <2>2, <2>6, <3>1 DEF Newest, LastPair, NoPair
    <3>3. ~Copying(t)' BY <3>1, <3>2, CopyingSteps
    <3>4. Newest(t)' BY <2>2, <2>5, <3>1 DEF Newest, Good
    <3> QED BY <3>3, <3>4 DEF Kept
  <2>7. Progress(r)'
    <3>1. pkReq'[r].stamp <= pkNow' /\ \A u \in Stamps : pkBak'[u] # NoPair => u <= pkReq'[r].stamp
      BY <1>1, <1>3, <2>2, <2>3
    <3>2. PairMatches(Own') \/ pkBak'[pkReq'[r].stamp] = NoPair BY <2>2, <2>3, <2>5
    <3> QED BY <2>3, <3>1, <3>2 DEF Progress
  <2>8. pkUsed' = LastPair'
    <3>1. \A q \in PkReqs : pkReq[q].pc # "restart" BY <2>1 DEF Active
    <3> QED BY <1>1, <2>2, <2>5, <3>1
  <2> QED BY <1>1, <2>2, <2>4, <2>5, <2>6, <2>7, <2>8 DEF LastInv
<1>5. ASSUME NEW r \in PkReqs, BackupCert(r) \/ BackupKey(r) \/ InstallKey(r) \/ InstallCert(r)
                                 \/ RestartRelays(r) \/ FileFails(r)
      PROVE  /\ Active(r) /\ Progress(r) /\ pkReq[r].stamp \in Stamps
             /\ pkUp = "on" /\ pkUp' = "on" /\ pkCert # 0 /\ pkKey # 0
             /\ pkNow' = pkNow
             /\ \A q \in PkReqs \ {r} : pkReq'[q].pc = "idle" /\ pkReq[q].pc = "idle" /\ ~Active(q)'
             /\ \A q, p \in PkReqs : Active(q)' /\ Active(p)' => q = p
             /\ \A q \in PkReqs : ~ReplaceOwn(q)
  <2>1. Active(r) /\ UNCHANGED <<pkUp, pkPairs, pkNow>>
    BY <1>5, RequestMoves
       DEF BackupCert, BackupKey, InstallKey, InstallCert, RestartRelays, FileFails, Active
  <2>2. \A q \in PkReqs \ {r} : pkReq'[q] = pkReq[q] BY <1>5, RequestMoves
  <2>3. \A q \in PkReqs : ~ReplaceOwn(q) BY <2>1, NoRequestBegins
  <2>4. /\ \A q \in PkReqs \ {r} : pkReq'[q].pc = "idle" /\ pkReq[q].pc = "idle" /\ ~Active(q)'
        /\ \A q, p \in PkReqs : Active(q)' /\ Active(p)' => q = p
    BY <1>1, <2>1, <2>2, OnlyOne
  <2>5. pkUp = "on" /\ pkReq[r].stamp \in Stamps BY <2>1 DEF FilesInv
  <2>6. pkCert # 0 /\ pkKey # 0 BY <2>5 DEF FilesInv
  <2> QED BY <1>1, <2>1, <2>3, <2>4, <2>5, <2>6
<1>6. ASSUME NEW r \in PkReqs, BackupCert(r) PROVE LastInv'
  <2>0. PICK t : t = pkReq[r].stamp OBVIOUS
  <2>1. t \in Stamps BY <1>5, <1>6, <2>0
  <2>2. UNCHANGED <<pkCert, pkKey, pkUsed, pkLast, pkNow>> BY <1>6 DEF BackupCert
  <2>3. Own' = Own /\ LastPair' = LastPair BY <2>2 DEF Own, LastPair
  <2>4. /\ pkBak'[t].cert = pkCert /\ pkBak'[t].key = pkBak[t].key
        /\ \A u \in Stamps \ {t} : pkBak'[u] = pkBak[u]
    BY <1>3, <1>6, <2>0, <2>1 DEF BackupCert, Pairs
  <2>5. pkReq[r].pc = "copyCert" /\ pkReq'[r].pc = "copyKey" /\ pkReq'[r].stamp = t
    BY <1>6, <2>0, RequestMoves
  <2>6. /\ t <= pkNow /\ \A u \in Stamps : pkBak[u] # NoPair => u <= t
        /\ PairMatches(Own) \/ pkBak[t] = NoPair
    BY <1>5, <1>6, <2>0, <2>5 DEF Progress
  <2>7. ASSUME NEW u \in Stamps, pkBak'[u] # NoPair PROVE u <= t
    <3>1. CASE u = t
      <4>1. t \in Nat BY <2>1
      <4> QED BY <3>1, <4>1
    <3>2. CASE u # t BY <2>4, <2>6, <2>7, <3>2
    <3> QED BY <3>1, <3>2
  <2>8. ASSUME NEW u \in Stamps, pkBak'[u] # NoPair PROVE u <= pkNow'
    <3>1. u <= t /\ t <= pkNow /\ u \in Nat /\ t \in Nat BY <2>1, <2>6, <2>7, <2>8
    <3>2. u <= pkNow BY <1>3, <3>1
    <3> QED BY <2>2, <3>2
  <2>9. ASSUME ~PairMatches(Own) PROVE Kept' /\ pkBak'[t].key = 0
    <3>1. pkBak[t] = NoPair BY <2>6, <2>9
    <3>2. pkBak'[t].key = 0 BY <2>4, <3>1 DEF NoPair
    <3>3. ~Good(t)' BY <3>2 DEF Good, Readable
    <3>4. \A u \in Stamps : Good(u)' => Good(u) BY <2>4, <3>3 DEF Good
    <3>5. Kept BY <1>1, <1>5, <1>6, <2>9
    <3> QED BY <1>5, <1>6, <2>2, <3>2, <3>4, <3>5, KeptStays
  <2>10. Progress(r)'
    BY <2>2, <2>3, <2>4, <2>5, <2>6, <2>7, <2>9 DEF Progress
  <2>11. pkUsed' = LastPair'
    <3>1. \A q \in PkReqs : pkReq[q].pc # "restart" BY <1>5, <1>6, <2>5
    <3> QED BY <1>1, <1>5, <1>6, <2>2, <2>3, <3>1
  <2> QED BY <1>1, <1>5, <1>6, <2>2, <2>3, <2>8, <2>9, <2>10, <2>11 DEF LastInv
<1>7. ASSUME NEW r \in PkReqs, BackupKey(r) PROVE LastInv'
  <2>0. PICK t : t = pkReq[r].stamp OBVIOUS
  <2>1. t \in Stamps BY <1>5, <1>7, <2>0
  <2>2. UNCHANGED <<pkCert, pkKey, pkUsed, pkLast, pkNow>> BY <1>7 DEF BackupKey
  <2>3. Own' = Own /\ LastPair' = LastPair BY <2>2 DEF Own, LastPair
  <2>4. pkReq[r].pc = "copyKey" /\ pkReq'[r].pc = "key" /\ pkReq'[r].stamp = t
    BY <1>7, <2>0, RequestMoves
  <2>5. /\ t <= pkNow /\ \A u \in Stamps : pkBak[u] # NoPair => u <= t
        /\ pkBak[t].cert = pkCert
    BY <1>5, <1>7, <2>0, <2>4 DEF Progress
  <2>6. /\ pkBak'[t] = [cert |-> pkCert, key |-> pkKey]
        /\ \A u \in Stamps \ {t} : pkBak'[u] = pkBak[u]
    <3>1. pkKey # 0 BY <1>5, <1>7
    <3>2. pkBak' = [pkBak EXCEPT ![t].key = pkKey] BY <1>7, <2>0, <3>1 DEF BackupKey, CopiedKey
    <3> QED BY <1>3, <2>1, <2>5, <3>2 DEF Pairs
  <2>7. \A u \in Stamps : pkBak'[u] # NoPair => u <= t
    <3>1. t \in Nat BY <2>1
    <3> QED BY <2>5, <2>6, <3>1
  <2>8. ASSUME NEW u \in Stamps, pkBak'[u] # NoPair PROVE u <= pkNow'
    <3>1. u <= t /\ t <= pkNow /\ u \in Nat /\ t \in Nat BY <2>1, <2>5, <2>7, <2>8
    <3>2. u <= pkNow BY <1>3, <3>1
    <3> QED BY <2>2, <3>2
  <2>9. Kept'
    <3>1. CASE PairMatches(Own)
      <4>1. pkBak'[t] = LastPair' BY <1>1, <2>3, <2>6, <3>1 DEF PairMatches, Own, LastPair
      <4>2. ASSUME NEW u \in Stamps, Good(u)' PROVE u <= t
        <5>1. pkBak'[u].cert # 0 BY <4>2 DEF Good, Readable
        <5>2. pkBak'[u] # NoPair BY <5>1 DEF NoPair
        <5> QED BY <2>7, <5>2
      <4>3. ~Copying(t)' BY <1>5, <1>7, <2>4 DEF Copying, Copies
      <4>4. Newest(t)' BY <4>1, <4>2 DEF Newest
      <4> QED BY <2>1, <4>3, <4>4 DEF Kept
    <3>2. CASE ~PairMatches(Own)
      <4>1. ~Good(t)' BY <2>6, <3>2 DEF Good, PairMatches, Own
      <4>2. \A u \in Stamps : Good(u)' => Good(u) BY <2>6, <4>1 DEF Good
      <4>3. Kept BY <1>1, <1>5, <1>7, <3>2
      <4> QED BY <1>5, <1>7, <2>2, <4>2, <4>3, KeptStays
    <3> QED BY <3>1, <3>2
  <2>10. Progress(r)' BY <2>2, <2>4, <2>5, <2>7, <2>9 DEF Progress
  <2>11. pkUsed' = LastPair'
    <3>1. \A q \in PkReqs : pkReq[q].pc # "restart" BY <1>5, <1>7, <2>4
    <3> QED BY <1>1, <1>5, <1>7, <2>2, <2>3, <3>1
  <2> QED BY <1>1, <1>5, <1>7, <2>2, <2>8, <2>9, <2>10, <2>11 DEF LastInv
<1>8. ASSUME NEW r \in PkReqs, InstallKey(r) PROVE LastInv'
  <2>1. UNCHANGED <<pkCert, pkBak, pkUsed, pkLast, pkNow>> /\ pkKey' = pkReq[r].pair
    BY <1>8 DEF InstallKey
  <2>2. LastPair' = LastPair BY <2>1 DEF LastPair
  <2>3. /\ pkReq[r].pc = "key" /\ pkReq'[r].pc = "cert"
        /\ pkReq'[r].stamp = pkReq[r].stamp /\ pkReq'[r].pair = pkReq[r].pair
    BY <1>8, RequestMoves
  <2>4. /\ pkReq[r].stamp <= pkNow /\ \A u \in Stamps : pkBak[u] # NoPair => u <= pkReq[r].stamp
        /\ Kept
    BY <1>5, <1>8, <2>3 DEF Progress
  <2>5. Kept'
    <3>1. \A u \in Stamps : Good(u)' => Good(u) BY <2>1 DEF Good
    <3> QED BY <1>5, <1>8, <2>1, <2>4, <3>1, KeptStays
  <2>6. Progress(r)' BY <2>1, <2>3, <2>4, <2>5 DEF Progress
  <2>7. pkUsed' = LastPair'
    <3>1. \A q \in PkReqs : pkReq[q].pc # "restart" BY <1>5, <1>8, <2>3
    <3> QED BY <1>1, <1>5, <1>8, <2>1, <2>2, <3>1
  <2> QED BY <1>1, <1>5, <1>8, <2>1, <2>5, <2>6, <2>7 DEF LastInv
<1>9. ASSUME NEW r \in PkReqs, InstallCert(r) PROVE LastInv'
  <2>1. UNCHANGED <<pkKey, pkBak, pkNow>> /\ pkCert' = pkReq[r].pair /\ pkLast' = pkReq[r].pair
    BY <1>9 DEF InstallCert
  <2>2. pkReq[r].pc = "cert" /\ pkReq'[r].pc = "restart" /\ pkReq'[r].stamp = pkReq[r].stamp
    BY <1>9, RequestMoves
  <2>3. /\ pkReq[r].stamp <= pkNow /\ \A u \in Stamps : pkBak[u] # NoPair => u <= pkReq[r].stamp
        /\ pkKey = pkReq[r].pair
    BY <1>5, <1>9, <2>2 DEF Progress
  <2>4. PairMatches(Own') BY <2>1, <2>3 DEF PairMatches, Own
  <2>5. Progress(r)' BY <2>1, <2>2, <2>3, <2>4 DEF Progress
  <2> QED BY <1>1, <1>5, <1>9, <2>1, <2>2, <2>4, <2>5 DEF LastInv
<1>10. ASSUME NEW r \in PkReqs, RestartRelays(r) PROVE LastInv'
  <2>1. UNCHANGED <<pkCert, pkKey, pkBak, pkLast, pkNow>> /\ pkUsed' = Own /\ pkReq[r].pc = "restart"
    BY <1>10 DEF RestartRelays
  <2>2. PairMatches(Own) BY <1>5, <1>10, <2>1 DEF Progress
  <2>3. pkUsed' = LastPair' BY <1>1, <2>1, <2>2 DEF PairMatches, Own, LastPair
  <2>4. PairMatches(Own') BY <2>1, <2>2 DEF Own
  <2>5. \A q \in PkReqs : ~Active(q)' BY <1>5, <1>10, RequestMoves DEF Active
  <2> QED BY <1>1, <1>5, <1>10, <2>1, <2>3, <2>4, <2>5 DEF LastInv
<1>11. ASSUME NEW part \in SUBSET PkReqs, pkBak' = Torn(part)
       PROVE  /\ \A u \in Stamps : Good(u)' => Good(u)
              /\ \A u \in Stamps : pkBak'[u] # NoPair => pkBak[u] # NoPair
  <2>1. ASSUME NEW u \in Stamps PROVE pkBak'[u].cert \in {0, pkBak[u].cert} /\ pkBak'[u].key \in {0, pkBak[u].key}
    BY <1>11, TornFacts
  <2>2. \A u \in Stamps : Good(u)' => Good(u) BY <2>1 DEF Good, Readable, PairMatches
  <2>3. ASSUME NEW u \in Stamps, pkBak[u] = NoPair PROVE pkBak'[u] = NoPair
    <3>1. pkBak'[u].cert = 0 /\ pkBak'[u].key = 0 BY <2>1, <2>3 DEF NoPair
    <3>2. pkBak'[u] \in Pairs BY DEF PkTypeOK, Pairs
    <3> QED BY <3>1, <3>2 DEF Pairs, NoPair
  <2> QED BY <2>2, <2>3
<1>12. ASSUME NEW r \in PkReqs, FileFails(r) PROVE LastInv'
  <2>1. UNCHANGED <<pkCert, pkKey, pkUsed, pkLast, pkNow>> BY <1>12 DEF FileFails
  <2>2. Own' = Own /\ LastPair' = LastPair BY <2>1 DEF Own, LastPair
  <2>3. PICK part \in SUBSET PkReqs : pkBak' = Torn(part) BY <1>12 DEF FileFails
  <2>4. \A q \in PkReqs : pkReq[q].pc # "restart" BY <1>5, <1>12 DEF FileFails
  <2>5. pkUsed' = LastPair' BY <1>1, <1>5, <1>12, <2>1, <2>2, <2>4
  <2>6. \A q \in PkReqs : ~Active(q)' BY <1>5, <1>12, RequestMoves DEF Active
  <2>7. Kept => Kept' BY <1>5, <1>11, <1>12, <2>1, <2>3, KeptStays
  <2>8. \A u \in Stamps : pkBak'[u] # NoPair => u <= pkNow' BY <1>1, <1>11, <2>1, <2>3
  <2> QED BY <1>1, <1>5, <1>12, <2>1, <2>2, <2>5, <2>6, <2>7, <2>8 DEF LastInv
<1>13. CASE Crash
  <2>1. UNCHANGED <<pkCert, pkKey, pkLast, pkNow, pkPairs>> /\ pkUp' = "off" BY <1>13 DEF Crash
  <2>2. Own' = Own BY <2>1 DEF Own
  <2>3. PICK part \in SUBSET PkReqs : pkBak' = Torn(part) BY <1>13 DEF Crash
  <2>4. \A q \in PkReqs : ~Active(q)' BY <1>13, RequestMoves DEF Active
  <2>5. \A q \in PkReqs : ~ReplaceOwn(q) BY <2>1, NoRequestBegins
  <2>6. Kept => Kept' BY <1>11, <2>1, <2>3, <2>5, KeptStays
  <2>7. \A u \in Stamps : pkBak'[u] # NoPair => u <= pkNow' BY <1>1, <1>11, <2>1, <2>3
  <2> QED BY <1>1, <2>1, <2>2, <2>4, <2>6, <2>7 DEF LastInv
<1>14. ASSUME UNCHANGED <<pkReq, pkBak, pkLast>> PROVE Kept => Kept'
  BY <1>14 DEF Kept, Newest, Good, LastPair, Copying, Copies
<1>15. CASE StartReady \/ StartCreates \/ StartRestores
  <2>1. pkUp = "off" /\ UNCHANGED <<pkCert, pkKey, pkBak, pkReq, pkLast, pkNow>>
    BY <1>15 DEF StartReady, StartCreates, StartRestores
  <2>2. Own' = Own /\ LastPair' = LastPair BY <2>1 DEF Own, LastPair
  <2>3. \A q \in PkReqs : ~Active(q)' BY <1>2, <2>1 DEF Active
  <2>4. pkUp' = "on" => pkUsed' = LastPair'
    <3>1. CASE StartReady BY <1>1, <2>2, <3>1 DEF StartReady, PairMatches, Own, LastPair
    <3>2. CASE StartCreates \/ StartRestores BY <3>2 DEF StartCreates, StartRestores
    <3> QED BY <1>15, <3>1, <3>2
  <2>5. pkUp' \in {"key", "cert"} /\ pkCert' # 0 => pkNew' = LastPair' /\ Kept'
    <3>1. CASE StartReady BY <3>1 DEF StartReady
    <3>2. CASE StartCreates BY <3>2 DEF StartCreates, Readable, Own, FilesInv
    <3>3. CASE StartRestores
      <4>1. pkNew' \in Restorable(pkBak) /\ pkCert # 0 /\ ~PairMatches(Own)
        BY <3>3 DEF StartRestores, Readable, Own
      <4>2. Kept /\ pkLast # 0 BY <1>1, <4>1
      <4> QED BY <1>14, <2>1, <2>2, <4>1, <4>2, RestoresLast
    <3> QED BY <1>15, <3>1, <3>2, <3>3
  <2> QED BY <1>1, <1>14, <2>1, <2>2, <2>3, <2>4, <2>5 DEF LastInv
<1>16. CASE StartWritesKey
  <2>1. pkUp = "key" /\ pkUp' = "cert" /\ UNCHANGED <<pkCert, pkBak, pkReq, pkLast, pkNow, pkNew>>
    BY <1>16 DEF StartWritesKey
  <2>2. \A q \in PkReqs : ~Active(q)' BY <1>2, <2>1 DEF Active
  <2>3. pkCert # 0 => pkNew' = LastPair' /\ Kept' BY <1>1, <1>14, <2>1 DEF LastPair
  <2> QED BY <1>1, <2>1, <2>2, <2>3 DEF LastInv
<1>17. CASE StartWritesCert
  <2>1. /\ pkUp = "cert" /\ pkUp' = "on" /\ UNCHANGED <<pkKey, pkBak, pkReq, pkNow>>
        /\ pkCert' = pkNew.cert /\ pkUsed' = [cert |-> pkNew.cert, key |-> pkKey]
        /\ pkLast' = IF pkLast = 0 THEN pkNew.cert ELSE pkLast
    BY <1>17 DEF StartWritesCert
  <2>2. pkKey = pkNew.cert BY <2>1 DEF FilesInv
  <2>3. pkCert' = pkLast' BY <1>1, <2>1 DEF LastPair
  <2>4. PairMatches(Own') BY <2>1, <2>2 DEF PairMatches, Own
  <2>5. pkUsed' = LastPair' BY <2>1, <2>2, <2>3 DEF LastPair
  <2>6. \A q \in PkReqs : ~Active(q)' BY <1>2, <2>1 DEF Active
  <2> QED BY <1>1, <2>1, <2>3, <2>4, <2>5, <2>6 DEF LastInv
<1>18. CASE ClockChanges \/ UNCHANGED pkVars
  <2>1. UNCHANGED <<pkCert, pkKey, pkBak, pkReq, pkLast, pkUp, pkUsed, pkNew>>
    BY <1>18 DEF ClockChanges, pkVars
  <2>2. Own' = Own /\ LastPair' = LastPair BY <2>1 DEF Own, LastPair
  <2>3. \A q \in PkReqs : Active(q)' <=> Active(q) BY <2>1 DEF Active
  <2>4. ASSUME NEW u \in Stamps, pkBak'[u] # NoPair PROVE u <= pkNow'
    <3>1. u <= pkNow /\ u \in Nat BY <1>1, <2>1, <2>4
    <3> QED BY <1>0, <1>3, <3>1
  <2>5. ASSUME NEW q \in PkReqs, Active(q) PROVE Progress(q)'
    <3>1. pkReq[q].stamp \in Nat BY <2>5 DEF FilesInv
    <3>2. Progress(q) BY <1>1, <2>5
    <3>3. pkReq'[q].stamp <= pkNow' BY <1>0, <1>3, <2>1, <3>1, <3>2 DEF Progress
    <3> QED BY <1>14, <2>1, <2>2, <3>2, <3>3 DEF Progress
  <2> QED BY <1>1, <1>14, <2>1, <2>2, <2>3, <2>4, <2>5 DEF LastInv
<1> QED BY <1>4, <1>6, <1>7, <1>8, <1>9, <1>10, <1>12, <1>13, <1>15, <1>16, <1>17, <1>18 DEF PkNext

\* The invariant holds of every reachable state.
LEMMA PkInvariance == PkSpec => []PkInv
<1>1. PkInit => PkInv
  <2> SUFFICES ASSUME PkInit PROVE PkInv OBVIOUS
  <2> USE PkiAssumption DEF PkiAssumption
  <2>1. Stamps \in SUBSET Nat /\ Stamps # {} OBVIOUS
  <2>2. \E x \in Stamps : \A y \in Stamps : x <= y BY <2>1, LeastOfNats
  <2>3. Min(Stamps) \in Stamps BY <2>2 DEF Min
  <2>4. PkTypeOK
    <3>1. NoPair \in Pairs /\ NoRequest \in PkRequests BY DEF NoPair, NoRequest, Pairs, PkRequests, PkPcs, PairIds
    <3>2. pkBak \in [Stamps -> Pairs] /\ pkReq \in [PkReqs -> PkRequests] BY <3>1 DEF PkInit
    <3>3. pkRaced \in BOOLEAN /\ pkBack \in BOOLEAN /\ pkOver \in BOOLEAN BY Zenon DEF PkInit
    <3> QED BY <2>3, <3>1, <3>2, <3>3 DEF PkInit, PkTypeOK, Pairs, PkRequests, PkPcs, PairIds
  <2>5. \A q \in PkReqs : ~Active(q) BY DEF PkInit, Active, NoRequest
  <2>6. \A t \in Stamps : pkBak[t] = NoPair BY DEF PkInit
  <2>7. FilesInv BY <2>5 DEF PkInit, FilesInv
  <2>8. HeldInv BY <2>5 DEF PkInit, HeldInv, Active
  <2>9. LastInv BY <2>5, <2>6 DEF PkInit, LastInv
  <2> QED BY <2>4, <2>7, <2>8, <2>9 DEF PkInv
<1>2. PkInv /\ [PkNext]_pkVars => PkInv'
  <2> SUFFICES ASSUME PkInv, [PkNext]_pkVars PROVE PkInv' OBVIOUS
  <2>1. PkTypeOK /\ FilesInv /\ HeldInv /\ LastInv BY DEF PkInv
  <2>2. PkTypeOK' BY <2>1, PkTyped
  <2> QED BY <2>1, <2>2, FilesKept, HeldKept, LastKept DEF PkInv
<1> QED BY <1>1, <1>2, PTL DEF PkSpec

\* An import, a regeneration or a start of the gateway may be cut short at any
\* file operation: the next start is not refused, and unless requests raced,
\* the clock went back or a backup in change was overwritten, the relays
\* present the pair that was last installed completely.
THEOREM CutsAreHarmless == PkSpec => []InterruptionsHarmless
<1>1. PkInv => InterruptionsHarmless
  <2> SUFFICES ASSUME PkInv PROVE InterruptionsHarmless OBVIOUS
  <2>0. PkTypeOK /\ FilesInv /\ HeldInv /\ LastInv BY DEF PkInv
  <2>1. StartsAgain
    <3> SUFFICES ASSUME ~pkOver, Readable(Own), ~PairMatches(Own) PROVE Restorable(pkBak) # {}
      BY DEF StartsAgain
    <3>1. Held BY <2>0 DEF HeldInv, Readable, Own
    <3>2. PICK t \in Stamps : Good(t) BY <3>1 DEF Held
    <3>3. DOMAIN pkBak = Stamps BY <2>0 DEF PkTypeOK
    <3> QED BY <3>2, <3>3 DEF Restorable, Good
  <2>2. PresentsLastInstalled
    <3> SUFFICES ASSUME pkUp = "on", \A r \in PkReqs : pkReq[r].pc = "idle", ~pkRaced, ~pkBack, ~pkOver
                 PROVE  pkUsed = [cert |-> pkLast, key |-> pkLast]
      BY DEF PresentsLastInstalled
    <3> QED BY <2>0 DEF LastInv, Alone, LastPair
  <2> QED BY <2>1, <2>2 DEF InterruptionsHarmless
<1> QED BY <1>1, PkInvariance, PTL

\* Type correctness of the gateway's own key and certificate, their backups and the
\* requests that replace them: pki.rs.
THEOREM PairsTyped == PkSpec => []PkTypeOK
<1>1. PkInv => PkTypeOK BY DEF PkInv
<1> QED BY <1>1, PkInvariance, PTL

-------------------------------------------------------------------------------
\* A file without old rules: the groups as they are.
LEMMA FoldNone ==
    ASSUME NEW gs
    PROVE  FoldLeft(Migrated, gs, <<>>) = gs
<1>1. DOMAIN <<>> = {} OBVIOUS
<1> DEFINE Def(f) == [s \in SUBSET {} |-> IF s = {} THEN gs ELSE Migrated(f[s \ {Max(s)}], <<>>[Max(s)])]
<1>2. [s \in SUBSET {} |-> gs] = Def([s \in SUBSET {} |-> gs]) OBVIOUS
<1>4. (CHOOSE f : f = Def(f)) = Def(CHOOSE f : f = Def(f)) BY <1>2
<1>5. (CHOOSE f : f = Def(f))[{}] = gs BY <1>4
<1> QED BY <1>1, <1>5 DEF FoldLeft, MapThenFoldSet

\* A file with one old rule: it is taken over into the groups.
LEMMA FoldOne ==
    ASSUME NEW gs, NEW r
    PROVE  FoldLeft(Migrated, gs, <<r>>) = Migrated(gs, r)
<1> HIDE DEF Migrated
<1>1. DOMAIN <<r>> = {1} /\ <<r>>[1] = r OBVIOUS
<1>0. Max({1}) = 1
  <2>1. \E x \in {1} : \A y \in {1} : x >= y OBVIOUS
  <2> QED BY <2>1 DEF Max
<1> DEFINE Def(f) == [s \in SUBSET {1} |-> IF s = {} THEN gs ELSE Migrated(f[s \ {Max(s)}], <<r>>[Max(s)])]
           F == [s \in SUBSET {1} |-> IF s = {} THEN gs ELSE Migrated(gs, r)]
<1>2. F = Def(F)
  <2>1. ASSUME NEW s \in SUBSET {1} PROVE F[s] = Def(F)[s]
    <3>1. s = {} \/ s = {1} OBVIOUS
    <3>2. F[{}] = gs OBVIOUS
    <3>3. {1} \ {1} = {} OBVIOUS
    <3>4. CASE s = {} BY <3>4
    <3>5. CASE s = {1}
      <4>1. Def(F)[s] = Migrated(F[s \ {Max(s)}], <<r>>[Max(s)]) BY <3>5
      <4>2. F[s] = Migrated(gs, r) BY <3>5
      <4> HIDE DEF F, Def
      <4> QED BY <1>0, <1>1, <3>2, <3>3, <3>5, <4>1, <4>2
    <3> QED BY <3>1, <3>4, <3>5
  <2> QED BY <2>1
<1>4. (CHOOSE f : f = Def(f)) = Def(CHOOSE f : f = Def(f))
  <2> HIDE DEF F
  <2> QED BY <1>2
<1>5. (CHOOSE f : f = Def(f))[{1}] = Migrated(gs, r)
  <2> DEFINE G == CHOOSE f : f = Def(f)
  <2>0. G = Def(G) BY <1>4
  <2> HIDE DEF G
  <2>1. {} \in SUBSET {1} /\ {1} \in SUBSET {1} /\ {1} # {} /\ {1} \ {1} = {} OBVIOUS
  <2>2. Def(G)[{}] = gs BY <2>1
  <2>3. Def(G)[{1}] = Migrated(G[{1} \ {Max({1})}], <<r>>[Max({1})]) BY <2>1
  <2> HIDE DEF Def
  <2>4. G[{}] = gs BY <2>0, <2>2
  <2>5. G[{1}] = Migrated(G[{}], r) BY <1>0, <1>1, <2>0, <2>1, <2>3
  <2>6. G[{1}] = Migrated(gs, r) BY <2>4, <2>5
  <2> QED BY <2>6 DEF G
<1> HIDE DEF F
<1> QED BY <1>1, <1>5 DEF FoldLeft, MapThenFoldSet

\* A group of nodes, and groups in their order.
GroupRecs ==
    [name : {"first", "second", "none"} \cup GroupNames, client : ClientKeys, nodes : SUBSET Texts]

\* What drop_summarise_overlaps keeps of the nodes of group j, given what it
\* kept of the groups before.
KeptOf(gs, j, kept) ==
    {t \in gs[j].nodes : \A i \in 1 .. j - 1 :
        GroupsOverlap(gs[i], gs[j]) => ParseNode[t] \notin Parsed(kept[i])}

\* The recursion over the groups is well defined for the groups of a file.
LEMMA KeptDefined ==
    ASSUME NEW gs, NEW n \in 0 .. 3, DOMAIN gs = 1 .. n
    PROVE  \E kept : kept = [j \in DOMAIN gs |-> KeptOf(gs, j, kept)]
<1> DEFINE F1 == [j \in DOMAIN gs |-> KeptOf(gs, j, gs)]
           F2 == [j \in DOMAIN gs |-> KeptOf(gs, j, F1)]
           F3 == [j \in DOMAIN gs |-> KeptOf(gs, j, F2)]
<1>1. ASSUME NEW j \in DOMAIN gs, NEW f, NEW g, \A i \in 1 .. j - 1 : f[i] = g[i]
      PROVE  KeptOf(gs, j, f) = KeptOf(gs, j, g)
  BY <1>1 DEF KeptOf
<1>2. ASSUME 1 \in DOMAIN gs PROVE F1[1] = F2[1] /\ F2[1] = F3[1]
  <2>1. \A f, g : KeptOf(gs, 1, f) = KeptOf(gs, 1, g) BY DEF KeptOf
  <2>2. F1[1] = KeptOf(gs, 1, gs) /\ F2[1] = KeptOf(gs, 1, F1) /\ F3[1] = KeptOf(gs, 1, F2) BY <1>2
  <2> HIDE DEF F1, F2, F3
  <2> QED BY <2>1, <2>2
<1>3. ASSUME 2 \in DOMAIN gs PROVE F2[2] = F3[2]
  <2>1. F2[2] = KeptOf(gs, 2, F1) /\ F3[2] = KeptOf(gs, 2, F2) BY <1>3
  <2>2. 1 \in DOMAIN gs BY <1>3
  <2> HIDE DEF F1, F2, F3
  <2>3. \A i \in 1 .. 2 - 1 : F1[i] = F2[i] BY <1>2, <2>2
  <2> QED BY <1>1, <1>3, <2>1, <2>3
<1>4. ASSUME NEW j \in DOMAIN gs PROVE F3[j] = KeptOf(gs, j, F3)
  <2>1. F3[j] = KeptOf(gs, j, F2) OBVIOUS
  <2> HIDE DEF F1, F2, F3
  <2>2. j \in {1, 2, 3} OBVIOUS
  <2>3. ASSUME NEW i \in 1 .. j - 1 PROVE F2[i] = F3[i]
    <3>1. i \in {1, 2} /\ i \in DOMAIN gs BY <2>2
    <3> QED BY <1>2, <1>3, <3>1
  <2> QED BY <1>1, <2>1, <2>3
<1>5. F3 = [j \in DOMAIN gs |-> KeptOf(gs, j, F3)]
  <2>1. F3 = [j \in DOMAIN gs |-> F3[j]] OBVIOUS
  <2> HIDE DEF F3
  <2> QED BY <1>4, <2>1
<1> HIDE DEF F3
<1> QED BY <1>5

\* Dropping overlaps changes no group but for nodes it loses.
LEMMA DropFacts ==
    ASSUME NEW gs \in Seq(GroupRecs), Len(gs) \in 0 .. 3
    PROVE  /\ DropOverlaps(gs) \in Seq(GroupRecs) /\ Len(DropOverlaps(gs)) = Len(gs)
           /\ \A j \in DOMAIN gs : /\ DropOverlaps(gs)[j].client = gs[j].client
                                   /\ DropOverlaps(gs)[j].nodes \subseteq gs[j].nodes
<1> DEFINE K == CHOOSE kept : kept = [j \in DOMAIN gs |-> KeptOf(gs, j, kept)]
<1>1. DOMAIN gs = 1 .. Len(gs) OBVIOUS
<1>2. K = [j \in DOMAIN gs |-> KeptOf(gs, j, K)]
  <2>1. \E kept : kept = [j \in DOMAIN gs |-> KeptOf(gs, j, kept)] BY <1>1, KeptDefined
  <2> QED BY <2>1
<1>3. DropOverlaps(gs) = [j \in DOMAIN gs |-> [gs[j] EXCEPT !.nodes = K[j]]]
  BY DEF DropOverlaps, KeptOf
<1> HIDE DEF K
<1>4. \A j \in DOMAIN gs : K[j] \subseteq gs[j].nodes BY <1>2 DEF KeptOf
<1>5. \A j \in DOMAIN gs : gs[j] \in GroupRecs OBVIOUS
<1>6. ASSUME NEW j \in DOMAIN gs
      PROVE  /\ [gs[j] EXCEPT !.nodes = K[j]] \in GroupRecs
             /\ [gs[j] EXCEPT !.nodes = K[j]].client = gs[j].client
             /\ [gs[j] EXCEPT !.nodes = K[j]].nodes = K[j]
  BY <1>4, <1>5 DEF GroupRecs
<1>7. DropOverlaps(gs) \in [1 .. Len(gs) -> GroupRecs] BY <1>1, <1>3, <1>6
<1>8. DropOverlaps(gs) \in Seq(GroupRecs) /\ Len(DropOverlaps(gs)) = Len(gs) BY <1>7
<1> QED BY <1>3, <1>4, <1>6, <1>8

\* The groups of a file.
LEMMA FileGroups ==
    ASSUME NEW file \in Files
    PROVE  /\ file.groups \in Seq(GroupRecs) /\ Len(file.groups) \in 0 .. 2
           /\ file.rules = <<>> \/ \E r \in Rules : file.rules = <<r>>
<1>1. /\ file.groups \in {NamedGroups(gs) : gs \in BoundedSeq(SomeGroup, 2)}
      /\ file.rules \in BoundedSeq(Rules, 1)
  BY DEF Files
<1>2. PICK gs \in BoundedSeq(SomeGroup, 2) : file.groups = NamedGroups(gs) BY <1>1
<1>3. PICK k \in 0 .. 2 : gs \in [1 .. k -> SomeGroup] BY DEF BoundedSeq, SeqOf
<1>4. DOMAIN gs = 1 .. k /\ \A i \in 1 .. k : gs[i] \in SomeGroup BY <1>3
<1>5. ASSUME NEW i \in 1 .. k
      PROVE  Group(<<"first", "second">>[i], gs[i].client, gs[i].nodes) \in GroupRecs
  <2>1. i \in {1, 2} OBVIOUS
  <2>2. <<"first", "second">>[i] \in {"first", "second"} BY <2>1
  <2> QED BY <1>4, <2>2 DEF SomeGroup, Group, GroupRecs
<1>6. file.groups \in [1 .. k -> GroupRecs] BY <1>2, <1>4, <1>5 DEF NamedGroups
<1>7. k \in Nat OBVIOUS
<1>8. file.groups \in Seq(GroupRecs) /\ Len(file.groups) = k BY <1>6, <1>7
<1>9. file.rules = <<>> \/ \E r \in Rules : file.rules = <<r>>
  <2>1. PICK m \in 0 .. 1 : file.rules \in [1 .. m -> Rules] BY <1>1 DEF BoundedSeq, SeqOf
  <2>2. CASE m = 0
    <3>1. file.rules \in [{} -> Rules] BY <2>1, <2>2
    <3>2. file.rules = <<>> BY <3>1
    <3> QED BY <3>2
  <2>3. CASE m = 1
    <3>1. m \in Nat OBVIOUS
    <3>2. file.rules \in Seq(Rules) /\ Len(file.rules) = m BY <2>1, <3>1
    <3>3. file.rules \in Seq(Rules) /\ Len(file.rules) = 1 BY <2>3, <3>2
    <3>4. file.rules = <<file.rules[1]>> /\ file.rules[1] \in Rules BY <3>3
    <3> QED BY <3>4
  <2> QED BY <2>1, <2>2, <2>3
<1> QED BY <1>8, <1>9

\* The group a rule goes to is one of its own client.
LEMMA GroupOfFacts ==
    ASSUME NEW gs \in Seq(GroupRecs), NEW client
    PROVE  \/ GroupOf(gs, client) = 0
           \/ GroupOf(gs, client) \in DOMAIN gs /\ gs[GroupOf(gs, client)].client = client
<1> DEFINE same == {i \in DOMAIN gs : gs[i].client = client}
<1>1. CASE same = {} BY <1>1 DEF GroupOf
<1>2. CASE same # {}
  <2>1. same \in SUBSET Nat OBVIOUS
  <2>2. \E i \in same : \A j \in same : i <= j BY <1>2, <2>1, LeastOfNats
  <2>3. GroupOf(gs, client) \in same BY <1>2, <2>2 DEF GroupOf
  <2> QED BY <2>3
<1> QED BY <1>1, <1>2

\* A rule taken over asks for no more than the rule and the groups did.
LEMMA MigratedFacts ==
    ASSUME NEW gs \in Seq(GroupRecs), NEW r \in Rules
    PROVE  /\ Migrated(gs, r) \in Seq(GroupRecs) /\ Len(Migrated(gs, r)) \in {Len(gs), Len(gs) + 1}
           /\ \A n, c : Matches(Migrated(gs, r), n, c) =>
                \/ Matches(gs, n, c)
                \/ ParseNode[r.node] = n /\ Applies(r, c)
<1> DEFINE k == GroupOf(gs, r.client)
           M == Migrated(gs, r)
<1>0. r.node \in Texts /\ r.client \in ClientKeys BY DEF Rules
<1>1. CASE k = 0
  <2> DEFINE g == Group("none", r.client, {r.node})
  <2>1. M = Append(gs, g) BY <1>1 DEF Migrated
  <2>2. g \in GroupRecs /\ g.client = r.client /\ g.nodes = {r.node} BY <1>0 DEF Group, GroupRecs
  <2> HIDE DEF M, g
  <2>3. M \in Seq(GroupRecs) /\ Len(M) = Len(gs) + 1 BY <2>1, <2>2
  <2>4. /\ DOMAIN M = 1 .. Len(gs) + 1 /\ M[Len(gs) + 1] = g
        /\ \A i \in 1 .. Len(gs) : M[i] = gs[i]
    BY <2>1, <2>2
  <2>5. ASSUME NEW n, NEW c, Matches(M, n, c)
        PROVE  Matches(gs, n, c) \/ (ParseNode[r.node] = n /\ Applies(r, c))
    <3>1. PICK i \in DOMAIN M : Applies(M[i], c) /\ n \in Parsed(M[i].nodes) BY <2>5 DEF Matches
    <3>2. CASE i = Len(gs) + 1 BY <2>2, <2>4, <3>1, <3>2 DEF Applies, Parsed
    <3>3. CASE i # Len(gs) + 1
      <4>1. i \in DOMAIN gs /\ M[i] = gs[i] BY <2>4, <3>3
      <4> QED BY <3>1, <4>1 DEF Matches
    <3> QED BY <3>2, <3>3
  <2> QED BY <2>3, <2>5 DEF M
<1>2. CASE k # 0
  <2>1. k \in DOMAIN gs /\ gs[k].client = r.client BY <1>2, GroupOfFacts
  <2>2. M = [gs EXCEPT ![k].nodes = @ \cup {r.node}] BY <1>2 DEF Migrated
  <2> HIDE DEF M, k
  <2>3. gs[k] \in GroupRecs BY <2>1
  <2>4. /\ DOMAIN M = DOMAIN gs /\ \A i \in DOMAIN gs \ {k} : M[i] = gs[i]
        /\ M[k] = [gs[k] EXCEPT !.nodes = gs[k].nodes \cup {r.node}]
    BY <2>1, <2>2
  <2>5. M[k] \in GroupRecs /\ M[k].client = r.client /\ M[k].nodes = gs[k].nodes \cup {r.node}
    BY <1>0, <2>1, <2>3, <2>4 DEF GroupRecs
  <2>6. M \in Seq(GroupRecs) /\ Len(M) = Len(gs)
    <3>1. \A i \in DOMAIN gs : M[i] \in GroupRecs BY <2>4, <2>5
    <3>2. M = [i \in DOMAIN gs |-> M[i]] BY <2>2
    <3>3. M \in [1 .. Len(gs) -> GroupRecs] BY <3>1, <3>2
    <3> QED BY <3>3
  <2>7. ASSUME NEW n, NEW c, Matches(M, n, c)
        PROVE  Matches(gs, n, c) \/ (ParseNode[r.node] = n /\ Applies(r, c))
    <3>1. PICK i \in DOMAIN M : Applies(M[i], c) /\ n \in Parsed(M[i].nodes) BY <2>7 DEF Matches
    <3>2. CASE i = k
      <4>1. Applies(gs[k], c) /\ Applies(r, c) BY <2>1, <2>5, <3>1, <3>2 DEF Applies
      <4>2. n \in Parsed(gs[k].nodes) \/ n = ParseNode[r.node] BY <2>5, <3>1, <3>2 DEF Parsed
      <4> QED BY <2>1, <4>1, <4>2 DEF Matches
    <3>3. CASE i # k BY <2>4, <3>1, <3>3 DEF Matches
    <3> QED BY <3>2, <3>3
  <2> QED BY <2>6, <2>7 DEF M
<1> QED BY <1>1, <1>2

\* The groups that come out of loading a file, and what they ask for.
LEMMA LoadedGroups ==
    ASSUME NEW file \in Files
    PROVE  /\ DropOverlaps(MigrateIgnore(file)) \in Seq(GroupRecs)
           /\ \A n, c : Matches(DropOverlaps(MigrateIgnore(file)), n, c) =>
                \/ Matches(file.groups, n, c)
                \/ \E k \in DOMAIN file.rules :
                     ParseNode[file.rules[k].node] = n /\ Applies(file.rules[k], c)
<1> DEFINE M == MigrateIgnore(file)
<1>0. /\ file.groups \in Seq(GroupRecs) /\ Len(file.groups) \in 0 .. 2
      /\ file.rules = <<>> \/ \E r \in Rules : file.rules = <<r>>
  BY FileGroups
<1>1. /\ M \in Seq(GroupRecs) /\ Len(M) \in 0 .. 3
      /\ \A n, c : Matches(M, n, c) =>
            \/ Matches(file.groups, n, c)
            \/ \E k \in DOMAIN file.rules :
                 ParseNode[file.rules[k].node] = n /\ Applies(file.rules[k], c)
  <2>1. CASE file.rules = <<>>
    <3>1. M = file.groups BY <2>1, FoldNone DEF MigrateIgnore
    <3> HIDE DEF M
    <3> QED BY <1>0, <3>1
  <2>2. ASSUME NEW r \in Rules, file.rules = <<r>>
        PROVE  /\ M \in Seq(GroupRecs) /\ Len(M) \in 0 .. 3
               /\ \A n, c : Matches(M, n, c) =>
                    \/ Matches(file.groups, n, c)
                    \/ \E k \in DOMAIN file.rules :
                         ParseNode[file.rules[k].node] = n /\ Applies(file.rules[k], c)
    <3>1. M = Migrated(file.groups, r) BY <2>2, FoldOne DEF MigrateIgnore
    <3>2. 1 \in DOMAIN file.rules /\ file.rules[1] = r BY <2>2
    <3> HIDE DEF M
    <3>3. M \in Seq(GroupRecs) /\ Len(M) \in {Len(file.groups), Len(file.groups) + 1}
      BY <1>0, <3>1, MigratedFacts
    <3>4. \A n, c : Matches(M, n, c) =>
                \/ Matches(file.groups, n, c)
                \/ ParseNode[r.node] = n /\ Applies(r, c)
      BY <1>0, <3>1, MigratedFacts
    <3>5. Len(M) \in 0 .. 3
      <4>1. PICK k \in 0 .. 2 : k = Len(file.groups) BY <1>0
      <4>2. PICK m : m = Len(M) OBVIOUS
      <4>3. m = k \/ m = k + 1 BY <3>3, <4>1, <4>2
      <4>4. m \in 0 .. 3 BY <4>3
      <4> QED BY <4>2, <4>4
    <3> QED BY <3>2, <3>3, <3>4, <3>5
  <2> QED BY <1>0, <2>1, <2>2
<1> DEFINE D == DropOverlaps(M)
<1> HIDE DEF M
<1>2. /\ D \in Seq(GroupRecs) /\ Len(D) = Len(M)
      /\ \A j \in DOMAIN M : D[j].client = M[j].client /\ D[j].nodes \subseteq M[j].nodes
  BY <1>1, DropFacts
<1> HIDE DEF D
<1>3. ASSUME NEW n, NEW c, Matches(D, n, c) PROVE Matches(M, n, c)
  <2>1. PICK i \in DOMAIN D : Applies(D[i], c) /\ n \in Parsed(D[i].nodes) BY <1>3 DEF Matches
  <2>2. i \in DOMAIN M BY <1>1, <1>2
  <2>3. Applies(M[i], c) /\ n \in Parsed(M[i].nodes) BY <1>2, <2>1, <2>2 DEF Applies, Parsed
  <2> QED BY <2>2, <2>3 DEF Matches
<1> QED BY <1>1, <1>2, <1>3 DEF D, M
-------------------------------------------------------------------------------
\* Groups that apply to the same writes share no node (validate_summarise).
Apart(gs) ==
    \A i, j \in DOMAIN gs :
        i # j /\ GroupsOverlap(gs[i], gs[j]) => Parsed(gs[i].nodes) \cap Parsed(gs[j].nodes) = {}

\* A group that was seen, as a request names it.
SeenGroup == [index : Nat, check : {TRUE}, name : {"first", "second", "none"} \cup GroupNames, client : ClientKeys]

\* The groups are valid ones, and a claim was made by a change only.
GroupsInv ==
    /\ groups \in Seq(GroupRecs)
    /\ Apart(groups)
    /\ groupEdits \in Nat
    /\ phase = "file" => claimed = {}
    /\ picked = NotPicked \/ picked \in SeenGroup

\* A group that was seen is told from a position alone.
LEMMA SeenIsChecked ==
    ASSUME NEW p \in SeenGroup
    PROVE  /\ p # NotPicked /\ p # NewPlace /\ p.check
           /\ \A i : p # [index |-> i, check |-> FALSE]
<1>1. DOMAIN p = {"index", "check", "name", "client"} /\ p.check = TRUE BY DEF SeenGroup
<1>2. DOMAIN NotPicked = {"index"} BY DEF NotPicked
<1>3. \A i : [index |-> i, check |-> FALSE].check = FALSE OBVIOUS
<1>4. p # NotPicked BY <1>1, <1>2
<1>5. \A i : p # [index |-> i, check |-> FALSE] BY <1>1, <1>3
<1> QED BY <1>1, <1>4, <1>5 DEF NewPlace

\* Valid groups are apart.
LEMMA ValidApart ==
    ASSUME NEW gs, ValidGroups(gs)
    PROVE  Apart(gs)
  BY DEF ValidGroups, Apart

\* What a change of one group makes of the groups.
LEMMA OneChanged ==
    ASSUME NEW gs \in Seq(GroupRecs), NEW i \in DOMAIN gs, NEW g \in GroupRecs
    PROVE  /\ [gs EXCEPT ![i] = g] \in Seq(GroupRecs)
           /\ DOMAIN [gs EXCEPT ![i] = g] = DOMAIN gs
           /\ [gs EXCEPT ![i] = g][i] = g
           /\ \A j \in DOMAIN gs \ {i} : [gs EXCEPT ![i] = g][j] = gs[j]
  OBVIOUS

\* Two runs of groups, one after the other.
LEMMA Joined ==
    ASSUME NEW S, NEW A \in Seq(S), NEW B \in Seq(S)
    PROVE  /\ A \o B \in Seq(S) /\ Len(A \o B) = Len(A) + Len(B)
           /\ \A j \in 1 .. Len(A) : (A \o B)[j] = A[j]
           /\ \A k \in 1 .. Len(B) : (A \o B)[Len(A) + k] = B[k]
<1>1. A \o B \in Seq(S) OBVIOUS
<1>2. Len(A \o B) = Len(A) + Len(B) OBVIOUS
<1>3. ASSUME NEW j \in 1 .. Len(A) PROVE (A \o B)[j] = A[j] OBVIOUS
<1>4. ASSUME NEW j \in 1 .. Len(B) PROVE (A \o B)[Len(A) + j] = B[j]
  <2>1. Len(A) + j \in Len(A) + 1 .. Len(A) + Len(B) /\ (Len(A) + j) - Len(A) = j OBVIOUS
  <2> QED BY <2>1
<1> QED BY <1>1, <1>2, <1>3, <1>4

\* What is left of the groups when one goes.
LEMMA OneRemoved ==
    ASSUME NEW gs \in Seq(GroupRecs), NEW i \in DOMAIN gs
    PROVE  /\ RemoveAt(gs, i) \in Seq(GroupRecs)
           /\ \A j \in DOMAIN RemoveAt(gs, i) : \E k \in DOMAIN gs \ {i} : RemoveAt(gs, i)[j] = gs[k]
           /\ \A k \in DOMAIN gs \ {i} : \E j \in DOMAIN RemoveAt(gs, i) : RemoveAt(gs, i)[j] = gs[k]
<1> DEFINE R == RemoveAt(gs, i)
           A == SubSeq(gs, 1, i - 1)
           B == SubSeq(gs, i + 1, Len(gs))
           n == Len(gs)
<1>0. n \in Nat /\ i \in 1 .. n OBVIOUS
<1>1. A \in Seq(GroupRecs) /\ Len(A) = i - 1 /\ \A j \in 1 .. i - 1 : A[j] = gs[j] BY <1>0
<1>2. B \in Seq(GroupRecs) /\ Len(B) = n - i /\ \A j \in 1 .. n - i : B[j] = gs[i + j] BY <1>0
<1>3. R = A \o B BY DEF RemoveAt
<1> HIDE DEF A, B, R, n
<1>j. /\ A \o B \in Seq(GroupRecs) /\ Len(A \o B) = Len(A) + Len(B)
      /\ \A j \in 1 .. Len(A) : (A \o B)[j] = A[j]
      /\ \A j \in 1 .. Len(B) : (A \o B)[Len(A) + j] = B[j]
  <2>1. A \in Seq(GroupRecs) /\ B \in Seq(GroupRecs) BY <1>1, <1>2
  <2>2. A \o B \in Seq(GroupRecs) /\ Len(A \o B) = Len(A) + Len(B) BY <2>1, Joined
  <2>3. ASSUME NEW j \in 1 .. Len(A) PROVE (A \o B)[j] = A[j] BY <2>1, Joined
  <2>4. ASSUME NEW j \in 1 .. Len(B) PROVE (A \o B)[Len(A) + j] = B[j] BY <2>1, Joined
  <2> QED BY <2>2, <2>3, <2>4
<1>4. R \in Seq(GroupRecs) /\ Len(R) = Len(A) + Len(B) BY <1>3, <1>j
<1>5. Len(R) = n - 1
  <2>1. Len(A) = i - 1 /\ Len(B) = n - i BY <1>1, <1>2
  <2> QED BY <1>0, <1>4, <2>1
<1>6. \A j \in 1 .. n - 1 : R[j] = IF j < i THEN gs[j] ELSE gs[j + 1]
  <2> SUFFICES ASSUME NEW j \in 1 .. n - 1 PROVE R[j] = IF j < i THEN gs[j] ELSE gs[j + 1] OBVIOUS
  <2>1. CASE j < i
    <3>1. j \in 1 .. i - 1 BY <1>0, <2>1
    <3>2. j \in 1 .. Len(A) BY <1>1, <3>1
    <3> QED BY <1>1, <1>3, <1>j, <2>1, <3>1, <3>2
  <2>2. CASE ~(j < i)
    <3>1. j - (i - 1) \in 1 .. n - i /\ j > i - 1 /\ i + (j - (i - 1)) = j + 1 BY <1>0, <2>2
    <3>2. R[j] = B[j - (i - 1)]
      <4>1. Len(A) = i - 1 /\ Len(B) = n - i BY <1>1, <1>2
      <4>2. j - (i - 1) \in 1 .. Len(B) /\ Len(A) + (j - (i - 1)) = j BY <1>0, <3>1, <4>1
      <4> QED BY <1>3, <1>j, <4>2
    <3> QED BY <1>2, <2>2, <3>1, <3>2
  <2> QED BY <2>1, <2>2
<1>7. DOMAIN R = 1 .. n - 1 BY <1>4, <1>5
<1>8. DOMAIN gs = 1 .. n BY DEF n
<1>9. ASSUME NEW j \in DOMAIN R PROVE \E k \in DOMAIN gs \ {i} : R[j] = gs[k]
  <2>1. CASE j < i
    <3>1. j \in DOMAIN gs \ {i} BY <1>0, <1>7, <1>8, <2>1
    <3> QED BY <1>6, <1>7, <2>1, <3>1
  <2>2. CASE ~(j < i)
    <3>1. j + 1 \in DOMAIN gs \ {i} BY <1>0, <1>7, <1>8, <2>2
    <3> QED BY <1>6, <1>7, <2>2, <3>1
  <2> QED BY <2>1, <2>2
<1>10. ASSUME NEW k \in DOMAIN gs \ {i} PROVE \E j \in DOMAIN R : R[j] = gs[k]
  <2>1. CASE k < i
    <3>1. k \in DOMAIN R BY <1>0, <1>7, <1>8, <2>1
    <3> QED BY <1>6, <1>7, <2>1, <3>1
  <2>2. CASE ~(k < i)
    <3>1. k - 1 \in DOMAIN R /\ ~(k - 1 < i) /\ (k - 1) + 1 = k BY <1>0, <1>7, <1>8, <2>2
    <3> QED BY <1>6, <1>7, <3>1
  <2> QED BY <2>1, <2>2
<1> QED BY <1>4, <1>9, <1>10 DEF R

\* A set of at most one element has no two.
LEMMA AtMostOne ==
    ASSUME NEW S, IsFiniteSet(S), Cardinality(S) <= 1, NEW a \in S, NEW b \in S
    PROVE  a = b
<1> SUFFICES ASSUME a # b PROVE FALSE OBVIOUS
<1>1. IsFiniteSet({a}) /\ Cardinality({a}) = 1 BY FS_Singleton
<1>2. Cardinality({a} \cup {b}) = Cardinality({a}) + 1 BY <1>1, FS_AddElement
<1>3. {a} \cup {b} \in SUBSET S OBVIOUS
<1>4. Cardinality({a} \cup {b}) <= Cardinality(S) BY <1>3, FS_Subset
<1>5. Cardinality(S) \in Nat BY FS_CardinalityType
<1> QED BY <1>1, <1>2, <1>4, <1>5

\* A file's groups name finitely many clients.
LEMMA FewNames ==
    ASSUME NEW gs \in Seq(GroupRecs), NEW key, NEW c
    PROVE  IsFiniteSet(({key} \cup {gs[i].client : i \in DOMAIN gs}) \cap c)
<1> DEFINE T == {gs[i].client : i \in DOMAIN gs}
           f == [i \in DOMAIN gs |-> gs[i].client]
<1>1. IsFiniteSet(DOMAIN gs)
  <2>1. DOMAIN gs = 1 .. Len(gs) /\ Len(gs) \in Int /\ 1 \in Int OBVIOUS
  <2> QED BY <2>1, FS_Interval
<1>2. f \in Surjection(DOMAIN gs, T) BY DEF Surjection
<1>3. IsFiniteSet(T) BY <1>1, <1>2, FS_Surjection
<1> HIDE DEF T
<1>4. IsFiniteSet(T \cup {key}) BY <1>3, FS_AddElement
<1>5. (({key} \cup T) \cap c) \in SUBSET (T \cup {key}) OBVIOUS
<1>6. IsFiniteSet(({key} \cup T) \cap c) BY <1>4, <1>5, FS_Subset
<1> QED BY <1>6 DEF T
-------------------------------------------------------------------------------
\* What a change takes back: it takes the nodes N from group i, in the groups gs that it
\* leaves, and claims that their writes are recorded again.
TakesBack(gs, again) ==
    \E i \in DOMAIN groups : \E N \in SUBSET Parsed(groups[i].nodes) :
        /\ again = Claim(groups[i], N)
        /\ \A j \in DOMAIN gs :
             \/ \E k \in DOMAIN groups \ {i} : gs[j] = groups[k]
             \/ gs[j].client = groups[i].client /\ Parsed(gs[j].nodes) \cap N = {}

\* A change of the group at a position leaves every other one.
Spares(at, gs) ==
    /\ at \in Meant /\ GroupMut(at)
    /\ \A k \in DOMAIN groups \ {at.index} : \E j \in DOMAIN gs : gs[j] = groups[k]

\* What every web request that changes the groups is.
SoundChange(at, gs, again) ==
    /\ Change(at, gs, again)
    /\ gs \in Seq(GroupRecs)
    /\ again = {} \/ TakesBack(gs, again)
    /\ at = NewPlace \/ Spares(at, gs)

\* Nodes added to a group.
LEMMA NodesAdded ==
    ASSUME NEW g \in GroupRecs, NEW texts \in SUBSET Texts
    PROVE  WithNodes(g, texts) \in GroupRecs
<1>1. WithNodes(g, texts) =
        [g EXCEPT !.nodes = g.nodes \cup {t \in texts : ParseNode[t] \notin Parsed(g.nodes)}]
  BY DEF WithNodes, GroupRecs
<1> DEFINE added == {t \in texts : ParseNode[t] \notin Parsed(g.nodes)}
<1>2. added \subseteq Texts OBVIOUS
<1> HIDE DEF added
<1> QED BY <1>1, <1>2 DEF GroupRecs, added

\* The changes of one group, with the same bookkeeping.
LEMMA OneIsSpared ==
    ASSUME NEW at \in Meant, GroupMut(at), groups \in Seq(GroupRecs), NEW g \in GroupRecs
    PROVE  /\ [groups EXCEPT ![at.index] = g] \in Seq(GroupRecs)
           /\ Spares(at, [groups EXCEPT ![at.index] = g])
<1>1. at.index \in DOMAIN groups BY DEF GroupMut
<1> DEFINE i == at.index
           gs == [groups EXCEPT ![i] = g]
<1>2. /\ gs \in Seq(GroupRecs) /\ DOMAIN gs = DOMAIN groups
      /\ \A j \in DOMAIN groups \ {i} : gs[j] = groups[j]
  BY <1>1, OneChanged
<1> HIDE DEF gs
<1>3. Spares(at, gs) BY <1>2 DEF Spares
<1> QED BY <1>2, <1>3 DEF gs

LEMMA ChangesAreSound ==
    ASSUME GroupsInv, CreateGroup \/ RenameGroup \/ AddNodes \/ RemoveNodes \/ DeleteGroup
    PROVE  \E at, gs, again : SoundChange(at, gs, again)
<1>0. groups \in Seq(GroupRecs) BY DEF GroupsInv
<1>1. CASE CreateGroup
  <2>1. PICK name \in GroupNames, client \in ClientKeys, texts \in SUBSET Texts :
            Change(NewPlace, Append(groups, WithNodes(Group(name, client, {}), texts)), {})
    BY <1>1 DEF CreateGroup
  <2>2. Group(name, client, {}) \in GroupRecs BY DEF Group, GroupRecs
  <2>3. WithNodes(Group(name, client, {}), texts) \in GroupRecs BY <2>2, NodesAdded
  <2>4. Append(groups, WithNodes(Group(name, client, {}), texts)) \in Seq(GroupRecs) BY <1>0, <2>3
  <2> QED BY <2>1, <2>4 DEF SoundChange
<1>2. CASE RenameGroup
  <2>1. PICK at \in Meant, name \in GroupNames :
            GroupMut(at) /\ Change(at, [groups EXCEPT ![at.index].name = name], {})
    BY <1>2 DEF RenameGroup
  <2>2. at.index \in DOMAIN groups BY <2>1 DEF GroupMut
  <2>3. groups[at.index] \in GroupRecs BY <1>0, <2>2
  <2> DEFINE g == [groups[at.index] EXCEPT !.name = name]
  <2>4. g \in GroupRecs BY <2>3 DEF GroupRecs
  <2>5. [groups EXCEPT ![at.index].name = name] = [groups EXCEPT ![at.index] = g] OBVIOUS
  <2> HIDE DEF g
  <2>6. /\ [groups EXCEPT ![at.index] = g] \in Seq(GroupRecs)
        /\ Spares(at, [groups EXCEPT ![at.index] = g])
    BY <1>0, <2>1, <2>4, OneIsSpared
  <2> QED BY <2>1, <2>5, <2>6 DEF SoundChange
<1>3. CASE AddNodes
  <2>1. PICK at \in Meant, texts \in SUBSET Texts :
            GroupMut(at) /\ Change(at, [groups EXCEPT ![at.index] = WithNodes(@, texts)], {})
    BY <1>3 DEF AddNodes
  <2>2. at.index \in DOMAIN groups BY <2>1 DEF GroupMut
  <2>3. groups[at.index] \in GroupRecs BY <1>0, <2>2
  <2> DEFINE g == WithNodes(groups[at.index], texts)
  <2>4. g \in GroupRecs BY <2>3, NodesAdded
  <2>5. [groups EXCEPT ![at.index] = WithNodes(@, texts)] = [groups EXCEPT ![at.index] = g] OBVIOUS
  <2> HIDE DEF g
  <2>6. /\ [groups EXCEPT ![at.index] = g] \in Seq(GroupRecs)
        /\ Spares(at, [groups EXCEPT ![at.index] = g])
    BY <1>0, <2>1, <2>4, OneIsSpared
  <2> QED BY <2>1, <2>5, <2>6 DEF SoundChange
<1>4. CASE RemoveNodes
  <2>1. PICK at \in Meant, texts \in SUBSET Texts :
            /\ GroupMut(at)
            /\ LET g == groups[at.index]
                   left == {t \in g.nodes : ParseNode[t] \notin Parsed(texts)}
               IN /\ left # g.nodes
                  /\ Change(at, [groups EXCEPT ![at.index].nodes = left],
                            Claim(g, Parsed(g.nodes \ left)))
    BY <1>4 DEF RemoveNodes
  <2>2. at.index \in DOMAIN groups BY <2>1 DEF GroupMut
  <2> DEFINE i == at.index
             left == {t \in groups[i].nodes : ParseNode[t] \notin Parsed(texts)}
             N == Parsed(groups[i].nodes \ left)
             g == [groups[i] EXCEPT !.nodes = left]
             gs == [groups EXCEPT ![i] = g]
  <2>3. groups[i] \in GroupRecs BY <1>0, <2>2
  <2>4. Change(at, gs, Claim(groups[i], N)) BY <2>1
  <2>5. N \in SUBSET Parsed(groups[i].nodes) BY DEF Parsed
  <2>6. Parsed(left) \cap N = {} BY DEF Parsed
  <2>7. left \in SUBSET groups[i].nodes OBVIOUS
  <2> HIDE DEF left, N
  <2>8. g \in GroupRecs /\ g.client = groups[i].client /\ g.nodes = left
    BY <2>3, <2>7 DEF GroupRecs
  <2> HIDE DEF g
  <2>9. gs \in Seq(GroupRecs) /\ Spares(at, gs) BY <1>0, <2>1, <2>8, OneIsSpared
  <2>10. /\ DOMAIN gs = DOMAIN groups /\ gs[i] = g
         /\ \A j \in DOMAIN groups \ {i} : gs[j] = groups[j]
    BY <1>0, <2>2, <2>8, OneChanged
  <2> HIDE DEF gs, i
  <2>11. i \in DOMAIN groups BY <2>2 DEF i
  <2>12. TakesBack(gs, Claim(groups[i], N))
    BY <2>5, <2>6, <2>8, <2>10, <2>11 DEF TakesBack
  <2> QED BY <2>4, <2>9, <2>12 DEF SoundChange
<1>5. CASE DeleteGroup
  <2>1. PICK at \in Meant :
            /\ GroupMut(at)
            /\ Change(at, RemoveAt(groups, at.index),
                      Claim(groups[at.index], Parsed(groups[at.index].nodes)))
    BY <1>5 DEF DeleteGroup
  <2>2. at.index \in DOMAIN groups BY <2>1 DEF GroupMut
  <2> DEFINE i == at.index
             gs == RemoveAt(groups, i)
  <2>3. /\ gs \in Seq(GroupRecs)
        /\ \A j \in DOMAIN gs : \E k \in DOMAIN groups \ {i} : gs[j] = groups[k]
        /\ \A k \in DOMAIN groups \ {i} : \E j \in DOMAIN gs : gs[j] = groups[k]
    BY <1>0, <2>2, OneRemoved
  <2> HIDE DEF gs
  <2>4. Spares(at, gs) BY <2>1, <2>3 DEF Spares
  <2>5. TakesBack(gs, Claim(groups[i], Parsed(groups[i].nodes))) BY <2>2, <2>3 DEF TakesBack
  <2> QED BY <2>1, <2>3, <2>4, <2>5 DEF SoundChange, gs
<1> QED BY <1>1, <1>2, <1>3, <1>4, <1>5

\* A claim is true when it is made: the groups that were left apply to other writes.
LEMMA ClaimsHold ==
    ASSUME groups \in Seq(GroupRecs), Apart(groups), NEW gs \in Seq(GroupRecs),
           NEW again, TakesBack(gs, again), NEW claim \in again, NEW c,
           Applies([client |-> claim.key], c),
           Cardinality(({claim.key} \cup {gs[i].client : i \in DOMAIN gs}) \cap c) <= 1
    PROVE  ~Matches(gs, claim.node, c)
<1> SUFFICES ASSUME Matches(gs, claim.node, c) PROVE FALSE OBVIOUS
<1> DEFINE calledBy == ({claim.key} \cup {gs[i].client : i \in DOMAIN gs}) \cap c
<1>1. PICK i \in DOMAIN groups : \E N \in SUBSET Parsed(groups[i].nodes) :
        /\ again = Claim(groups[i], N)
        /\ \A j \in DOMAIN gs :
             \/ \E k \in DOMAIN groups \ {i} : gs[j] = groups[k]
             \/ gs[j].client = groups[i].client /\ Parsed(gs[j].nodes) \cap N = {}
  BY DEF TakesBack
<1>2. PICK N \in SUBSET Parsed(groups[i].nodes) :
        /\ again = Claim(groups[i], N)
        /\ \A j \in DOMAIN gs :
             \/ \E k \in DOMAIN groups \ {i} : gs[j] = groups[k]
             \/ gs[j].client = groups[i].client /\ Parsed(gs[j].nodes) \cap N = {}
  BY <1>1
<1>3. claim.key = groups[i].client /\ claim.node \in N BY <1>2 DEF Claim
<1>4. PICK j \in DOMAIN gs : Applies(gs[j], c) /\ claim.node \in Parsed(gs[j].nodes) BY DEF Matches
<1>5. PICK k \in DOMAIN groups \ {i} : gs[j] = groups[k] BY <1>2, <1>3, <1>4
<1>6. GroupsOverlap(groups[i], groups[k])
  <2>1. CASE claim.key = EveryClient \/ gs[j].client = EveryClient BY <1>3, <1>5, <2>1 DEF GroupsOverlap
  <2>2. CASE claim.key # EveryClient /\ gs[j].client # EveryClient
    <3>1. claim.key \in c /\ gs[j].client \in c BY <1>4, <2>2 DEF Applies
    <3>2. claim.key \in calledBy /\ gs[j].client \in calledBy BY <3>1
    <3>3. IsFiniteSet(calledBy) BY FewNames
    <3> HIDE DEF calledBy
    <3>4. Cardinality(calledBy) <= 1 BY DEF calledBy
    <3>5. claim.key = gs[j].client BY <3>2, <3>3, <3>4, AtMostOne
    <3> QED BY <1>3, <1>5, <3>5 DEF GroupsOverlap
  <2> QED BY <2>1, <2>2
<1>7. Parsed(groups[i].nodes) \cap Parsed(groups[k].nodes) = {} BY <1>6 DEF Apart
<1> QED BY <1>2, <1>3, <1>4, <1>5, <1>7

\* The steps of the groups: a file is loaded, a group is seen, a stale request is refused,
\* or the groups change soundly.
LEMMA SumSteps ==
    ASSUME GroupsInv, [SumNext]_sumVars
    PROVE  \/ Load \/ PickGroup \/ Refused \/ UNCHANGED sumVars
           \/ \E at, gs, again : SoundChange(at, gs, again)
  BY ChangesAreSound DEF SumNext

\* The groups stay valid and apart.
LEMMA GroupsKept == GroupsInv /\ [SumNext]_sumVars => GroupsInv'
<1> SUFFICES ASSUME GroupsInv, [SumNext]_sumVars PROVE GroupsInv' OBVIOUS
<1> USE DEF GroupsInv
<1>1. CASE Load
  <2>1. PICK file \in Files :
            LET gs == DropOverlaps(MigrateIgnore(file))
            IN /\ loadedFrom' = file
               /\ IF ValidGroups(gs) THEN groups' = gs /\ phase' = "loaded"
                  ELSE phase' = "refused" /\ UNCHANGED groups
    BY <1>1 DEF Load
  <2> DEFINE gs == DropOverlaps(MigrateIgnore(file))
  <2>2. gs \in Seq(GroupRecs) BY LoadedGroups
  <2> HIDE DEF gs
  <2>3. /\ groups' = groups \/ (groups' = gs /\ ValidGroups(gs))
        /\ phase' # "file"
    BY <2>1 DEF gs
  <2>4. groups' \in Seq(GroupRecs) /\ Apart(groups') BY <2>2, <2>3, ValidApart
  <2> QED BY <1>1, <2>3, <2>4 DEF Load, Apart
<1>2. CASE PickGroup
  <2>1. PICK i \in DOMAIN groups :
            picked' = [index |-> i, check |-> TRUE, name |-> groups[i].name, client |-> groups[i].client]
    BY <1>2 DEF PickGroup
  <2>2. groups[i] \in GroupRecs /\ i \in Nat OBVIOUS
  <2>3. picked' \in SeenGroup BY <2>1, <2>2 DEF GroupRecs, SeenGroup
  <2> QED BY <1>2, <2>3 DEF PickGroup, Apart
<1>3. CASE Refused BY <1>3 DEF Refused, Apart
<1>4. CASE UNCHANGED sumVars BY <1>4 DEF sumVars, Apart
<1>5. ASSUME NEW at, NEW gs, NEW again, SoundChange(at, gs, again) PROVE GroupsInv'
  <2>1. Change(at, gs, again) /\ gs \in Seq(GroupRecs) BY <1>5 DEF SoundChange
  <2>2. Apart(gs) BY <2>1, ValidApart DEF Change
  <2>3. groups' = gs /\ phase' = phase /\ phase = "loaded" /\ groupEdits' = groupEdits + 1 BY <2>1 DEF Change
  <2>4. Apart(groups)' BY <2>2, <2>3 DEF Apart
  <2>5. picked' = NotPicked \/ picked' = picked BY <2>1 DEF Change
  <2> QED BY <2>1, <2>3, <2>4, <2>5
<1> QED BY <1>1, <1>2, <1>3, <1>4, <1>5, SumSteps

LEMMA GroupsInvariance == SumSpec => []GroupsInv
<1>1. SumInit => GroupsInv
  <2> SUFFICES ASSUME SumInit PROVE GroupsInv OBVIOUS
  <2>1. groups = <<>> /\ groupEdits = 0 /\ claimed = {} /\ picked = NotPicked BY DEF SumInit
  <2>2. DOMAIN groups = {} /\ groups \in Seq(GroupRecs) BY <2>1
  <2> QED BY <2>1, <2>2 DEF GroupsInv, Apart
<1> QED BY <1>1, GroupsKept, PTL DEF SumSpec

\* Config::load: whatever the texts, the clients and the limits, a file that is loaded
\* summarises no write that its groups and its old rules did not ask to summarise.
THEOREM LoadingSummarisesNoMore == SumSpec => []LoadSummarisesNoMore
<1>1. SumInit => LoadSummarisesNoMore BY DEF SumInit, LoadSummarisesNoMore
<1>2. LoadSummarisesNoMore /\ GroupsInv /\ [SumNext]_sumVars => LoadSummarisesNoMore'
  <2> SUFFICES ASSUME LoadSummarisesNoMore, GroupsInv, [SumNext]_sumVars PROVE LoadSummarisesNoMore' OBVIOUS
  <2>1. CASE Load
    <3>1. PICK file \in Files :
              LET gs == DropOverlaps(MigrateIgnore(file))
              IN /\ loadedFrom' = file
                 /\ IF ValidGroups(gs) THEN groups' = gs /\ phase' = "loaded"
                    ELSE phase' = "refused" /\ UNCHANGED groups
      BY <2>1 DEF Load
    <3> DEFINE gs == DropOverlaps(MigrateIgnore(file))
    <3>2. \A n, c : Matches(gs, n, c) =>
                \/ Matches(file.groups, n, c)
                \/ \E k \in DOMAIN file.rules :
                     ParseNode[file.rules[k].node] = n /\ Applies(file.rules[k], c)
      BY LoadedGroups
    <3> HIDE DEF gs
    <3>3. loadedFrom' = file /\ (phase' = "loaded" => groups' = gs) BY <3>1 DEF gs
    <3> SUFFICES ASSUME phase' = "loaded", NEW c \in Clients, NEW n \in Nodes, Matches(groups', n, c)
                 PROVE  \/ Matches(loadedFrom'.groups, n, c)
                        \/ \E k \in DOMAIN loadedFrom'.rules :
                             ParseNode[loadedFrom'.rules[k].node] = n /\ Applies(loadedFrom'.rules[k], c)
      BY DEF LoadSummarisesNoMore, Matches, Applies
    <3> QED BY <3>2, <3>3
  <2>2. CASE PickGroup BY <2>2 DEF PickGroup, LoadSummarisesNoMore, Matches
  <2>3. CASE Refused BY <2>3 DEF Refused, LoadSummarisesNoMore, Matches
  <2>4. CASE UNCHANGED sumVars BY <2>4 DEF sumVars, LoadSummarisesNoMore, Matches
  <2>5. ASSUME NEW at, NEW gs, NEW again, SoundChange(at, gs, again) PROVE LoadSummarisesNoMore'
    <3>1. groupEdits' = groupEdits + 1 /\ groupEdits \in Nat BY <2>5 DEF SoundChange, Change, GroupsInv
    <3>2. groupEdits' # 0 BY <3>1
    <3> QED BY <3>2 DEF LoadSummarisesNoMore
  <2> QED BY <2>1, <2>2, <2>3, <2>4, <2>5, SumSteps
<1> QED BY <1>1, <1>2, GroupsInvariance, PTL DEF SumSpec

\* remove_nodes and delete_group: "their writes are recorded again" is true after every
\* change, because validate_summarise keeps groups that apply to the same writes apart.
THEOREM RemovedAreRecorded == SumSpec => []RecordedAgain
<1>1. SumInit => RecordedAgain BY DEF SumInit, RecordedAgain
<1>2. RecordedAgain /\ GroupsInv /\ [SumNext]_sumVars => RecordedAgain'
  <2> SUFFICES ASSUME RecordedAgain, GroupsInv, [SumNext]_sumVars PROVE RecordedAgain' OBVIOUS
  <2>0. ASSUME claimed' = {} PROVE RecordedAgain' BY <2>0 DEF RecordedAgain
  <2>1. CASE Load
    <3>1. claimed' = {} BY <2>1 DEF Load, GroupsInv
    <3> QED BY <2>0, <3>1
  <2>2. CASE groups' = groups /\ claimed' = claimed BY <2>2 DEF RecordedAgain, Matches
  <2>3. CASE PickGroup BY <2>2, <2>3 DEF PickGroup
  <2>4. CASE Refused BY <2>2, <2>4 DEF Refused
  <2>5. CASE UNCHANGED sumVars BY <2>2, <2>5 DEF sumVars
  <2>6. ASSUME NEW at, NEW gs, NEW again, SoundChange(at, gs, again) PROVE RecordedAgain'
    <3>1. groups' = gs /\ claimed' = again /\ gs \in Seq(GroupRecs) BY <2>6 DEF SoundChange, Change
    <3>2. CASE again = {} BY <2>0, <3>1, <3>2
    <3>3. CASE TakesBack(gs, again)
      <4> SUFFICES ASSUME NEW claim \in again, NEW c \in Clients,
                          Applies([client |-> claim.key], c),
                          Cardinality(({claim.key} \cup {gs[i].client : i \in DOMAIN gs}) \cap c) <= 1
                   PROVE  ~Matches(gs, claim.node, c)
        BY <3>1 DEF RecordedAgain, Matches, Applies
      <4> QED BY <3>1, <3>3, ClaimsHold DEF GroupsInv
    <3> QED BY <2>6, <3>2, <3>3 DEF SoundChange
  <2> QED BY <2>1, <2>3, <2>4, <2>5, <2>6, SumSteps
<1> QED BY <1>1, <1>2, GroupsInvariance, PTL DEF SumSpec

\* group_mut: a change of a group that was seen, made however late, leaves every other group
\* as it is.
THEOREM ChangesLandOnSeen == SumSpec => LandsOnSeen
<1> DEFINE Lands ==
        (picked # NotPicked /\ picked' = NotPicked /\ groups' # groups) =>
            \A i \in DOMAIN groups :
                (groups[i].name # picked.name \/ groups[i].client # picked.client)
                    => \E j \in DOMAIN groups' : groups'[j] = groups[i]
<1>1. GroupsInv /\ [SumNext]_sumVars => [Lands]_sumVars
  <2> SUFFICES ASSUME GroupsInv, [SumNext]_sumVars,
                      picked # NotPicked, picked' = NotPicked, groups' # groups,
                      NEW i \in DOMAIN groups,
                      groups[i].name # picked.name \/ groups[i].client # picked.client
               PROVE  \E j \in DOMAIN groups' : groups'[j] = groups[i]
    OBVIOUS
  <2>1. ~Load /\ ~PickGroup /\ ~Refused /\ ~UNCHANGED sumVars BY DEF Load, PickGroup, Refused, sumVars
  <2>2. PICK at, gs, again : SoundChange(at, gs, again) BY <2>1, SumSteps
  <2>3. at = picked /\ groups' = gs BY <2>2 DEF SoundChange, Change
  <2>4. picked \in SeenGroup BY DEF GroupsInv
  <2>5. picked # NewPlace /\ picked.check BY <2>4, SeenIsChecked
  <2>6. Spares(picked, gs) BY <2>2, <2>3, <2>5 DEF SoundChange
  <2>7. i # picked.index BY <2>5, <2>6 DEF Spares, GroupMut
  <2> QED BY <2>3, <2>6, <2>7 DEF Spares
<1>2. SumSpec => [][Lands]_sumVars BY <1>1, GroupsInvariance, PTL DEF SumSpec
<1> QED BY <1>2 DEF LandsOnSeen

\* Type correctness of the summarise groups, of any file and after any change: config.rs.
THEOREM GroupsTyped == SumSpec => []SumTypeOK
<1> DEFINE Phased == phase \in {"file", "loaded", "refused"}
<1>1. SumInit => Phased BY DEF SumInit
<1>2. Phased /\ [SumNext]_sumVars => Phased'
    BY DEF SumNext, Load, PickGroup, Refused, CreateGroup, RenameGroup, AddNodes, RemoveNodes,
           DeleteGroup, Change, sumVars
<1>3. GroupsInv /\ Phased => SumTypeOK
  <2> SUFFICES ASSUME GroupsInv, Phased PROVE SumTypeOK OBVIOUS
  <2>1. \A i \in DOMAIN groups : groups[i] \in GroupRecs BY DEF GroupsInv
  <2>2. picked = NotPicked \/ picked.client \in ClientKeys BY DEF GroupsInv, SeenGroup
  <2> QED BY <2>1, <2>2 DEF SumTypeOK, GroupRecs
<1> QED BY <1>1, <1>2, <1>3, GroupsInvariance, PTL DEF SumSpec
===============================================================================
