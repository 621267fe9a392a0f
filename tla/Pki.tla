---------------------------------- MODULE Pki ----------------------------------
(***************************************************************************)
(* The gateway's own certificate and private key (pki.rs): two files that  *)
(* are replaced one after the other by an import or a regeneration, the    *)
(* backup taken before, and the check and restore at the next start.  A    *)
(* pair is a number; a file holds the number of the pair it belongs to, 0  *)
(* when it does not exist.  The handlers take no lock, so two of them      *)
(* interleave between their file operations.                               *)
(***************************************************************************)
EXTENDS Integers, FiniteSets, FiniteSetsExt

CONSTANTS PkReqs,      \* requests that replace the pair
          Stamps,      \* seconds of the clock, the names of the backups
          MaxPairs,    \* bound: pairs generated or imported
          MaxPkFaults  \* bound: crashes and failing file operations

ASSUME PkiAssumption ==
    /\ Stamps \subseteq Nat
    /\ \E last \in Stamps : \A t \in Stamps : t <= last
    /\ MaxPairs \in Nat /\ MaxPkFaults \in Nat

VARIABLES
    pkCert, pkKey,   \* own/cert.der and private/private.pem
    pkBak,           \* the backup of each second, a missing file is 0
    pkNow,           \* the clock, in seconds
    pkUp,            \* "off", "key" and "cert" while a start writes the files, "on"
    pkNew,           \* the pair a start writes
    pkReq,           \* the requests: [pc, pair, stamp]
    pkUsed,          \* the pair the relays present, as they read it when they started
    pkPairs,         \* the pairs made so far
    pkFaults,        \* the faults so far
    pkLast,          \* history: the pair that was last installed completely
    pkRaced,         \* history: two requests replaced the pair at once
    pkBack,          \* history: the clock went back
    pkOver           \* history: a backup of a pair in change took the name of one of the same second

pkVars == <<pkCert, pkKey, pkBak, pkNow, pkUp, pkNew, pkReq, pkUsed, pkPairs, pkFaults,
            pkLast, pkRaced, pkBack, pkOver>>

NoPair == [cert |-> 0, key |-> 0]
NoRequest == [pc |-> "idle", pair |-> 0, stamp |-> 0]
PairIds == 0 .. MaxPairs

PkTypeOK ==
    /\ pkCert \in PairIds /\ pkKey \in PairIds
    /\ pkBak \in [Stamps -> [cert : PairIds, key : PairIds]]
    /\ pkNow \in Stamps
    /\ pkUp \in {"off", "key", "cert", "on"}
    /\ pkNew \in [cert : PairIds, key : PairIds]
    /\ pkReq \in [PkReqs -> [pc : {"idle", "copyCert", "copyKey", "key", "cert", "restart"},
                             pair : PairIds, stamp : Stamps \cup {0}]]
    /\ pkUsed \in [cert : PairIds, key : PairIds]
    /\ pkPairs \in PairIds /\ pkFaults \in 0 .. MaxPkFaults
    /\ pkLast \in PairIds
    /\ pkRaced \in BOOLEAN /\ pkBack \in BOOLEAN /\ pkOver \in BOOLEAN

PkInit ==
    /\ pkCert = 0 /\ pkKey = 0
    /\ pkBak = [t \in Stamps |-> NoPair]
    /\ pkNow = Min(Stamps)
    /\ pkUp = "off" /\ pkNew = NoPair
    /\ pkReq = [r \in PkReqs |-> NoRequest]
    /\ pkUsed = NoPair
    /\ pkPairs = 0 /\ pkFaults = 0
    /\ pkLast = 0
    /\ pkRaced = FALSE /\ pkBack = FALSE /\ pkOver = FALSE

---------------------------------------------------------------------------
\* check_key_pair: the key signs for the certificate.
PairMatches(files) == files.cert = files.key

\* Both files can be read: without one of them there is nothing to check.
Readable(files) == files.cert # 0 /\ files.key # 0

\* The pair restore_backup puts back: of the newest second whose pair matches.
Restorable(bak) ==
    LET good == {t \in DOMAIN bak : Readable(bak[t]) /\ PairMatches(bak[t])}
    IN  IF good = {} THEN {} ELSE {bak[Max(good)]}

\* Mutant: the key is not kept.
KeepsCertOnly(bak, t) == bak

\* backup_own copies the second file too when it exists.
CopiedKey(bak, t) == [bak EXCEPT ![t].key = IF pkKey = 0 THEN @ ELSE pkKey]

Own == [cert |-> pkCert, key |-> pkKey]

---------------------------------------------------------------------------
\* run: ensure_own_certificate reads the pair, takes it when it matches.
StartReady ==
    /\ pkUp = "off"
    /\ Readable(Own) /\ PairMatches(Own)
    /\ pkUp' = "on" /\ pkUsed' = Own
    /\ UNCHANGED <<pkCert, pkKey, pkBak, pkNow, pkNew, pkReq, pkPairs, pkFaults,
                   pkLast, pkRaced, pkBack, pkOver>>

\* A file is missing: create_own makes a new pair.
StartCreates ==
    /\ pkUp = "off"
    /\ ~Readable(Own)
    /\ pkPairs < MaxPairs
    /\ pkPairs' = pkPairs + 1 /\ pkNew' = [cert |-> pkPairs + 1, key |-> pkPairs + 1]
    /\ pkUp' = "key"
    /\ UNCHANGED <<pkCert, pkKey, pkBak, pkNow, pkReq, pkUsed, pkFaults,
                   pkLast, pkRaced, pkBack, pkOver>>

\* The pair does not match: restore_backup, or the start fails and the process ends.
StartRestores ==
    /\ pkUp = "off"
    /\ Readable(Own) /\ ~PairMatches(Own)
    /\ \E pair \in Restorable(pkBak) : pkNew' = pair
    /\ pkUp' = "key"
    /\ UNCHANGED <<pkCert, pkKey, pkBak, pkNow, pkReq, pkUsed, pkPairs, pkFaults,
                   pkLast, pkRaced, pkBack, pkOver>>

\* create_own and restore_backup write the key and then the certificate, each in one step.
StartWritesKey ==
    /\ pkUp = "key"
    /\ pkKey' = pkNew.key /\ pkUp' = "cert"
    /\ UNCHANGED <<pkCert, pkBak, pkNow, pkNew, pkReq, pkUsed, pkPairs, pkFaults,
                   pkLast, pkRaced, pkBack, pkOver>>

StartWritesCert ==
    /\ pkUp = "cert"
    /\ pkCert' = pkNew.cert /\ pkUp' = "on"
    /\ pkUsed' = [cert |-> pkNew.cert, key |-> pkKey]
    /\ pkLast' = IF pkLast = 0 THEN pkNew.cert ELSE pkLast
    /\ UNCHANGED <<pkKey, pkBak, pkNow, pkNew, pkReq, pkPairs, pkFaults, pkRaced, pkBack, pkOver>>

---------------------------------------------------------------------------
\* A request that imports a pair it has checked, or generates one, takes the stamp of its backup.
ReplaceOwn(r) ==
    /\ pkUp = "on" /\ pkReq[r].pc = "idle"
    /\ pkPairs < MaxPairs
    /\ pkPairs' = pkPairs + 1
    /\ pkReq' = [pkReq EXCEPT ![r] = [pc |-> "copyCert", pair |-> pkPairs + 1, stamp |-> pkNow]]
    /\ LET others == {q \in PkReqs : pkReq[q].pc # "idle"}
           named  == pkBak[pkNow] # NoPair \/ \E q \in others : pkReq[q].stamp = pkNow
       IN  /\ pkRaced' = (pkRaced \/ others # {})
           /\ pkOver' = (pkOver \/ (named /\ (others # {} \/ ~PairMatches(Own))))
    /\ UNCHANGED <<pkCert, pkKey, pkBak, pkNow, pkUp, pkNew, pkUsed, pkFaults, pkLast, pkBack>>

\* backup_own: the certificate, then the key, over a backup of the same second.
BackupCert(r) ==
    LET t == pkReq[r].stamp
    IN  /\ pkReq[r].pc = "copyCert"
        /\ pkBak' = [pkBak EXCEPT ![t].cert = pkCert]
        /\ pkReq' = [pkReq EXCEPT ![r].pc = "copyKey"]
        /\ UNCHANGED <<pkCert, pkKey, pkNow, pkUp, pkNew, pkUsed, pkPairs, pkFaults,
                       pkLast, pkRaced, pkBack, pkOver>>

BackupKey(r) ==
    LET t == pkReq[r].stamp
    IN  /\ pkReq[r].pc = "copyKey"
        /\ pkBak' = CopiedKey(pkBak, t)
        /\ pkReq' = [pkReq EXCEPT ![r].pc = "key"]
        /\ UNCHANGED <<pkCert, pkKey, pkNow, pkUp, pkNew, pkUsed, pkPairs, pkFaults,
                       pkLast, pkRaced, pkBack, pkOver>>

\* The key first, then the certificate, each replaced in one step.
InstallKey(r) ==
    /\ pkReq[r].pc = "key"
    /\ pkKey' = pkReq[r].pair
    /\ pkReq' = [pkReq EXCEPT ![r].pc = "cert"]
    /\ UNCHANGED <<pkCert, pkBak, pkNow, pkUp, pkNew, pkUsed, pkPairs, pkFaults,
                   pkLast, pkRaced, pkBack, pkOver>>

InstallCert(r) ==
    /\ pkReq[r].pc = "cert"
    /\ pkCert' = pkReq[r].pair
    /\ pkLast' = pkReq[r].pair
    /\ pkReq' = [pkReq EXCEPT ![r].pc = "restart"]
    /\ UNCHANGED <<pkKey, pkBak, pkNow, pkUp, pkNew, pkUsed, pkPairs, pkFaults, pkRaced, pkBack, pkOver>>

\* restart_all: the relays start again with the pair they read from the files.
RestartRelays(r) ==
    /\ pkReq[r].pc = "restart"
    /\ pkUsed' = Own
    /\ pkReq' = [pkReq EXCEPT ![r] = NoRequest]
    /\ UNCHANGED <<pkCert, pkKey, pkBak, pkNow, pkUp, pkNew, pkPairs, pkFaults,
                   pkLast, pkRaced, pkBack, pkOver>>

\* A copy that these requests were making is left in part, which reads as no file.
Torn(requests) ==
    [t \in Stamps |->
        LET at(pc) == \E q \in requests : pkReq[q].stamp = t /\ pkReq[q].pc = pc
        IN  [cert |-> IF at("copyCert") THEN 0 ELSE pkBak[t].cert,
             key  |-> IF at("copyKey") THEN 0 ELSE pkBak[t].key]]

\* A file operation fails: the request answers with the error and leaves the rest as it is.
FileFails(r) ==
    /\ pkReq[r].pc \in {"copyCert", "copyKey", "key", "cert"}
    /\ pkFaults < MaxPkFaults /\ pkFaults' = pkFaults + 1
    /\ \E part \in SUBSET {r} : pkBak' = Torn(part)
    /\ pkReq' = [pkReq EXCEPT ![r] = NoRequest]
    /\ UNCHANGED <<pkCert, pkKey, pkNow, pkUp, pkNew, pkUsed, pkPairs,
                   pkLast, pkRaced, pkBack, pkOver>>

\* The process ends at any point.
Crash ==
    /\ pkUp # "off"
    /\ pkFaults < MaxPkFaults /\ pkFaults' = pkFaults + 1
    /\ \E part \in SUBSET PkReqs : pkBak' = Torn(part)
    /\ pkUp' = "off" /\ pkNew' = NoPair /\ pkUsed' = NoPair
    /\ pkReq' = [r \in PkReqs |-> NoRequest]
    /\ UNCHANGED <<pkCert, pkKey, pkNow, pkPairs, pkLast, pkRaced, pkBack, pkOver>>

\* The clock is set, or goes on.
ClockChanges ==
    /\ \E t \in Stamps \ {pkNow} : pkNow' = t /\ pkBack' = (pkBack \/ t < pkNow)
    /\ UNCHANGED <<pkCert, pkKey, pkBak, pkUp, pkNew, pkReq, pkUsed, pkPairs, pkFaults,
                   pkLast, pkRaced, pkOver>>

PkNext ==
    \/ StartReady \/ StartCreates \/ StartRestores \/ StartWritesKey \/ StartWritesCert
    \/ \E r \in PkReqs :
          \/ ReplaceOwn(r) \/ BackupCert(r) \/ BackupKey(r) \/ InstallKey(r) \/ InstallCert(r)
          \/ RestartRelays(r) \/ FileFails(r)
    \/ Crash \/ ClockChanges

PkSpec == PkInit /\ [][PkNext]_pkVars
---------------------------------------------------------------------------
(* Whatever an import, a regeneration or a start was doing when the        *)
(* process ended, and with two of them at once, ensure_own_certificate     *)
(* does not refuse the next start: the pair matches, a file is missing, or *)
(* a backup matches.  The exception is a backup made while the pair was in *)
(* change that took the name of one of the same second (pki.rs:379).       *)
StartsAgain ==
    pkOver \/ ~Readable(Own) \/ PairMatches(Own) \/ Restorable(pkBak) # {}

(* While nothing replaces it, the relays present the pair that was last    *)
(* installed completely: an import that failed or was cut short changes    *)
(* nothing, neither now nor after the next start.  Two requests at once, a *)
(* clock that went back and an overwritten backup are the exceptions.      *)
PresentsLastInstalled ==
    (pkUp = "on" /\ (\A r \in PkReqs : pkReq[r].pc = "idle") /\ ~pkRaced /\ ~pkBack /\ ~pkOver)
        => pkUsed = [cert |-> pkLast, key |-> pkLast]

(* An import, a regeneration or a start that is cut short is harmless: the *)
(* gateway starts again, and with the pair it had.                         *)
InterruptionsHarmless == StartsAgain /\ PresentsLastInstalled
================================================================================
