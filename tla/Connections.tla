----------------------------- MODULE Connections ------------------------------
(***************************************************************************)
(* One target's listener and its client connections: Admission and serve   *)
(* (relay/mod.rs), and the life of a connection from the accept to the     *)
(* release of its slot, with its secure channel, its upstream connection   *)
(* and the trust in both certificates (relay/connection.rs).               *)
(*                                                                         *)
(* The accept loop admits connections one at a time.  While it writes the  *)
(* records of the refusals it took from the counters it accepts nobody; a  *)
(* record may be refused, and what was not reported when the loop ends is  *)
(* never reported.  Every connection is a task of its own, and a task that *)
(* ends outside its guard keeps its slot.  Revoking trust is two steps of  *)
(* a web request: the certificate leaves the trust list, then a version    *)
(* number is bumped that every connection watches.  A connection that      *)
(* waits for its upstream connection looks at neither.                     *)
(***************************************************************************)
EXTENDS Integers, FiniteSets

CONSTANTS
    Addresses,     \* client addresses
    Conns,         \* connections, numbered as they are attempted (bound of the model)
    MaxTotal,      \* max_connections
    MaxOfAddress,  \* max_connections_per_address
    Burst,         \* new connections at once per address (2 * CONNECTION_RATE)
    MaxRevoked     \* bound of the model: how often trust is revoked

ASSUME ConAssumption ==
    /\ MaxTotal \in Nat /\ MaxOfAddress \in Nat /\ Burst \in Nat \ {0} /\ MaxRevoked \in Nat
    /\ Conns \subseteq Nat /\ Addresses # {}

VARIABLES
    active,     \* Admission.active
    address,    \* Admission.addresses: active, tokens and refused, or Unknown
    con,        \* each connection
    trusted,    \* the trust list: "client" and "server" certificates
    version,    \* RelayTarget.trust_changed
    revoking,   \* certificates off the trust list whose bump has not come yet
    serving,    \* the target's shutdown token is not cancelled
    accepting,  \* the accept loop runs
    taken,      \* what the accept loop took from the counters and has yet to record
    refusals,   \* history: connections refused, by address
    reported,   \* history: sum of the ConnectionsRefused records, by address
    unreported  \* history: refusals whose record was refused, or that nobody will report

\* what the web requests on trust and the connections' own steps leave alone
counters == <<active, address, taken, accepting, refusals, reported, unreported>>
conVars == <<counters, con, trusted, version, revoking, serving>>

Arriving(c) == con[c].at = "none" /\ \A d \in Conns : con[d].at = "none" => c <= d
Unknown == [unknown |-> TRUE]
Certs == {"client", "server"}

ConInit ==
    /\ active = 0
    /\ address = [a \in Addresses |-> Unknown]
    /\ con = [c \in Conns |-> [at |-> "none"]]
    /\ trusted = Certs
    /\ version = 0
    /\ revoking = {}
    /\ serving = TRUE
    /\ accepting = TRUE
    /\ taken = [a \in Addresses |-> 0]
    /\ refusals = [a \in Addresses |-> 0]
    /\ reported = [a \in Addresses |-> 0]
    /\ unreported = [a \in Addresses |-> 0]
-------------------------------------------------------------------------------
\* Admission

\* the state of an address, as entry().or_insert() finds it
StateOf(a) == IF address[a] = Unknown THEN [active |-> 0, tokens |-> Burst, refused |-> 0]
              ELSE address[a]

\* the addresses that may connect next: it does not matter which is the first
NextAddresses ==
    IF \A c \in Conns : con[c].at = "none" THEN {CHOOSE a \in Addresses : TRUE} ELSE Addresses

\* the accept loop is at its select, not writing records; once the token is cancelled it may
\* still take one of the other branches that are ready
AtSelect == accepting /\ \A a \in Addresses : taken[a] = 0

\* accept and admit: a slot, or one refusal more
Accept(c) ==
    /\ AtSelect /\ Arriving(c)
    /\ \E a \in NextAddresses :
         LET s == StateOf(a)
         IN IF active >= MaxTotal \/ s.active >= MaxOfAddress \/ s.tokens < 1
            THEN /\ address' = [address EXCEPT ![a] = [s EXCEPT !.refused = @ + 1]]
                 /\ refusals' = [refusals EXCEPT ![a] = @ + 1]
                 /\ con' = [con EXCEPT ![c] = [at |-> "refused"]]
                 /\ UNCHANGED active
            ELSE /\ address' = [address EXCEPT ![a] = [s EXCEPT !.active = @ + 1,
                                                                !.tokens = @ - 1]]
                 /\ active' = active + 1
                 /\ con' = [con EXCEPT ![c] = [at |-> "handshake", from |-> a]]
                 /\ UNCHANGED refusals
    /\ UNCHANGED <<trusted, version, revoking, serving, accepting, taken, reported, unreported>>

\* a second passes: the address may open connections again
Refill ==
    /\ \E a \in Addresses :
         /\ address[a] # Unknown /\ address[a].tokens < Burst
         /\ address' = [address EXCEPT ![a].tokens = @ + 1]
    /\ UNCHANGED <<active, con, trusted, version, revoking, serving, accepting, taken,
                   refusals, reported, unreported>>

\* report.tick: take_refused empties the counts and forgets idle addresses
Forgotten(a, idle) == idle /\ address[a].active = 0

\* Mutant: idle addresses are forgotten before their refusals are taken.
RetainFirst(a, idle) ==
    IF address[a] = Unknown \/ Forgotten(a, idle) THEN 0 ELSE address[a].refused

RefusedOf(a, idle) == IF address[a] = Unknown THEN 0 ELSE address[a].refused

Report ==
    /\ AtSelect
    /\ \E old \in SUBSET {a \in Addresses : address[a] # Unknown} :
         /\ address' = [a \in Addresses |->
              IF address[a] = Unknown \/ Forgotten(a, a \in old) THEN Unknown
              ELSE [address[a] EXCEPT !.refused = 0]]
         /\ taken' = [a \in Addresses |-> RefusedOf(a, a \in old)]
    /\ UNCHANGED <<active, con, trusted, version, revoking, serving, accepting,
                   refusals, reported, unreported>>

\* one ConnectionsRefused record for an address, in any order; an error is ignored
RecordRefused(a) ==
    /\ taken[a] > 0
    /\ taken' = [taken EXCEPT ![a] = 0]
    /\ \/ reported' = [reported EXCEPT ![a] = @ + taken[a]] /\ UNCHANGED unreported
       \/ unreported' = [unreported EXCEPT ![a] = @ + taken[a]] /\ UNCHANGED reported
    /\ UNCHANGED <<active, address, con, trusted, version, revoking, serving, accepting, refusals>>

\* the loop sees the cancelled token and ends, with the counts since the last report
LoopEnds ==
    /\ AtSelect /\ ~serving
    /\ accepting' = FALSE
    /\ unreported' = [a \in Addresses |-> unreported[a] + StateOf(a).refused]
    /\ UNCHANGED <<active, address, con, trusted, version, revoking, serving, taken,
                   refusals, reported>>

\* release, when the connection's task is through
Release(c) ==
    /\ con[c].at = "ended"
    /\ con' = [con EXCEPT ![c] = [at |-> "released"]]
    /\ active' = IF active > 0 THEN active - 1 ELSE 0
    /\ address' = LET a == con[c].from
                  IN IF address[a] = Unknown THEN address
                     ELSE [address EXCEPT ![a].active = IF @ > 0 THEN @ - 1 ELSE 0]
    /\ UNCHANGED <<trusted, version, revoking, serving, accepting, taken,
                   refusals, reported, unreported>>

\* the task ends abnormally outside its guard, in the handshake or in the cleanup: nobody
\* calls release
Leak(c) ==
    /\ con[c].at \in {"handshake", "ended"}
    /\ con' = [con EXCEPT ![c].at = "leaked"]
    /\ UNCHANGED <<counters, trusted, version, revoking, serving>>
-------------------------------------------------------------------------------
\* A connection

Is(c, where) == con[c].at = where
Becomes(c, r) == con' = [con EXCEPT ![c] = r]
Rest == UNCHANGED <<counters, trusted, version, revoking, serving>>

\* Downstream::accept, then the connection subscribes to the changes of trust
Handshake(c) ==
    /\ Is(c, "handshake")
    /\ \/ Becomes(c, [at |-> "ended", from |-> con[c].from])
       \/ Becomes(c, [at |-> "open", from |-> con[c].from, issued |-> FALSE, secured |-> FALSE,
                      upstream |-> FALSE, seen |-> version])
    /\ Rest

\* close: only the error is still written out
Closing(c) == Becomes(c, [at |-> "closing", from |-> con[c].from])

\* open_secure_channel: issue and renewal check the client's certificate on a secured
\* channel; anything wrong closes the connection
ClientAccepted(c, secured) == secured => "client" \in trusted

OpenSecureChannel(c) ==
    /\ Is(c, "open")
    /\ \E secured \in BOOLEAN :
         /\ con[c].issued => secured = con[c].secured
         /\ IF ClientAccepted(c, secured)
            THEN Becomes(c, [con[c] EXCEPT !.issued = TRUE, !.secured = secured])
            ELSE Closing(c)
    /\ Rest

\* a request before the channel, a second issue, a renewal that changes the mode or repeats
\* its nonce, a transport error, an expired token, a closed channel
ProtocolError(c) == Is(c, "open") /\ Closing(c) /\ Rest

\* ensure_upstream: the server's certificate is checked, then the connection is made, and
\* nothing else of this connection runs meanwhile
UpstreamConnect(c) ==
    /\ Is(c, "open") /\ con[c].issued /\ ~con[c].upstream
    /\ IF con[c].secured /\ "server" \notin trusted
       THEN UNCHANGED con                         \* CertificateRejected, a fault
       ELSE Becomes(c, [con[c] EXCEPT !.at = "connecting"])
    /\ Rest

UpstreamAnswer(c) ==
    /\ Is(c, "connecting")
    /\ \E connected \in BOOLEAN :
         Becomes(c, [con[c] EXCEPT !.at = "open", !.upstream = connected])
    /\ Rest

LinkLost(c) ==
    /\ Is(c, "open") /\ con[c].upstream
    /\ Closing(c)
    /\ Rest

\* Mutant: the server's certificate is not checked again.
ClientOnly(c) == con[c].secured => "client" \in trusted

\* trust.changed: the change is marked as seen, then both certificates are checked
StillTrusted(c) ==
    con[c].secured => /\ "client" \in trusted
                      /\ con[c].upstream => "server" \in trusted

TrustChanged(c) ==
    /\ Is(c, "open") /\ con[c].seen < version
    /\ IF StillTrusted(c) THEN Becomes(c, [con[c] EXCEPT !.seen = version]) ELSE Closing(c)
    /\ Rest

\* the target stops or is reconfigured
SeesShutdown(c) == Is(c, "open") /\ ~serving /\ Closing(c) /\ Rest

\* the loop ends (or panics, which is caught): finish_audited, the upstream connection is
\* closed, the client leaves the list, ClientDisconnected is recorded
Finish(c) ==
    /\ con[c].at \in {"open", "closing", "connecting"}
    /\ Becomes(c, [at |-> "ended", from |-> con[c].from])
    /\ Rest
-------------------------------------------------------------------------------
\* The web requests on trust

\* untrust: the file leaves the trust list, then recheck_trust
Untrust ==
    /\ \E k \in trusted \ revoking : trusted' = trusted \ {k} /\ revoking' = revoking \cup {k}
    /\ version + Cardinality(revoking) < MaxRevoked
    /\ UNCHANGED <<counters, con, version, serving>>

RecheckTrust ==
    /\ \E k \in revoking : revoking' = revoking \ {k}
    /\ version' = version + 1
    /\ UNCHANGED <<counters, con, trusted, serving>>

\* trust_rejected: a certificate from pki/rejected is trusted (again)
TrustRejected ==
    /\ \E k \in Certs \ (trusted \cup revoking) : trusted' = trusted \cup {k}
    /\ UNCHANGED <<counters, con, version, revoking, serving>>

StopTarget ==
    /\ serving /\ serving' = FALSE
    /\ UNCHANGED <<counters, con, trusted, version, revoking>>

ConNext ==
    \/ \E c \in Conns :
         \/ Accept(c) \/ Handshake(c) \/ OpenSecureChannel(c) \/ ProtocolError(c)
         \/ UpstreamConnect(c) \/ UpstreamAnswer(c) \/ LinkLost(c)
         \/ TrustChanged(c) \/ SeesShutdown(c) \/ Finish(c) \/ Release(c) \/ Leak(c)
    \/ \E a \in Addresses : RecordRefused(a)
    \/ Refill \/ Report \/ LoopEnds \/ Untrust \/ RecheckTrust \/ TrustRejected \/ StopTarget
-------------------------------------------------------------------------------
\* The counters and the stages are the ones the code has.
ConTypeOK ==
    /\ active \in Nat /\ version \in 0..MaxRevoked /\ trusted \subseteq Certs
    /\ \A c \in Conns : con[c].at \in {"none", "refused", "handshake", "open", "connecting",
                                       "closing", "ended", "leaked", "released"}
    /\ accepting \in BOOLEAN /\ taken \in [Addresses -> Nat]
    /\ \A a \in Addresses : address[a] # Unknown => address[a].tokens \in 0..Burst

HasSlot(c) == con[c].at \notin {"none", "refused", "released"}

\* The slots counted are exactly those of the connections that run and of those whose task
\* ended outside its guard, in total and for each address, though addresses are forgotten and
\* counted again; so the limits hold, and only such an end keeps a slot for good.
SlotsCounted ==
    /\ active = Cardinality({c \in Conns : HasSlot(c)})
    /\ active <= MaxTotal
    /\ \A a \in Addresses :
         LET here == Cardinality({c \in Conns : HasSlot(c) /\ con[c].from = a})
         IN here = StateOf(a).active /\ here <= MaxOfAddress

\* the refusals that the next report will take
Due(a) == IF accepting THEN StateOf(a).refused ELSE 0

\* Every refused connection is accounted for once: it is in a ConnectionsRefused record, in
\* the accept loop's hands, counted for the next report, or left unreported because the trail
\* refused its record or the loop ended before its report.
RefusalsReported ==
    \A a \in Addresses : refusals[a] = reported[a] + unreported[a] + taken[a] + Due(a)

StillOnList(c) == con[c].secured =>
    "client" \in trusted /\ (con[c].upstream => "server" \in trusted)

\* A connection that has seen the last change of trust and still talks uses certificates
\* that are on the trust list, also when the trust was revoked while it was opening its
\* channel or waiting for its upstream connection.
RevokedNeverUsed ==
    \A c \in Conns :
        (Is(c, "open") /\ con[c].seen = version /\ revoking = {}) => StillOnList(c)

\* The counters of Admission tell the truth: about the connections that hold a slot, within
\* the limits, and about the refused ones, of which none is reported twice and none gets lost
\* but with a refused record or with the end of the loop.
AdmissionCounts == SlotsCounted /\ RefusalsReported

ConSpec == ConInit /\ [][ConNext]_conVars
===============================================================================
