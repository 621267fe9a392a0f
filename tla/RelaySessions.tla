---------------------------- MODULE RelaySessions -----------------------------
(***************************************************************************)
(* OPC UA sessions through the gateway (relay/connection.rs: create_session,*)
(* activate_session, close_session and who forward attributes a request to;*)
(* relay/mod.rs: SessionRegistry).  A session belongs to the connection    *)
(* that created or last activated it and may move to another one.          *)
(*                                                                         *)
(* A connection answers several requests at once.  Each reads the registry,*)
(* waits for the upstream server, and writes the registry afterwards; the  *)
(* wait may end with a timeout while the server still executes the request.*)
(* The server is external: it keeps the session's user, the channel it is  *)
(* bound to and its last nonce, as the OPC UA specification demands.       *)
(***************************************************************************)
EXTENDS Integers, FiniteSets

CONSTANTS
    Chans,        \* client connections, each with its upstream connection
    Cert, Rank,   \* of each: the client certificate, and security_rank of the channel;
                  \* ensure_upstream gives the upstream channel the same security
    SesTokens,    \* authentication tokens; the server hands each out once
    SesUsers,     \* identities the clients log in with
    SesReqs,      \* requests, numbered as they are sent (bound of the model)
    MaxLate       \* bound of the model: requests at once that the server gets to after their timeout

ASSUME SesAssumption ==
    /\ SesReqs \subseteq Nat /\ SesUsers # {}
    /\ \A c \in Chans : Rank[c] \in 0..2

VARIABLES
    reg,     \* SessionRegistry: an entry, or NoEntry
    srv,     \* the upstream server's sessions
    sreq,    \* where each request is
    nonces,  \* how many nonces were drawn, by the gateway and by the server
    ended,   \* how many SessionClosed records the trail has, by session
    unsure   \* history: sessions whose user on the server the gateway cannot know

sesVars == <<reg, srv, sreq, nonces, ended, unsure>>

Sends(r) == sreq[r].at = "start" /\ \A q \in SesReqs : sreq[q].at = "start" => r <= q

NoEntry == [none |-> TRUE]
NoUser == "no user"
Unused == {t \in SesTokens : reg[t] = NoEntry /\ srv[t] = NoEntry /\ ended[t] = 0
                             /\ \A r \in SesReqs : sreq[r].at = "start" \/ sreq[r].token # t}

SesInit ==
    /\ reg = [t \in SesTokens |-> NoEntry]
    /\ srv = [t \in SesTokens |-> NoEntry]
    /\ sreq = [r \in SesReqs |-> [at |-> "start"]]
    /\ nonces = 0
    /\ ended = [t \in SesTokens |-> 0]
    /\ unsure = {}

InFlight(r) == sreq[r].at \in {"sent", "executed", "late"}
Activating(t) == {r \in SesReqs : InFlight(r) /\ sreq[r].kind = "activate" /\ sreq[r].token = t}

\* Only what the properties ask about is kept of a request that is over.
Finished(q) ==
    IF q.kind = "activate" /\ q.good /\ Rank[q.conn] > 0
    THEN [at |-> "done", kind |-> "proof", token |-> q.token, dn |-> q.dn]
    ELSE [at |-> "done", kind |-> "other", token |-> q.token]
AnswerOf(q) == IF q.at = "late" THEN Finished(q) ELSE [q EXCEPT !.at = "executed"]
EndOf(r) == sreq' = [sreq EXCEPT ![r] = Finished(@)]
-------------------------------------------------------------------------------
\* What a request does before it waits for the upstream server.

\* create_session, up to the upstream request; the token is the one the server will give
CreateSend(r) ==
    /\ Sends(r)
    /\ \E c \in Chans, t \in Unused :
         sreq' = [sreq EXCEPT ![r] = [at |-> "sent", kind |-> "create", conn |-> c, token |-> t,
                                      sn |-> 0]]
    /\ UNCHANGED <<reg, srv, nonces, ended, unsure>>

\* activate_session: never over a channel less secure than the session's, and on a secured
\* channel with the session's certificate and a signature over the last nonce given
MayActivate(c, e) ==
    /\ Rank[c] >= e.rank
    /\ Rank[c] > 0 => e.rank > 0 /\ Cert[c] = e.cert

\* the users who may come next: as long as none has, it does not matter which is the first
NextUsers ==
    IF /\ \A t \in SesTokens, at \in {reg, srv} : at[t] = NoEntry \/ at[t].user = NoUser
       /\ \A q \in SesReqs : sreq[q].at \in {"start", "done"} \/ sreq[q].kind = "create"
    THEN {CHOOSE u \in SesUsers : TRUE} ELSE SesUsers

ActivateSend(r) ==
    /\ Sends(r)
    /\ \E c \in Chans, t \in SesTokens, u \in NextUsers :
         /\ reg[t] # NoEntry
         /\ MayActivate(c, reg[t])
         /\ sreq' = [q \in SesReqs |->
              IF q = r
              THEN [at |-> "sent", kind |-> "activate", conn |-> c, token |-> t, user |-> u,
                    dn |-> reg[t].dn, un |-> reg[t].un, good |-> FALSE, sn |-> 0,
                    alone |-> Activating(t) = {}]
              ELSE IF sreq[q].at = "sent" /\ sreq[q].kind = "write" /\ sreq[q].token = t
              THEN [sreq[q] EXCEPT !.mixed = TRUE]
              ELSE IF q \in Activating(t) THEN [sreq[q] EXCEPT !.alone = FALSE] ELSE sreq[q]]
         /\ unsure' = IF Activating(t) # {} /\ Rank[c] = 0 THEN unsure \cup {t} ELSE unsure
    /\ UNCHANGED <<reg, srv, nonces, ended>>

\* Mutant: the owner of the session is not asked for.
UserOfToken(t, c) == IF reg[t] # NoEntry THEN reg[t].user ELSE NoUser

\* forward: the user of the session if it belongs to this connection, else nobody
ClientOf(t, c) == IF reg[t] # NoEntry /\ reg[t].owner = c THEN reg[t].user ELSE NoUser

WriteSend(r) ==
    /\ Sends(r)
    /\ \E c \in Chans, t \in SesTokens \ Unused :
         sreq' = [sreq EXCEPT ![r] = [at |-> "sent", kind |-> "write", conn |-> c, token |-> t,
                      rec |-> ClientOf(t, c), by |-> NoUser,
                      mixed |-> Activating(t) # {} \/ t \in unsure]]
    /\ UNCHANGED <<reg, srv, nonces, ended, unsure>>

CloseSend(r) ==
    /\ Sends(r)
    /\ \E c \in Chans, t \in SesTokens \ Unused :
         sreq' = [sreq EXCEPT ![r] = [at |-> "sent", kind |-> "close", conn |-> c, token |-> t]]
    /\ UNCHANGED <<reg, srv, nonces, ended, unsure>>
-------------------------------------------------------------------------------
\* The upstream server executes a request, also one whose answer nobody waits for.

Bound(t, c) == srv[t] # NoEntry /\ srv[t].chan = c

Execute(r) ==
    /\ sreq[r].at \in {"sent", "late"}
    /\ LET t == sreq[r].token
           c == sreq[r].conn
       IN \/ /\ sreq[r].kind = "create"
             /\ srv' = [srv EXCEPT ![t] = [user |-> NoUser, chan |-> c, nonce |-> nonces + 1]]
             /\ nonces' = nonces + 1
             /\ sreq' = [sreq EXCEPT ![r] = AnswerOf([@ EXCEPT !.sn = nonces + 1])]
          \/ /\ sreq[r].kind = "activate"
             /\ IF srv[t] # NoEntry /\ (Rank[c] > 0 => sreq[r].un = srv[t].nonce)
                THEN /\ srv' = [srv EXCEPT ![t] = [user |-> sreq[r].user, chan |-> c,
                                                   nonce |-> nonces + 1]]
                     /\ nonces' = nonces + 1
                     /\ sreq' = [sreq EXCEPT ![r] = AnswerOf([@ EXCEPT !.good = TRUE, !.sn = nonces + 1])]
                ELSE sreq' = [sreq EXCEPT ![r] = AnswerOf(@)] /\ UNCHANGED <<srv, nonces>>
          \/ /\ sreq[r].kind = "write"
             /\ sreq' = [sreq EXCEPT ![r] = AnswerOf([@ EXCEPT !.by =
                           IF srv[t] = NoEntry THEN "ended"
                           ELSE IF Bound(t, c) THEN srv[t].user ELSE "elsewhere"])]
             /\ UNCHANGED <<srv, nonces>>
          \/ /\ sreq[r].kind = "close"
             /\ srv' = [srv EXCEPT ![t] = IF Bound(t, c) THEN NoEntry ELSE @]
             /\ sreq' = [sreq EXCEPT ![r] = AnswerOf(@)] /\ UNCHANGED nonces
    /\ UNCHANGED <<reg, ended, unsure>>

\* it refuses an identity, or ends a session that timed out
ServerRefuses(r) ==
    /\ sreq[r].at = "sent" /\ sreq[r].kind = "activate"
    /\ sreq' = [sreq EXCEPT ![r] = AnswerOf(@)]
    /\ UNCHANGED <<reg, srv, nonces, ended, unsure>>

ServerExpires(t) ==
    /\ srv[t] # NoEntry
    /\ srv' = [srv EXCEPT ![t] = NoEntry]
    /\ UNCHANGED <<reg, sreq, nonces, ended, unsure>>
-------------------------------------------------------------------------------
\* What a request does with the answer.

\* create_session: insert forgets sessions that the server has certainly timed out
CreateAnswer(r) ==
    /\ sreq[r].at = "executed" /\ sreq[r].kind = "create"
    /\ LET c == sreq[r].conn
           t == sreq[r].token
       IN \E old \in SUBSET {x \in SesTokens \ {t} : srv[x] = NoEntry} :
            reg' = [x \in SesTokens |->
              IF x \in old THEN NoEntry
              ELSE IF x # t THEN reg[x]
              ELSE [user |-> NoUser, owner |-> c, cert |-> Cert[c], rank |-> Rank[c],
                    dn |-> nonces + 1,
                    un |-> sreq[r].sn]]
    /\ nonces' = nonces + 1
    /\ EndOf(r)
    /\ UNCHANGED <<srv, ended, unsure>>

\* Mutant: the nonce given to the client stays valid.
KeepsNonce(e, r, serverNonce) ==
    [e EXCEPT !.user = sreq[r].user, !.owner = sreq[r].conn, !.un = serverNonce]

\* activate_session: a good answer gives the session its user, its connection and new nonces
Activated(e, r, serverNonce) ==
    [e EXCEPT !.user = sreq[r].user, !.owner = sreq[r].conn, !.un = serverNonce,
              !.dn = nonces + 1]

ActivateAnswer(r) ==
    /\ sreq[r].at = "executed" /\ sreq[r].kind = "activate"
    /\ LET t == sreq[r].token
       IN IF sreq[r].good /\ reg[t] # NoEntry
          THEN /\ reg' = [reg EXCEPT ![t] =
                    Activated(@, r, sreq[r].sn)]
               /\ nonces' = nonces + 1
               /\ unsure' = IF sreq[r].alone THEN unsure \ {t} ELSE unsure
          ELSE UNCHANGED <<reg, nonces, unsure>>
    /\ EndOf(r)
    /\ UNCHANGED <<srv, ended>>

WriteAnswer(r) ==
    /\ sreq[r].at = "executed" /\ sreq[r].kind = "write"
    /\ EndOf(r)
    /\ UNCHANGED <<reg, srv, nonces, ended, unsure>>

\* close_session: whatever the answer, remove_owned, and the record when it removed one
RemoveOwned(t, c) ==
    IF reg[t] # NoEntry /\ reg[t].owner = c
    THEN /\ reg' = [reg EXCEPT ![t] = NoEntry]
         /\ ended' = [ended EXCEPT ![t] = @ + 1]
    ELSE UNCHANGED <<reg, ended>>

CloseAnswer(r) ==
    /\ sreq[r].at = "executed" /\ sreq[r].kind = "close"
    /\ RemoveOwned(sreq[r].token, sreq[r].conn)
    /\ EndOf(r)
    /\ UNCHANGED <<srv, nonces, unsure>>

\* upstream_timeout: the wait ends with a fault; the server may still get to the request
SesTimeout(r) ==
    /\ sreq[r].at \in {"sent", "executed"}
    /\ sreq[r].at = "sent" => Cardinality({q \in SesReqs : sreq[q].at = "late"}) < MaxLate
    /\ sreq' = [sreq EXCEPT ![r] =
         IF @.at = "sent" THEN [@ EXCEPT !.at = "late"] ELSE Finished(@)]
    /\ IF sreq[r].kind = "close" THEN RemoveOwned(sreq[r].token, sreq[r].conn)
       ELSE UNCHANGED <<reg, ended>>
    /\ unsure' = IF sreq[r].kind = "activate" THEN unsure \cup {sreq[r].token} ELSE unsure
    /\ UNCHANGED <<srv, nonces>>

SesNext ==
    \/ \E r \in SesReqs :
         \/ CreateSend(r) \/ ActivateSend(r) \/ WriteSend(r) \/ CloseSend(r)
         \/ Execute(r) \/ ServerRefuses(r)
         \/ CreateAnswer(r) \/ ActivateAnswer(r) \/ WriteAnswer(r) \/ CloseAnswer(r)
         \/ SesTimeout(r)
    \/ \E t \in SesTokens : ServerExpires(t)
-------------------------------------------------------------------------------
\* The registry and the requests hold what the code puts there.
SesTypeOK ==
    /\ \A t \in SesTokens : reg[t] # NoEntry =>
         /\ reg[t].user \in SesUsers \cup {NoUser} /\ reg[t].owner \in Chans
         /\ reg[t].dn \in 0..nonces /\ reg[t].un \in 0..nonces
    /\ \A r \in SesReqs : sreq[r].at \in {"start", "sent", "executed", "late", "done"}

\* A write that overlapped no activation of its own session, on a session whose user the
\* gateway can know, is recorded under the user as whom the server executed it, or under
\* nobody; never under the user of a session that another connection owns and whose token was
\* only presented; and under nobody only when the session was closed here before.  The two
\* conditions (mixed, unsure) are what the code needs: a write that is in flight together
\* with an activation of its session, or a session whose activation timed out or overlapped
\* another one on an unsecured channel, may be recorded under another user than the server's.
AttributionTruthful ==
    \A r \in SesReqs :
        (sreq[r].at = "executed" /\ sreq[r].kind = "write" /\ ~sreq[r].mixed)
        => \/ sreq[r].rec = sreq[r].by
           \/ sreq[r].by = "ended"
           \/ sreq[r].rec = NoUser /\ (sreq[r].by = "elsewhere" \/ ended[sreq[r].token] = 1)

\* On a secured channel a nonce given to a client proves its key for one activation only,
\* though two activations may both read it before either is answered: the second one
\* carries an upstream nonce that the first has used up.
NonceProvesOnce ==
    \A r, q \in SesReqs :
        (/\ r # q /\ \A x \in {r, q} : sreq[x].at = "done" /\ sreq[x].kind = "proof"
         /\ sreq[r].token = sreq[q].token)
        => sreq[r].dn # sreq[q].dn

\* A session created on a secured channel belongs at any time to a connection that is at
\* least as secure and that proved the certificate the session was created with.
OwnerProvedKey ==
    \A t \in SesTokens : reg[t] # NoEntry =>
        /\ Rank[reg[t].owner] >= reg[t].rank
        /\ reg[t].rank > 0 => Cert[reg[t].owner] = reg[t].cert

\* Every owner of a session proved the key of its certificate, each with a nonce of its own.
OwnershipProved == OwnerProvedKey /\ NonceProvesOnce

SesSpec == SesInit /\ [][SesNext]_sesVars
===============================================================================
