------------------------------ MODULE LoginLimit ------------------------------
(***************************************************************************)
(* The limits on failed logins (web/auth.rs).                              *)
(*                                                                         *)
(* A login is refused while its address is blocked; it then waits for one  *)
(* of a few permits, checks the password, and counts a failure by address  *)
(* and by user name, each under a lock of its own.  The login that starts  *)
(* a block records it, in the second of two awaited records: the trail may *)
(* refuse either one, which the login ignores, and the whole handler may   *)
(* be dropped while it waits.  Logins that passed the first check while    *)
(* another one starts the block keep counting.                             *)
(***************************************************************************)
EXTENDS Integers, FiniteSets

CONSTANTS
    LimAddresses,     \* client addresses
    LimUsers,         \* user names that are tried
    Logins,           \* login requests, numbered as they arrive (bound of the model)
    MaxPerAddress,    \* MAX_FAILURES_PER_ADDRESS
    MaxPerUser,       \* MAX_FAILURES_PER_USER
    ConcurrentChecks, \* CONCURRENT_CHECKS
    MaxExpiries       \* bound of the model: how often a BLOCK_TIME passes

ASSUME LimAssumption ==
    /\ MaxPerAddress \in Nat \ {0} /\ MaxPerUser \in Nat \ {0}
    /\ ConcurrentChecks \in Nat \ {0} /\ MaxExpiries \in Nat /\ Logins \subseteq Nat

VARIABLES
    login,     \* where each login is
    failures,  \* Sessions.by_address and by_user: count, and whether BLOCK_TIME has passed
    told,      \* the ConnectionsRefused record of the current block: still "no", "stored", or "cut"
               \* (the trail refused it, or the login that had to ask for it was dropped)
    expiries   \* history: how often a BLOCK_TIME passed

limVars == <<login, failures, told, expiries>>

Arrives(l) == login[l].at = "start" /\ \A k \in Logins : login[k].at = "start" => l <= k

Keys == LimAddresses \cup LimUsers
Limit(k) == IF k \in LimAddresses THEN MaxPerAddress ELSE MaxPerUser
None == [count |-> 0, old |-> FALSE]

LimInit ==
    /\ login = [l \in Logins |-> [at |-> "start"]]
    /\ failures = [k \in Keys |-> None]
    /\ told = [k \in Keys |-> "no"]
    /\ expiries = 0

\* Failures::blocked
Blocked(k) == failures[k].count >= Limit(k) /\ ~failures[k].old

\* Mutant: old failures go on counting.
AddForever(f) == [count |-> f.count + 1, old |-> FALSE]

\* Failures::add: a count older than BLOCK_TIME starts again
Added(f) == [count |-> (IF f.old THEN 0 ELSE f.count) + 1, old |-> FALSE]

\* the logins that hold a permit: it goes when the handler ends, however it ends
Checking == {l \in Logins : login[l].at \in {"checking", "wrong", "failing", "blocking"}}

At(l, where) == login' = [login EXCEPT ![l].at = where]

\* login: refused while the address is blocked
Arrive(l) ==
    /\ Arrives(l)
    /\ \E a \in LimAddresses, u \in LimUsers :
         login' = [login EXCEPT ![l] =
            IF Blocked(a) THEN [at |-> "refused", from |-> a]
            ELSE [at |-> "waiting", from |-> a, user |-> u]]
    /\ UNCHANGED <<failures, told, expiries>>

\* a permit within 5 seconds, or the login is refused
Permit(l) ==
    /\ login[l].at = "waiting"
    /\ Cardinality(Checking) < ConcurrentChecks
    /\ At(l, "checking")
    /\ UNCHANGED <<failures, told, expiries>>

PermitTimeout(l) ==
    /\ login[l].at = "waiting"
    /\ Cardinality(Checking) >= ConcurrentChecks
    /\ At(l, "refused")
    /\ UNCHANGED <<failures, told, expiries>>

\* Sessions::succeeded: forgets the failures of the address and of the user
Succeeded(l) ==
    /\ login[l].at = "checking"
    /\ At(l, "in")
    /\ failures' = [k \in Keys |->
         IF k \in {login[l].from, login[l].user} THEN None ELSE failures[k]]
    /\ told' = [k \in Keys |-> 
         IF k \in {login[l].from, login[l].user} THEN "no" ELSE told[k]]
    /\ UNCHANGED expiries

\* Sessions::failed, first the address and then the user; it starts a block exactly when
\* a count reaches its limit
Count(l, k, where) ==
    LET f == Added(failures[k])
    IN /\ failures' = [failures EXCEPT ![k] = f]
       /\ told' = [told EXCEPT ![k] = IF failures[k].old THEN "no" ELSE @]
       /\ login' = [login EXCEPT ![l] = [at |-> where, from |-> @.from, user |-> @.user,
                       starts |-> (IF @.at = "wrong" THEN @.starts ELSE {})
                                  \cup (IF f.count = Limit(k) THEN {k} ELSE {})]]
       /\ UNCHANGED expiries

FailAddress(l) == login[l].at = "checking" /\ Count(l, login[l].from, "wrong")
FailUser(l) == login[l].at = "wrong" /\ Count(l, login[l].user, "failing")

\* UiLoginFailed is stored or refused: the login goes on to the record of a block it started
RecordFailure(l) ==
    /\ login[l].at = "failing"
    /\ At(l, IF login[l].starts # {} THEN "blocking" ELSE "failed")
    /\ UNCHANGED <<failures, told, expiries>>

\* The outcome of a ConnectionsRefused record for the blocks that login l started, as far as
\* they still stand; a record that is stored stays.
Outcome(l, how) ==
    told' = [k \in Keys |->
       IF k \in login[l].starts /\ failures[k].count >= Limit(k) /\ told[k] # "stored"
       THEN how ELSE told[k]]

\* ConnectionsRefused is stored, or refused, which the login ignores
RecordBlock(l) ==
    /\ login[l].at = "blocking"
    /\ At(l, "failed")
    /\ \E how \in {"stored", "cut"} : Outcome(l, how)
    /\ UNCHANGED <<failures, expiries>>

\* The handler is dropped with its client at one of its awaits, or the check itself fails.
\* A record it waits for may have been handed over and be stored all the same.
Abandon(l) ==
    /\ login[l].at \in {"waiting", "checking", "failing", "blocking"}
    /\ At(l, "dropped")
    /\ IF login[l].at = "failing" THEN Outcome(l, "cut")
       ELSE IF login[l].at = "blocking" THEN \E how \in {"stored", "cut"} : Outcome(l, how)
       ELSE UNCHANGED told
    /\ UNCHANGED <<failures, expiries>>

\* BLOCK_TIME passes without a failure at this key
Expire(k) ==
    /\ expiries < MaxExpiries
    /\ failures[k].count > 0 /\ ~failures[k].old
    /\ failures' = [failures EXCEPT ![k].old = TRUE]
    /\ expiries' = expiries + 1
    /\ UNCHANGED <<login, told>>

LimNext ==
    \/ \E l \in Logins :
         \/ Arrive(l) \/ Permit(l) \/ PermitTimeout(l)
         \/ Succeeded(l) \/ FailAddress(l) \/ FailUser(l)
         \/ RecordFailure(l) \/ RecordBlock(l) \/ Abandon(l)
    \/ \E k \in Keys : Expire(k)
-------------------------------------------------------------------------------
\* The counts and the stages are the ones the code has, and no more logins hold a permit at
\* once than there are permits.
LimTypeOK ==
    /\ failures \in [Keys -> [count : Nat, old : BOOLEAN]]
    /\ told \in [Keys -> {"no", "stored", "cut"}]
    /\ \A l \in Logins : login[l].at \in {"start", "waiting", "checking", "wrong", "failing",
                                          "blocking", "in", "failed", "refused", "dropped"}
    /\ IsFiniteSet(Checking) /\ Cardinality(Checking) <= ConcurrentChecks

\* Whoever is blocked, the trail says so, a login that still runs is about to say it, or its
\* one attempt was cut: refused by the trail, or dropped with the login (nobody tries again).
\* So a block never goes unsaid because several logins fail at once, because one succeeds in
\* between, or because an old block has run out.
BlockIsRecorded ==
    \A k \in Keys : Blocked(k) =>
        \/ told[k] # "no"
        \/ \E l \in Logins : /\ login[l].at \in {"wrong", "failing", "blocking"}
                             /\ k \in login[l].starts

LimSpec == LimInit /\ [][LimNext]_limVars
===============================================================================
