------------------------------ MODULE AccessProofs -----------------------------
(***************************************************************************)
(* Who may use the web API, for any number of users, cookies, tokens and   *)
(* requests at once: proofs about WebAccess and LoginLimit.                *)
(***************************************************************************)
EXTENDS WebAccess, LoginLimit, FiniteSetTheorems, TLAPS

Row == [pw : Passwords, role : Auditor..Admin, epoch : Nat, must : BOOLEAN]
Token == [owner : Names, scoped : BOOLEAN, life : Nat, late : BOOLEAN, orphan : BOOLEAN]
Session == [user : Names, epoch : Nat, seen : Nat, life : Nat]

Tables ==
    /\ users \in [Names -> Row \cup {Gone}]
    /\ tokens \in [Tokens -> Token \cup {Gone, Fresh}]
    /\ cookies \in [Cookies -> Session \cup {Gone, Fresh}]
    /\ changes \in [Names -> Nat]
    /\ lives \in [Names -> Nat]
    /\ DOMAIN req = Requests /\ DOMAIN cli = Commands
    /\ overtaken \in BOOLEAN

\* What was read of a user's row (the epoch, with the number of changes so far and the
\* life of the name) is still comparable: in the same life the row still exists and
\* its epoch grew with the changes, one by one.
Current(i) ==
    /\ i.user \in Names /\ i.epoch \in Nat /\ i.seen \in Nat /\ i.life \in Nat
    /\ i.life <= lives[i.user]
    /\ i.life = lives[i.user] =>
         Exists(i.user) /\ users[i.user].epoch + i.seen = i.epoch + changes[i.user]

\* The stages in which a request works for a user; in those of Holding, UserStore::conn is
\* locked.
ForUser == {"verified", "create", "session", "handler", "delete", "tokens", "cleanup",
            "own_write", "own_cleanup", "insert", "token", "tool"}
Holding == {"delete", "tokens", "insert", "own_write"}

\* A tool that may change something runs for an admin, or for one who was when it began.
ToolOK(r) ==
    /\ r.user \in Names
    /\ r.seen \in Nat /\ r.seen <= changes[r.user]
    /\ r.life \in Nat /\ r.life <= lives[r.user]
    /\ r.changing => IsAdmin(r.user) \/ changes[r.user] > r.seen \/ lives[r.user] > r.life

\* A user for whom a token is inserted exists still, or was deleted since.
InsertOK(r) ==
    /\ r.user \in Names /\ r.scoped \in BOOLEAN
    /\ r.life \in Nat /\ r.life <= lives[r.user]
    /\ r.life = lives[r.user] => Exists(r.user)

\* A delete that goes on leaves an admin, unless an admin went since its check.
DeleteOK(r) == r.at = "delete" => overtaken \/ EnsureAdminRemains(r.user, 0)

\* What the stage of request w says about the tables.
StageOK(w, r) ==
    /\ r.at \in ForUser => r.user \in Names
    /\ r.at \in {"create", "own_write"} => Current(r)
    /\ r.at = "own_write" => r.pw \in Passwords
    /\ r.at \in Holding => conn = [by |-> w]
    /\ DeleteOK(r)
    /\ r.at = "insert" => InsertOK(r)
    /\ r.at = "tool" => ToolOK(r)

\* What the stage of a command says.
CliOK(r) ==
    /\ r.at \in {"start", "delete", "tokens", "done"}
    /\ r.at \in {"delete", "tokens"} => r.user \in Names
    /\ DeleteOK(r)

\* A token belongs to a user of this life, and its scopes to an admin, but for the gaps of
\* the code: it is an orphan, its DELETE is ahead, or its scopes were stored late.
TokenOK(t) ==
    /\ t.life <= lives[t.owner]
    /\ \/ t.orphan
       \/ Deleting(t.owner)
       \/ /\ Exists(t.owner) /\ lives[t.owner] = t.life
          /\ t.scoped => IsAdmin(t.owner) \/ t.late

WebInv ==
    /\ Tables
    /\ AdminRemains
    /\ \A w \in Requests : StageOK(w, req[w])
    /\ \A k \in Commands : CliOK(cli[k])
    /\ \A c \in Cookies : cookies[c] \notin {Gone, Fresh} => Current(cookies[c])
    /\ \A t \in Tokens : tokens[t] \notin {Gone, Fresh} => TokenOK(tokens[t])

\* The part of WebNext that every step shares.
Noted == overtaken' = (overtaken \/ Overtakes)

USE WebAssumption DEF WebAssumption, Auditor, Operator, Admin
-------------------------------------------------------------------------------
LEMMA NoRecords == Gone # Fresh /\ Gone \notin Row /\ {Gone, Fresh} \cap (Token \cup Session) = {}
BY DEF Gone, Fresh, Row, Token, Session

\* What a step of the tables of users and tokens keeps of the invariant.
RowsStep ==
    /\ users' \in [Names -> Row \cup {Gone}] /\ tokens' \in [Tokens -> Token \cup {Gone, Fresh}]
    /\ changes' \in [Names -> Nat] /\ lives' \in [Names -> Nat]
    /\ \A i : Current(i) => Current(i)'
    /\ \A r : ToolOK(r) => ToolOK(r)'
    /\ \A r : InsertOK(r) => InsertOK(r)'
    /\ \A t \in Tokens : tokens'[t] \notin {Gone, Fresh} => TokenOK(tokens[t])'

\* A delete that stays between its check and its DELETE still leaves an admin: either one
\* goes meanwhile, which is noted, or all stay, and whoever becomes one is not the only one.
LEMMA DeletesKeep ==
    ASSUME WebInv, Noted, NEW r, r.at = "delete", DeleteOK(r),
           \/ \E w \in Requests : req[w].at = "delete" /\ req'[w].at = "delete"
           \/ \E k \in Commands : cli[k].at = "delete" /\ cli'[k].at = "delete"
    PROVE  DeleteOK(r)'
<1>1. CASE overtaken' BY <1>1 DEF DeleteOK
<1>2. CASE ~overtaken'
  <2>1. ~overtaken /\ ~Overtakes BY <1>2, Zenon DEF Noted
  <2>2. \A n \in Names : IsAdmin(n) => IsAdmin(n)' BY <2>1 DEF Overtakes
  <2>3. PICK m \in Names : IsAdmin(m) BY <2>1 DEF WebInv, AdminRemains
  <2>4. EnsureAdminRemains(r.user, 0) BY <2>1 DEF DeleteOK
  <2>5. CASE IsAdmin(r.user)
    <3>1. \E other \in Names \ {r.user} : IsAdmin(other) BY <2>4, <2>5 DEF EnsureAdminRemains
    <3> QED BY <2>2, <3>1 DEF DeleteOK, EnsureAdminRemains
  <2>6. CASE ~IsAdmin(r.user)
    <3>1. m \in Names \ {r.user} BY <2>3, <2>6
    <3> QED BY <2>2, <2>3, <3>1 DEF DeleteOK, EnsureAdminRemains
  <2> QED BY <2>5, <2>6
<1> QED BY <1>1, <1>2

\* A step keeps the invariant if the tables are in order behind it, an admin remains, and
\* each request, command and session stays as it was or is in order too.
LEMMA StepKeeps ==
    ASSUME WebInv, Noted, RowsStep, AdminRemains',
           DOMAIN req' = Requests, DOMAIN cli' = Commands,
           \A v \in Requests :
              \/ req'[v] = req[v] /\ (req[v].at \in Holding => conn' = conn)
              \/ StageOK(v, req[v])',
           \A k \in Commands : cli'[k] = cli[k] \/ CliOK(cli[k])',
           cookies' \in [Cookies -> Session \cup {Gone, Fresh}],
           \A c \in Cookies : cookies'[c] \in {Gone, Fresh, cookies[c]} \/ Current(cookies'[c])
    PROVE  WebInv'
<1>0. overtaken' \in BOOLEAN BY Zenon DEF Noted
<1>1. Tables' BY <1>0 DEF WebInv, Tables, RowsStep
<1>2. ASSUME NEW v \in Requests PROVE StageOK(v, req[v])'
  <2>1. CASE req'[v] = req[v] /\ (req[v].at \in Holding => conn' = conn)
    <3>1. StageOK(v, req[v]) BY DEF WebInv
    <3>2. PICK r : r = req[v] OBVIOUS
    <3>3. Current(r) => Current(r)' BY DEF RowsStep
    <3>4. ToolOK(r) => ToolOK(r)' BY DEF RowsStep
    <3>5. InsertOK(r) => InsertOK(r)' BY DEF RowsStep
    <3>6. StageOK(v, r) BY <3>1, <3>2
    <3>7. DeleteOK(r)'
      <4>1. CASE r.at = "delete"
        <5>1. DeleteOK(r) BY <3>6 DEF StageOK
        <5>2. \E w \in Requests : req[w].at = "delete" /\ req'[w].at = "delete"
            BY <2>1, <3>2, <4>1
        <5> QED BY <4>1, <5>1, <5>2, DeletesKeep
      <4>2. CASE r.at # "delete" BY <4>2 DEF DeleteOK
      <4> QED BY <4>1, <4>2
    <3>8. StageOK(v, r)' BY <2>1, <3>2, <3>3, <3>4, <3>5, <3>6, <3>7 DEF StageOK
    <3> QED BY <2>1, <3>2, <3>8
  <2> QED BY <2>1
<1>3. ASSUME NEW k \in Commands PROVE CliOK(cli[k])'
  <2>1. CASE cli'[k] = cli[k]
    <3>1. PICK r : r = cli[k] OBVIOUS
    <3>2. CliOK(r) BY <3>1 DEF WebInv
    <3>3. DeleteOK(r)'
      <4>1. CASE r.at = "delete"
        <5>1. DeleteOK(r) BY <3>2 DEF CliOK
        <5>2. \E j \in Commands : cli[j].at = "delete" /\ cli'[j].at = "delete"
            BY <2>1, <3>1, <4>1
        <5> QED BY <4>1, <5>1, <5>2, DeletesKeep
      <4>2. CASE r.at # "delete" BY <4>2 DEF DeleteOK
      <4> QED BY <4>1, <4>2
    <3>4. CliOK(r)' BY <3>2, <3>3 DEF CliOK
    <3> QED BY <2>1, <3>1, <3>4
  <2> QED BY <2>1
<1>4. ASSUME NEW c \in Cookies, cookies'[c] \notin {Gone, Fresh} PROVE Current(cookies[c])'
  <2>1. PICK i : i = cookies'[c] OBVIOUS
  <2>2. Current(i) BY <1>4, <2>1 DEF WebInv
  <2>3. Current(i)' BY <2>2 DEF RowsStep
  <2> QED BY <2>1, <2>3
<1> QED BY <1>1, <1>2, <1>3, <1>4 DEF WebInv, RowsStep

\* A delete with its DELETE of the tokens ahead has it ahead still when another request, or
\* another command, moves.
LEMMA StillDeleting ==
    ASSUME WebInv, NEW m, Deleting(m),
           \/ /\ cli' = cli
              /\ \E w \in Requests : \E r : To(w, r) /\ (req[w].at = "tokens" => req[w].user # m)
           \/ /\ req' = req
              /\ \E k \in Commands : \E r : CliTo(k, r) /\ (cli[k].at = "tokens" => cli[k].user # m)
    PROVE  Deleting(m)'
<1>0. DOMAIN req = Requests /\ DOMAIN cli = Commands BY DEF WebInv, Tables
<1>1. CASE /\ cli' = cli
           /\ \E w \in Requests : \E r : To(w, r) /\ (req[w].at = "tokens" => req[w].user # m)
  <2>1. PICK w \in Requests : \E r : To(w, r) /\ (req[w].at = "tokens" => req[w].user # m) BY <1>1
  <2>2. \A v \in Requests \ {w} : req'[v] = req[v] BY <1>0, <2>1 DEF To
  <2> QED BY <1>1, <2>1, <2>2 DEF Deleting
<1>2. CASE /\ req' = req
           /\ \E k \in Commands : \E r : CliTo(k, r) /\ (cli[k].at = "tokens" => cli[k].user # m)
  <2>1. PICK k \in Commands : \E r : CliTo(k, r) /\ (cli[k].at = "tokens" => cli[k].user # m) BY <1>2
  <2>2. \A j \in Commands \ {k} : cli'[j] = cli[j] BY <1>0, <2>1 DEF CliTo
  <2> QED BY <1>2, <2>1, <2>2 DEF Deleting
<1> QED BY <1>1, <1>2

\* The tables of users and tokens stay.
LEMMA SameRows ==
    ASSUME WebInv, UNCHANGED <<users, tokens, changes, lives>>,
           \A m \in Names : Deleting(m) => Deleting(m)'
    PROVE  RowsStep
<1>1. \A i : Current(i) => Current(i)' BY DEF Current, Exists
<1>2. \A r : ToolOK(r) => ToolOK(r)' BY DEF ToolOK, IsAdmin, Exists
<1>3. \A r : InsertOK(r) => InsertOK(r)' BY DEF InsertOK, Exists
<1>4. ASSUME NEW t \in Tokens, tokens'[t] \notin {Gone, Fresh} PROVE TokenOK(tokens[t])'
  <2>1. TokenOK(tokens[t]) /\ tokens[t] \in Token BY <1>4 DEF WebInv, Tables
  <2>2. tokens[t].owner \in Names BY <2>1 DEF Token
  <2> QED BY <2>1, <2>2 DEF TokenOK, IsAdmin, Exists
<1> QED BY <1>1, <1>2, <1>3, <1>4 DEF RowsStep, WebInv, Tables

\* A step of one request that leaves the tables of users and tokens alone keeps the
\* invariant when the request's new stage and any new session are in order.
LEMMA QuietStep ==
    ASSUME WebInv, Noted, NEW w \in Requests, NEW r, To(w, r), req[w].at # "tokens",
           UNCHANGED <<users, tokens, changes, lives, cli>>,
           StageOK(w, r)',
           \A v \in Requests \ {w} : req[v].at \in Holding => conn' = conn,
           cookies' \in [Cookies -> Session \cup {Gone, Fresh}],
           \A c \in Cookies : cookies'[c] \in {Gone, Fresh, cookies[c]} \/ Current(cookies'[c])
    PROVE  WebInv'
<1>1. \A m \in Names : Deleting(m) => Deleting(m)' BY StillDeleting
<1>2. RowsStep BY <1>1, SameRows
<1>3. AdminRemains'
  <2>1. overtaken => overtaken' BY Zenon DEF Noted
  <2> QED BY <2>1 DEF WebInv, AdminRemains, IsAdmin, Exists
<1>4. DOMAIN req' = Requests /\ DOMAIN cli' = Commands BY DEF WebInv, Tables, To
<1>5. req'[w] = r /\ \A v \in Requests \ {w} : req'[v] = req[v] BY DEF WebInv, Tables, To
<1>6. StageOK(w, req[w])' BY <1>5
<1>7. \A v \in Requests :
        \/ req'[v] = req[v] /\ (req[v].at \in Holding => conn' = conn)
        \/ StageOK(v, req[v])'
    BY <1>5, <1>6
<1>8. \A k \in Commands : cli'[k] = cli[k] \/ CliOK(cli[k])' OBVIOUS
<1> QED BY <1>2, <1>3, <1>4, <1>7, <1>8, StepKeeps

\* A stage that is not one of ForUser says nothing.
LEMMA Idle == ASSUME NEW w, NEW r, r.at \notin ForUser PROVE StageOK(w, r)'
BY DEF StageOK, ForUser, Holding, DeleteOK

LEMMA LoginKeeps == ASSUME WebInv, Noted, NEW w \in Requests, Login(w) PROVE WebInv'
<1>1. CASE LoginVerify(w)
  <2>1. PICK n \in Names : To(w, [at |-> "verified", user |-> n]) BY <1>1 DEF LoginVerify
  <2>2. StageOK(w, [at |-> "verified", user |-> n])' BY DEF StageOK, ForUser, Holding, DeleteOK
  <2> QED BY <1>1, <2>1, <2>2, QuietStep DEF LoginVerify, Begins, WebInv, Tables
<1>2. CASE SessionState(w)
  <2> DEFINE n == req[w].user
  <2>0. PICK r : r = [at |-> "create", user |-> n, epoch |-> users[n].epoch,
                      seen |-> changes[n], life |-> lives[n]]
      OBVIOUS
  <2>1. n \in Names BY <1>2 DEF SessionState, WebInv, StageOK, ForUser
  <2>2. CASE Exists(n)
    <3>1. users[n] \in Row BY <2>1, <2>2 DEF WebInv, Tables, Exists
    <3>2. users' = users /\ changes' = changes /\ lives' = lives BY <1>2 DEF SessionState
    <3>3. changes[n] \in Nat /\ lives[n] \in Nat /\ users[n].epoch \in Nat
        BY <2>1, <3>1 DEF WebInv, Tables, Row
    <3>4. StageOK(w, r)' BY <2>0, <2>1, <2>2, <3>2, <3>3 DEF StageOK, Current, Exists, ForUser, Holding, DeleteOK
    <3>5. To(w, r) BY <1>2, <2>0, <2>2 DEF SessionState
    <3> QED BY <1>2, <3>4, <3>5, QuietStep DEF SessionState, WebInv, Tables
  <2>3. CASE ~Exists(n)
    <3>1. To(w, Done) /\ StageOK(w, Done)' BY <1>2, <2>3, Idle DEF SessionState, Done, ForUser
    <3> QED BY <1>2, <3>1, QuietStep DEF SessionState, WebInv, Tables
  <2> QED BY <2>2, <2>3
<1>3. CASE SessionCreate(w, Done)
  <2> DEFINE s == [user |-> req[w].user, epoch |-> req[w].epoch, seen |-> req[w].seen,
                   life |-> req[w].life]
  <2>1. PICK c \in Cookies : cookies' = [cookies EXCEPT ![c] = s] BY <1>3 DEF SessionCreate
  <2>2. Current(req[w]) BY <1>3 DEF SessionCreate, WebInv, StageOK
  <2>3. Current(s) BY <2>2 DEF Current
  <2>4. s \in Session BY <2>2 DEF Current, Session
  <2>5. cookies' \in [Cookies -> Session \cup {Gone, Fresh}] BY <2>1, <2>4 DEF WebInv, Tables
  <2>6. \A d \in Cookies : cookies'[d] \in {Gone, Fresh, cookies[d]} \/ Current(cookies'[d])
      BY <2>1, <2>3 DEF WebInv, Tables
  <2>7. To(w, Done) /\ StageOK(w, Done)' BY <1>3, Idle DEF SessionCreate, Done, ForUser
  <2> QED BY <1>3, <2>5, <2>6, <2>7, QuietStep DEF SessionCreate
<1> QED BY <1>1, <1>2, <1>3 DEF Login

LEMMA AuthKeeps ==
    ASSUME WebInv, Noted, NEW w \in Requests, AuthSession(w) \/ AuthState(w) PROVE WebInv'
<1>1. CASE AuthSession(w)
  <2>1. PICK c, r :
          /\ c \in Cookies
          /\ cookies[c] \notin {Gone, Fresh}
          /\ r = [at |-> "session", cookie |-> c, user |-> cookies[c].user,
                  epoch |-> cookies[c].epoch]
          /\ To(w, r)
      BY <1>1 DEF AuthSession
  <2> c \in Cookies BY <2>1
  <2>2. cookies[c].user \in Names BY <2>1 DEF WebInv, Tables, Session
  <2>3. StageOK(w, r)' BY <2>1, <2>2 DEF StageOK, ForUser, Holding, DeleteOK
  <2> QED BY <1>1, <2>1, <2>3, QuietStep DEF AuthSession, Begins, WebInv, Tables
<1>2. CASE AuthState(w)
  <2> DEFINE n == req[w].user
  <2>0. PICK h : h = [at |-> "handler", user |-> n, role |-> users[n].role, must |-> users[n].must]
      OBVIOUS
  <2>1. n \in Names BY <1>2 DEF AuthState, WebInv, StageOK, ForUser
  <2>2. StageOK(w, h)' BY <2>0, <2>1 DEF StageOK, ForUser, Holding, DeleteOK
  <2>3. StageOK(w, Done)' BY Idle DEF Done, ForUser
  <2>4. PICK r \in {h, Done} : To(w, r) BY <1>2, <2>0 DEF AuthState
  <2>5. StageOK(w, r)' BY <2>2, <2>3, <2>4
  <2>6. /\ cookies' \in [Cookies -> Session \cup {Gone, Fresh}]
        /\ \A c \in Cookies : cookies'[c] \in {Gone, Fresh, cookies[c]}
      BY <1>2 DEF AuthState, WebInv, Tables
  <2> QED BY <1>2, <2>4, <2>5, <2>6, QuietStep DEF AuthState
<1> QED BY <1>1, <1>2

\* remove_user only takes sessions away.
LEMMA RemoveUserFacts ==
    ASSUME WebInv, NEW n, RemoveUser(n)
    PROVE  /\ cookies' \in [Cookies -> Session \cup {Gone, Fresh}]
           /\ \A c \in Cookies : cookies'[c] \in {Gone, Fresh, cookies[c]}
BY DEF RemoveUser, WebInv, Tables

LEMMA CleanupKeeps ==
    ASSUME WebInv, Noted, NEW w \in Requests, RemoveSessions(w) \/ OwnCleanup(w) PROVE WebInv'
<1>1. CASE RemoveSessions(w)
  <2>1. StageOK(w, Done)' BY Idle DEF Done, ForUser
  <2> QED BY <1>1, <2>1, RemoveUserFacts, QuietStep DEF RemoveSessions
<1>2. CASE OwnCleanup(w)
  <2>1. req[w].user \in Names BY <1>2 DEF OwnCleanup, WebInv, StageOK, ForUser
  <2>2. PICK r : r = [at |-> "verified", user |-> req[w].user] OBVIOUS
  <2>3. StageOK(w, r)' BY <2>1, <2>2 DEF StageOK, ForUser, Holding, DeleteOK
  <2> QED BY <1>2, <2>2, <2>3, RemoveUserFacts, QuietStep DEF OwnCleanup
<1> QED BY <1>1, <1>2

\* While nobody holds conn, nobody is between its check and its write.
LEMMA FreeMeansIdle ==
    ASSUME WebInv, Free, NEW v \in Requests PROVE req[v].at \notin Holding
BY DEF WebInv, StageOK, Free, Gone

LEMMA ChecksKeep ==
    ASSUME WebInv, Noted, NEW w \in Requests, DeleteCheck(w) \/ OwnRead(w) \/ SelectUser(w)
    PROVE  WebInv'
<1>1. CASE DeleteCheck(w)
  <2>1. PICK n, r :
          /\ n \in Names /\ EnsureAdminRemains(n, 0)
          /\ r = [at |-> "delete", user |-> n] /\ To(w, r)
      BY <1>1 DEF DeleteCheck
  <2>2. StageOK(w, r)'
      BY <1>1, <2>1
         DEF DeleteCheck, StageOK, ForUser, Holding, DeleteOK, EnsureAdminRemains, IsAdmin, Exists
  <2>3. Free /\ req[w].at = "handler" BY <1>1 DEF DeleteCheck, AdminHandler, Handler
  <2> QED BY <1>1, <2>1, <2>2, <2>3, FreeMeansIdle, QuietStep DEF DeleteCheck, WebInv, Tables
<1>2. CASE OwnRead(w)
  <2> DEFINE n == req[w].user
  <2>1. n \in Names /\ Exists(n) BY <1>2 DEF OwnRead, WebInv, StageOK, ForUser
  <2>2. users[n] \in Row BY <2>1 DEF WebInv, Tables, Exists
  <2>3. changes[n] \in Nat /\ lives[n] \in Nat /\ users[n].epoch \in Nat
      BY <2>1, <2>2 DEF WebInv, Tables, Row
  <2>4. PICK p, r :
          /\ p \in Passwords
          /\ r = [at |-> "own_write", user |-> n, pw |-> p, epoch |-> users[n].epoch,
                  seen |-> changes[n], life |-> lives[n]]
          /\ To(w, r)
      BY <1>2 DEF OwnRead
  <2> p \in Passwords BY <2>4
  <2>5. StageOK(w, r)'
      BY <1>2, <2>1, <2>3, <2>4 DEF OwnRead, StageOK, Current, Exists, ForUser, Holding, DeleteOK
  <2>6. Free BY <1>2 DEF OwnRead
  <2> QED BY <1>2, <2>4, <2>5, <2>6, FreeMeansIdle, QuietStep DEF OwnRead, WebInv, Tables
<1>3. CASE SelectUser(w)
  <2> DEFINE n == req[w].user
  <2>0. Free /\ req[w].at = "handler" BY <1>3 DEF SelectUser, Handler
  <2>1. n \in Names BY <2>0 DEF WebInv, StageOK, ForUser
  <2>2. lives[n] \in Nat BY <2>1 DEF WebInv, Tables
  <2>3. CASE Exists(n)
    <3>1. PICK scoped, r :
            /\ scoped \in BOOLEAN
            /\ r = [at |-> "insert", user |-> n, scoped |-> scoped, life |-> lives[n]]
            /\ To(w, r)
      <4>1. PICK scoped \in BOOLEAN :
              To(w, [at |-> "insert", user |-> n, scoped |-> scoped, life |-> lives[n]])
          BY <1>3, <2>3 DEF SelectUser
      <4> QED BY <4>1
    <3>2. conn' = [by |-> w] BY <1>3, <2>3 DEF SelectUser
    <3>3. r.at = "insert" /\ r.user = n /\ r.scoped \in BOOLEAN /\ r.life = lives[n] BY <3>1
    <3>4. InsertOK(r)' BY <1>3, <2>1, <2>2, <2>3, <3>3 DEF InsertOK, Exists, SelectUser
    <3>5. StageOK(w, r)' BY <2>1, <3>2, <3>3, <3>4 DEF StageOK, ForUser, Holding, DeleteOK
    <3> QED BY <1>3, <2>0, <3>1, <3>5, FreeMeansIdle, QuietStep DEF SelectUser, WebInv, Tables
  <2>4. CASE ~Exists(n)
    <3>1. To(w, Done) /\ StageOK(w, Done)' BY <1>3, <2>4, Idle DEF SelectUser, Done, ForUser
    <3> QED BY <1>3, <2>0, <3>1, FreeMeansIdle, QuietStep DEF SelectUser, WebInv, Tables
  <2> QED BY <2>3, <2>4
<1> QED BY <1>1, <1>2, <1>3

LEMMA AssistantKeeps ==
    ASSUME WebInv, Noted, NEW w \in Requests, VerifyToken(w) \/ Authenticate(w) \/ ToolRuns(w)
    PROVE  WebInv'
<1>1. CASE VerifyToken(w)
  <2>1. PICK t, r :
          /\ t \in Tokens
          /\ tokens[t] \notin {Gone, Fresh}
          /\ r = [at |-> "token", user |-> tokens[t].owner, scoped |-> tokens[t].scoped]
          /\ To(w, r)
      BY <1>1 DEF VerifyToken
  <2> t \in Tokens BY <2>1
  <2>2. tokens[t].owner \in Names BY <2>1 DEF WebInv, Tables, Token
  <2>3. StageOK(w, r)' BY <2>1, <2>2 DEF StageOK, ForUser, Holding, DeleteOK
  <2> QED BY <1>1, <2>1, <2>3, QuietStep DEF VerifyToken, Begins, WebInv, Tables
<1>2. CASE Authenticate(w)
  <2> DEFINE n == req[w].user
  <2>0. PICK r : r = [at |-> "tool", user |-> n,
                      changing |-> MayChangeConfig(req[w].scoped, users[n].role),
                      seen |-> changes[n], life |-> lives[n]]
      OBVIOUS
  <2>1. n \in Names BY <1>2 DEF Authenticate, WebInv, StageOK, ForUser
  <2>2. changes[n] \in Nat /\ lives[n] \in Nat BY <2>1 DEF WebInv, Tables
  <2>3. Exists(n) => StageOK(w, r)'
    <3>1. r.changing = (req[w].scoped /\ users[n].role = Admin) BY <2>0, Zenon DEF MayChangeConfig
    <3>2. r.at = "tool" /\ r.user = n /\ r.seen = changes[n] /\ r.life = lives[n] BY <2>0
    <3>3. r.changing => users[n].role = Admin BY <3>1, Zenon
    <3> QED BY <1>2, <2>1, <2>2, <3>2, <3>3 DEF Authenticate, StageOK, ToolOK, ForUser, Holding, DeleteOK, IsAdmin, Exists
  <2>4. StageOK(w, Done)' BY Idle DEF Done, ForUser
  <2>5. \/ Exists(n) /\ To(w, r)
        \/ To(w, Done)
      BY <1>2, <2>0 DEF Authenticate
  <2> QED BY <1>2, <2>3, <2>4, <2>5, QuietStep DEF Authenticate, WebInv, Tables
<1>3. CASE ToolRuns(w)
  <2>1. StageOK(w, Done)' BY Idle DEF Done, ForUser
  <2> QED BY <1>3, <2>1, QuietStep DEF ToolRuns, WebInv, Tables
<1> QED BY <1>1, <1>2, <1>3
-------------------------------------------------------------------------------
\* UserStore::update: the epoch grows with the changes, and a demotion takes the scopes.
LEMMA UpdateStep ==
    ASSUME WebInv, NEW n \in Names, NEW role \in NewRoles \cup {0},
           NEW pws \in {{}} \cup {{p} : p \in Passwords}, NEW must \in BOOLEAN,
           Update(n, role, pws, must), \A m \in Names : Deleting(m) => Deleting(m)'
    PROVE  RowsStep /\ ((\E m \in Names : IsAdmin(m)) => (\E m \in Names : IsAdmin(m))')
<1> DEFINE row == UpdatedRow(users[n], role, pws, must)
<1>1. users[n] \in Row /\ Exists(n) BY DEF WebInv, Tables, Update, Exists
<1>2. /\ row \in Row /\ row.epoch = users[n].epoch + 1
      /\ row.role = IF role = 0 THEN users[n].role ELSE role
  <2>1. pws # {} => (CHOOSE p \in pws : TRUE) \in Passwords OBVIOUS
  <2>2. PICK ro, pw, mu :
          /\ ro = (IF role = 0 THEN users[n].role ELSE role)
          /\ pw = (IF pws = {} THEN users[n].pw ELSE CHOOSE p \in pws : TRUE)
          /\ mu = (IF pws = {} THEN users[n].must ELSE must)
      OBVIOUS
  <2>3. row = [users[n] EXCEPT !.role = ro, !.pw = pw, !.must = mu, !.epoch = @ + 1]
      BY <2>2 DEF UpdatedRow
  <2>4. ro \in Auditor..Admin /\ pw \in Passwords BY <1>1, <2>1, <2>2 DEF Row
  <2>5. mu \in BOOLEAN
    <3>1. users[n].must \in BOOLEAN BY <1>1 DEF Row
    <3> QED BY <2>2, <3>1, Zenon
  <2> HIDE DEF row
  <2>6. PICK old : old = users[n] OBVIOUS
  <2>7. old = [pw |-> old.pw, role |-> old.role, epoch |-> old.epoch, must |-> old.must]
        /\ old.epoch \in Nat
      BY <1>1, <2>6 DEF Row
  <2>8. row = [pw |-> pw, role |-> ro, epoch |-> old.epoch + 1, must |-> mu]
      BY <2>3, <2>6, <2>7
  <2>9. row \in Row BY <2>4, <2>5, <2>7, <2>8 DEF Row
  <2>10. row.epoch = old.epoch + 1 /\ row.role = ro BY <2>8
  <2> QED BY <2>2, <2>6, <2>9, <2>10
<1>3. /\ users' = [users EXCEPT ![n] = row] /\ changes' = [changes EXCEPT ![n] = @ + 1]
      /\ lives' = lives
    BY DEF Update
<1> HIDE DEF row
<1>4. \A m \in Names : users'[m] = IF m = n THEN row ELSE users[m] BY <1>3 DEF WebInv, Tables
<1>5. \A m \in Names : changes'[m] = IF m = n THEN changes[m] + 1 ELSE changes[m]
    BY <1>3 DEF WebInv, Tables
<1>6. \A m \in Names : Exists(m)' <=> Exists(m) BY <1>1, <1>2, <1>4, NoRecords DEF Exists
<1>7. \A m \in Names : IsAdmin(m) => IsAdmin(m)' \/ (m = n /\ role \in {Auditor, Operator})
    BY <1>1, <1>2, <1>4, <1>6 DEF IsAdmin
<1>8. users' \in [Names -> Row \cup {Gone}] /\ changes' \in [Names -> Nat] /\ lives' \in [Names -> Nat]
    BY <1>2, <1>3 DEF WebInv, Tables
<1>9. ASSUME NEW i, Current(i) PROVE Current(i)'
  <2>1. i.user \in Names /\ changes[i.user] \in Nat BY <1>9 DEF Current, WebInv, Tables
  <2>2. Exists(i.user) => users[i.user].epoch \in Nat BY <2>1 DEF WebInv, Tables, Row, Exists
  <2> QED BY <1>2, <1>3, <1>4, <1>5, <1>6, <1>9, <2>1, <2>2 DEF Current
<1>10. ASSUME NEW r, ToolOK(r) PROVE ToolOK(r)'
  <2>1. r.user \in Names /\ changes[r.user] \in Nat BY <1>10 DEF ToolOK, WebInv, Tables
  <2> QED BY <1>3, <1>5, <1>7, <1>10, <2>1 DEF ToolOK
<1>16. \A r : InsertOK(r) => InsertOK(r)' BY <1>3, <1>6 DEF InsertOK
<1>11. tokens' = [t \in Tokens |->
         IF tokens[t] \in {Gone, Fresh} \/ tokens[t].owner # n THEN tokens[t]
         ELSE IF pws # {} /\ must THEN Gone
         ELSE IF role \in {Auditor, Operator} THEN [tokens[t] EXCEPT !.scoped = FALSE]
         ELSE tokens[t]]
    BY DEF Update, TokensAfterUpdate
<1>12. \A t \in Tokens : \/ tokens'[t] \in {Gone, Fresh}
                         \/ tokens[t] \in Token /\ tokens'[t] = tokens[t]
                            /\ (tokens[t].owner # n \/ role \notin {Auditor, Operator})
                         \/ tokens[t] \in Token /\ tokens'[t] = [tokens[t] EXCEPT !.scoped = FALSE]
    BY <1>11 DEF WebInv, Tables
<1>13. tokens' \in [Tokens -> Token \cup {Gone, Fresh}]
  <2>1. \A t \in Tokens : tokens'[t] \in Token \cup {Gone, Fresh} BY <1>12 DEF Token
  <2> QED BY <1>11, <2>1
<1>14. ASSUME NEW t \in Tokens, tokens'[t] \notin {Gone, Fresh} PROVE TokenOK(tokens[t])'
  <2>1. tokens[t] \in Token /\ TokenOK(tokens[t]) BY <1>12, <1>14, NoRecords DEF WebInv
  <2>2. tokens'[t].owner = tokens[t].owner /\ tokens'[t].life = tokens[t].life
        /\ tokens'[t].late = tokens[t].late /\ tokens'[t].orphan = tokens[t].orphan
        /\ tokens[t].owner \in Names
      BY <1>12, <1>14, <2>1 DEF Token
  <2>3. tokens'[t].scoped => tokens[t].scoped /\ (tokens[t].owner # n \/ role \notin {Auditor, Operator})
      BY <1>12, <1>14, <2>1 DEF Token
  <2> QED BY <1>3, <1>6, <1>7, <2>1, <2>2, <2>3 DEF TokenOK
<1>15. (\E m \in Names : IsAdmin(m)) => (\E m \in Names : IsAdmin(m))'
  <2>1. role # 0 => EnsureAdminRemains(n, role) BY DEF Update
  <2> QED BY <1>7, <2>1, <1>4 DEF EnsureAdminRemains
<1> QED BY <1>8, <1>9, <1>10, <1>13, <1>14, <1>15, <1>16 DEF RowsStep

\* UserStore::create: nothing was read of the name's new life, and nobody has a token of it.
LEMMA CreateStep ==
    ASSUME WebInv, NEW n \in Names, NEW p \in Passwords, NEW role \in NewRoles,
           NEW must \in BOOLEAN, CreateWith(n, p, role, must),
           tokens' = tokens, changes' = changes, lives' = lives,
           \A m \in Names : Deleting(m) => Deleting(m)'
    PROVE  RowsStep /\ \A m \in Names : IsAdmin(m) => IsAdmin(m)'
<1>1. PICK row : row = [pw |-> p, role |-> role, epoch |-> 0, must |-> must] OBVIOUS
<1>2. row \in Row BY <1>1 DEF Row
<1>3. ~Exists(n) /\ users' = [users EXCEPT ![n] = row] BY <1>1 DEF CreateWith
<1>4. \A m \in Names : users'[m] = IF m = n THEN row ELSE users[m] BY <1>3 DEF WebInv, Tables
<1>5. \A m \in Names : Exists(m) => Exists(m)' /\ users'[m] = users[m] BY <1>3, <1>4 DEF Exists
<1>6. \A m \in Names : IsAdmin(m) => IsAdmin(m)' BY <1>5 DEF IsAdmin
<1>7. users' \in [Names -> Row \cup {Gone}] BY <1>2, <1>3 DEF WebInv, Tables
<1>8. ASSUME NEW i, Current(i) PROVE Current(i)' BY <1>5, <1>8 DEF Current
<1>9. ASSUME NEW r, ToolOK(r) PROVE ToolOK(r)' BY <1>6, <1>9 DEF ToolOK
<1>11. \A r : InsertOK(r) => InsertOK(r)' BY <1>5 DEF InsertOK
<1>10. ASSUME NEW t \in Tokens, tokens'[t] \notin {Gone, Fresh} PROVE TokenOK(tokens[t])'
  <2>1. TokenOK(tokens[t]) /\ tokens[t] \in Token BY <1>10 DEF WebInv, Tables
  <2>2. tokens[t].owner \in Names BY <2>1 DEF Token
  <2> QED BY <1>5, <1>6, <2>1, <2>2 DEF TokenOK
<1> QED BY <1>6, <1>7, <1>8, <1>9, <1>10, <1>11 DEF RowsStep, WebInv, Tables

\* UserStore::delete, the row: a new life of the name, whose tokens are still there.
LEMMA DeleteRowStep ==
    ASSUME WebInv, NEW n \in Names, DeleteRow(n), Deleting(n)',
           \A m \in Names : Deleting(m) => Deleting(m)'
    PROVE  RowsStep /\ \A m \in Names \ {n} : IsAdmin(m) => IsAdmin(m)'
<1>1. /\ users' = [users EXCEPT ![n] = Gone] /\ lives' = [lives EXCEPT ![n] = @ + 1]
      /\ changes' = changes /\ tokens' = tokens
    BY DEF DeleteRow
<1>2. \A m \in Names : users'[m] = IF m = n THEN Gone ELSE users[m] BY <1>1 DEF WebInv, Tables
<1>3. \A m \in Names : lives[m] \in Nat /\ lives'[m] = IF m = n THEN lives[m] + 1 ELSE lives[m]
    BY <1>1 DEF WebInv, Tables
<1>4. \A m \in Names \ {n} : (Exists(m)' <=> Exists(m)) /\ (IsAdmin(m) => IsAdmin(m)')
    BY <1>2 DEF Exists, IsAdmin
<1>5. /\ users' \in [Names -> Row \cup {Gone}] /\ lives' \in [Names -> Nat]
    BY <1>1, <1>3 DEF WebInv, Tables
<1>6. ASSUME NEW i, Current(i) PROVE Current(i)' BY <1>1, <1>2, <1>3, <1>4, <1>6 DEF Current
<1>7. ASSUME NEW r, ToolOK(r) PROVE ToolOK(r)' BY <1>1, <1>3, <1>4, <1>7 DEF ToolOK
<1>8. ASSUME NEW r, InsertOK(r) PROVE InsertOK(r)' BY <1>3, <1>4, <1>8 DEF InsertOK
<1>9. ASSUME NEW t \in Tokens, tokens'[t] \notin {Gone, Fresh} PROVE TokenOK(tokens[t])'
  <2>1. TokenOK(tokens[t]) /\ tokens[t] \in Token BY <1>1, <1>9 DEF WebInv, Tables
  <2>2. tokens[t].owner \in Names /\ tokens[t].life \in Nat BY <2>1 DEF Token
  <2> QED BY <1>1, <1>3, <1>4, <2>1, <2>2 DEF TokenOK
<1> QED BY <1>1, <1>4, <1>5, <1>6, <1>7, <1>8, <1>9 DEF RowsStep, WebInv, Tables

\* UserStore::delete, the tokens: they go, or they stay as orphans.
LEMMA DeleteTokensStep ==
    ASSUME WebInv, NEW n \in Names, DeleteTokens(n) \/ LeaveTokens(n),
           \A m \in Names \ {n} : Deleting(m) => Deleting(m)'
    PROVE  RowsStep /\ \A m \in Names : IsAdmin(m) <=> IsAdmin(m)'
<1>1. users' = users /\ lives' = lives /\ changes' = changes BY DEF DeleteTokens, LeaveTokens
<1>2. \A m \in Names : (Exists(m)' <=> Exists(m)) /\ (IsAdmin(m) <=> IsAdmin(m)')
    BY <1>1 DEF Exists, IsAdmin
<1>3. \A t \in Tokens :
        \/ tokens'[t] \in {Gone, Fresh}
        \/ tokens[t] \in Token /\ tokens[t].owner # n /\ tokens'[t] = tokens[t]
        \/ tokens[t] \in Token /\ tokens'[t] = [tokens[t] EXCEPT !.orphan = TRUE]
    BY DEF DeleteTokens, LeaveTokens, OwnedBy, WebInv, Tables
<1>4. tokens' \in [Tokens -> Token \cup {Gone, Fresh}]
  <2>1. \A t \in Tokens : tokens'[t] \in Token \cup {Gone, Fresh} BY <1>3 DEF Token
  <2>2. CASE DeleteTokens(n)
    <3>1. tokens' = [t \in Tokens |-> IF t \in OwnedBy(n) THEN Gone ELSE tokens[t]]
        BY <2>2 DEF DeleteTokens
    <3> QED BY <2>1, <3>1
  <2>3. CASE LeaveTokens(n)
    <3>1. tokens' = [t \in Tokens |->
            IF t \in OwnedBy(n) THEN [tokens[t] EXCEPT !.orphan = TRUE] ELSE tokens[t]]
        BY <2>3 DEF LeaveTokens
    <3> QED BY <2>1, <3>1
  <2> QED BY <2>2, <2>3
<1>5. \A i : Current(i) => Current(i)' BY <1>1 DEF Current, Exists
<1>6. \A r : ToolOK(r) => ToolOK(r)' BY <1>1 DEF ToolOK, IsAdmin, Exists
<1>7. \A r : InsertOK(r) => InsertOK(r)' BY <1>1 DEF InsertOK, Exists
<1>8. ASSUME NEW t \in Tokens, tokens'[t] \notin {Gone, Fresh} PROVE TokenOK(tokens[t])'
  <2>1. TokenOK(tokens[t]) /\ tokens[t] \in Token BY <1>3, <1>8, NoRecords DEF WebInv
  <2>2. tokens[t].owner \in Names BY <2>1 DEF Token
  <2>3. CASE tokens[t].owner # n /\ tokens'[t] = tokens[t]
    <3>1. Deleting(tokens[t].owner) => Deleting(tokens[t].owner)' BY <2>2, <2>3
    <3> QED BY <1>1, <1>2, <2>1, <2>2, <2>3, <3>1 DEF TokenOK
  <2>4. CASE tokens'[t] = [tokens[t] EXCEPT !.orphan = TRUE]
    <3>1. /\ tokens'[t].orphan /\ tokens'[t].owner = tokens[t].owner
          /\ tokens'[t].life = tokens[t].life
        BY <2>1, <2>4 DEF Token
    <3> QED BY <1>1, <2>1, <3>1 DEF TokenOK
  <2> QED BY <1>3, <1>8, <2>3, <2>4
<1> QED BY <1>1, <1>2, <1>4, <1>5, <1>6, <1>7, <1>8 DEF RowsStep, WebInv, Tables

\* change_own_password writes the row: the role stays, the epoch grows with the changes.
LEMMA OwnChangeStep ==
    ASSUME WebInv, NEW n \in Names, NEW p \in Passwords, Exists(n),
           users' = [users EXCEPT ![n].pw = p, ![n].must = FALSE, ![n].epoch = @ + 1],
           changes' = [changes EXCEPT ![n] = @ + 1], lives' = lives, tokens' = tokens,
           \A m \in Names : Deleting(m) => Deleting(m)'
    PROVE  RowsStep /\ \A m \in Names : IsAdmin(m) <=> IsAdmin(m)'
<1>1. users[n] \in Row BY DEF WebInv, Tables, Exists
<1>2. PICK row : row = [users[n] EXCEPT !.pw = p, !.must = FALSE, !.epoch = @ + 1] OBVIOUS
<1>3. row \in Row /\ row.epoch = users[n].epoch + 1 /\ row.role = users[n].role
  <2>1. PICK old : old = users[n] OBVIOUS
  <2>2. /\ old = [pw |-> old.pw, role |-> old.role, epoch |-> old.epoch, must |-> old.must]
        /\ old.epoch \in Nat /\ old.role \in Auditor..Admin
      BY <1>1, <2>1 DEF Row
  <2>3. row = [pw |-> p, role |-> old.role, epoch |-> old.epoch + 1, must |-> FALSE]
      BY <1>2, <2>1, <2>2
  <2>4. row \in Row BY <2>2, <2>3 DEF Row
  <2>5. row.epoch = old.epoch + 1 /\ row.role = old.role BY <2>3
  <2> QED BY <2>1, <2>4, <2>5
<1>4. \A m \in Names : users'[m] = IF m = n THEN row ELSE users[m] BY <1>2 DEF WebInv, Tables
<1>5. \A m \in Names : changes[m] \in Nat /\ changes'[m] = IF m = n THEN changes[m] + 1 ELSE changes[m]
    BY DEF WebInv, Tables
<1>6. \A m \in Names : (Exists(m)' <=> Exists(m)) /\ (IsAdmin(m) <=> IsAdmin(m)')
    BY <1>1, <1>3, <1>4, NoRecords DEF Exists, IsAdmin
<1>7. users' \in [Names -> Row \cup {Gone}] /\ changes' \in [Names -> Nat]
  <2>1. \A m \in Names : users'[m] \in Row \cup {Gone} BY <1>3, <1>4 DEF WebInv, Tables
  <2> QED BY <1>5, <2>1 DEF WebInv, Tables
<1>8. ASSUME NEW i, Current(i) PROVE Current(i)'
  <2>1. i.user \in Names /\ changes[i.user] \in Nat BY <1>8 DEF Current, WebInv, Tables
  <2>2. Exists(i.user) => users[i.user].epoch \in Nat BY <2>1 DEF WebInv, Tables, Row, Exists
  <2>3. CASE i.user = n
    <3>1. users'[n].epoch = users[n].epoch + 1 /\ changes'[n] = changes[n] + 1 BY <1>3, <1>4, <1>5
    <3> QED BY <1>6, <1>8, <2>1, <2>2, <2>3, <3>1 DEF Current
  <2>4. CASE i.user # n
    <3>1. users'[i.user] = users[i.user] /\ changes'[i.user] = changes[i.user]
        BY <1>4, <1>5, <2>1, <2>4
    <3> QED BY <1>6, <1>8, <3>1 DEF Current
  <2> QED BY <2>3, <2>4
<1>9. ASSUME NEW r, ToolOK(r) PROVE ToolOK(r)' BY <1>5, <1>6, <1>9 DEF ToolOK
<1>11. \A r : InsertOK(r) => InsertOK(r)' BY <1>6 DEF InsertOK
<1>10. ASSUME NEW t \in Tokens, tokens'[t] \notin {Gone, Fresh} PROVE TokenOK(tokens[t])'
  <2>1. TokenOK(tokens[t]) /\ tokens[t] \in Token BY <1>10 DEF WebInv, Tables
  <2>2. tokens[t].owner \in Names BY <2>1 DEF Token
  <2> QED BY <1>6, <2>1, <2>2 DEF TokenOK
<1> QED BY <1>6, <1>7, <1>8, <1>9, <1>10, <1>11 DEF RowsStep, WebInv, Tables

\* A token comes, with what was read of its user still comparable, or goes.
LEMMA TokenStep ==
    ASSUME WebInv, NEW t \in Tokens, NEW new, tokens' = [tokens EXCEPT ![t] = new],
           new = Gone \/ (new \in Token /\ TokenOK(new)),
           users' = users, changes' = changes, lives' = lives,
           \A m \in Names : Deleting(m) => Deleting(m)'
    PROVE  RowsStep /\ \A m \in Names : IsAdmin(m) => IsAdmin(m)'
<1>1. \A m \in Names : (Exists(m)' <=> Exists(m)) /\ (IsAdmin(m) <=> IsAdmin(m)')
    BY DEF Exists, IsAdmin
<1>2. \A u \in Tokens : tokens'[u] = IF u = t THEN new ELSE tokens[u] BY DEF WebInv, Tables
<1>3. tokens' \in [Tokens -> Token \cup {Gone, Fresh}] BY DEF WebInv, Tables
<1>4. ASSUME NEW u \in Tokens, tokens'[u] \notin {Gone, Fresh} PROVE TokenOK(tokens[u])'
  <2>1. PICK x : x = tokens'[u] OBVIOUS
  <2>2. TokenOK(x) BY <1>2, <1>4, <2>1 DEF WebInv
  <2>3. x \in Token BY <1>3, <1>4, <2>1
  <2>4. x.owner \in Names BY <2>3 DEF Token
  <2>5. TokenOK(x)' BY <1>1, <2>2, <2>4 DEF TokenOK
  <2> QED BY <2>1, <2>5
<1>5. \A i : Current(i) => Current(i)' BY DEF Current, Exists
<1>6. \A r : ToolOK(r) => ToolOK(r)' BY DEF ToolOK, IsAdmin, Exists
<1>7. \A r : InsertOK(r) => InsertOK(r)' BY DEF InsertOK, Exists
<1> QED BY <1>1, <1>3, <1>4, <1>5, <1>6, <1>7 DEF RowsStep, WebInv, Tables
-------------------------------------------------------------------------------
\* A request that changes the tables keeps the invariant if nobody else holds conn and an
\* admin remains.
LEMMA ChangeStep ==
    ASSUME WebInv, Noted, RowsStep, NEW w \in Requests, NEW r, To(w, r), StageOK(w, r)',
           \A v \in Requests \ {w} : req[v].at \notin Holding,
           UNCHANGED <<cookies, cli>>,
           overtaken \/ \E m \in Names : IsAdmin(m)'
    PROVE  WebInv'
<1>1. AdminRemains'
  <2>1. overtaken => overtaken' BY Zenon DEF Noted
  <2> QED BY <2>1 DEF AdminRemains
<1>2. DOMAIN req' = Requests /\ DOMAIN cli' = Commands BY DEF WebInv, Tables, To
<1>3. req'[w] = r /\ \A v \in Requests \ {w} : req'[v] = req[v] BY DEF WebInv, Tables, To
<1>4. StageOK(w, req[w])' BY <1>3
<1>5. \A v \in Requests :
        \/ req'[v] = req[v] /\ (req[v].at \in Holding => conn' = conn)
        \/ StageOK(v, req[v])'
    BY <1>3, <1>4
<1>6. \A k \in Commands : cli'[k] = cli[k] \/ CliOK(cli[k])' OBVIOUS
<1>7. /\ cookies' \in [Cookies -> Session \cup {Gone, Fresh}]
      /\ \A c \in Cookies : cookies'[c] \in {Gone, Fresh, cookies[c]} \/ Current(cookies'[c])
    BY DEF WebInv, Tables
<1> QED BY <1>1, <1>2, <1>5, <1>6, <1>7, StepKeeps

\* A handler that changes the tables runs while nobody holds conn.
LEMMA HandlerStep ==
    ASSUME WebInv, Noted, RowsStep, NEW w \in Requests, NEW r, To(w, r), Free,
           r.at \in {"cleanup", "done"}, r.at = "cleanup" => r.user \in Names,
           UNCHANGED <<cookies, cli>>,
           (\E m \in Names : IsAdmin(m)) => (\E m \in Names : IsAdmin(m))'
    PROVE  WebInv'
<1>1. StageOK(w, r)' BY DEF StageOK, ForUser, Holding, DeleteOK
<1>2. overtaken \/ \E m \in Names : IsAdmin(m)' BY DEF WebInv, AdminRemains
<1>3. \A v \in Requests \ {w} : req[v].at \notin Holding BY FreeMeansIdle
<1> QED BY <1>1, <1>2, <1>3, ChangeStep

LEMMA HandlersKeep ==
    ASSUME WebInv, Noted, NEW w \in Requests,
           CreateUser(w) \/ UpdateUser(w) \/ DeleteToken(w) \/ RevokeToken(w)
    PROVE  WebInv'
<1>0. Done.at = "done" BY DEF Done
<1>1. CASE CreateUser(w)
  <2>1. PICK n \in Names, p \in Passwords, r \in NewRoles : CreateWith(n, p, r, TRUE)
      BY <1>1 DEF CreateUser
  <2>2. To(w, Done) /\ req[w].at = "handler" /\ cli' = cli
      BY <1>1 DEF CreateUser, AdminHandler, Handler
  <2>3. \A m \in Names : Deleting(m) => Deleting(m)' BY <2>2, StillDeleting
  <2>4. RowsStep /\ \A m \in Names : IsAdmin(m) => IsAdmin(m)'
      BY <1>1, <2>1, <2>3, CreateStep DEF CreateUser
  <2> QED BY <1>0, <1>1, <2>2, <2>4, HandlerStep DEF CreateUser, AdminHandler, Handler
<1>2. CASE UpdateUser(w)
  <2>1. PICK n, given, r :
          /\ n \in Names /\ given \in Given
          /\ Update(n, given[1], given[2], TRUE)
          /\ r = [at |-> "cleanup", user |-> n] /\ To(w, r)
      BY <1>2 DEF UpdateUser
  <2> n \in Names /\ given \in Given BY <2>1
  <2>2. given[1] \in NewRoles \cup {0} /\ given[2] \in {{}} \cup {{p} : p \in Passwords}
      BY DEF Given
  <2>3. req[w].at = "handler" /\ cli' = cli BY <1>2 DEF UpdateUser, AdminHandler, Handler
  <2>4. \A m \in Names : Deleting(m) => Deleting(m)' BY <2>1, <2>3, StillDeleting
  <2>5. RowsStep /\ ((\E m \in Names : IsAdmin(m)) => (\E m \in Names : IsAdmin(m))')
      BY <2>1, <2>2, <2>4, UpdateStep
  <2> QED BY <1>2, <2>1, <2>5, HandlerStep DEF UpdateUser, AdminHandler, Handler
<1>3. CASE DeleteToken(w) \/ RevokeToken(w)
  <2>1. PICK t, n : t \in Tokens /\ RemoveToken(t, n) BY <1>3 DEF DeleteToken, RevokeToken
  <2>2. /\ To(w, Done) /\ req[w].at = "handler" /\ Free
        /\ UNCHANGED <<cli, users, changes, lives, cookies>>
      BY <1>3 DEF DeleteToken, RevokeToken, AdminHandler, Handler
  <2>3. \A m \in Names : Deleting(m) => Deleting(m)' BY <2>2, StillDeleting
  <2>4. t \in Tokens /\ tokens' = [tokens EXCEPT ![t] = Gone] BY <2>1 DEF RemoveToken
  <2>5. RowsStep /\ \A m \in Names : IsAdmin(m) => IsAdmin(m)' BY <2>2, <2>3, <2>4, TokenStep
  <2> QED BY <1>0, <2>2, <2>5, HandlerStep
<1> QED BY <1>1, <1>2, <1>3

\* The second statement of create_token: the user of then is still there, or the token is
\* an orphan.
LEMMA InsertKeeps == ASSUME WebInv, Noted, NEW w \in Requests, InsertToken(w) PROVE WebInv'
<1>1. req[w].at = "insert" /\ InsertOK(req[w]) /\ conn = [by |-> w]
    BY DEF InsertToken, WebInv, StageOK, Holding
<1>2. PICK n, s, l : n = req[w].user /\ s = req[w].scoped /\ l = req[w].life OBVIOUS
<1>3. /\ n \in Names /\ s \in BOOLEAN /\ l \in Nat /\ l <= lives[n]
      /\ l = lives[n] => Exists(n)
    BY <1>1, <1>2 DEF InsertOK
<1>4. PICK la, o : la = (s /\ ~IsAdmin(n)) /\ o = (lives[n] # l) OBVIOUS
<1>5. la \in BOOLEAN /\ o \in BOOLEAN BY <1>4, Zenon
<1>6. PICK new : new = [owner |-> n, scoped |-> s, life |-> l, late |-> la, orphan |-> o] OBVIOUS
<1>7. PICK t \in Tokens : tokens' = [tokens EXCEPT ![t] = new]
    BY <1>2, <1>4, <1>6, Zenon DEF InsertToken
<1>8. new \in Token BY <1>3, <1>5, <1>6 DEF Token
<1>9. TokenOK(new)
  <2>1. new.owner = n /\ new.scoped = s /\ new.life = l /\ new.late = la /\ new.orphan = o
      BY <1>6
  <2>2. ~o => lives[n] = l BY <1>4, Zenon
  <2>3. s => IsAdmin(n) \/ la BY <1>4, Zenon
  <2> QED BY <1>3, <2>1, <2>2, <2>3 DEF TokenOK
<1>10. To(w, Done) /\ UNCHANGED <<users, cookies, changes, lives, cli>> BY DEF InsertToken
<1>11. \A m \in Names : Deleting(m) => Deleting(m)' BY <1>1, <1>10, StillDeleting
<1>12. RowsStep /\ \A m \in Names : IsAdmin(m) => IsAdmin(m)'
    BY <1>7, <1>8, <1>9, <1>10, <1>11, TokenStep
<1>13. StageOK(w, Done)' BY Idle DEF Done, ForUser
<1>14. \A v \in Requests \ {w} : req[v].at \notin Holding BY <1>1 DEF WebInv, StageOK
<1>15. overtaken \/ \E m \in Names : IsAdmin(m)' BY <1>12 DEF WebInv, AdminRemains
<1> QED BY <1>10, <1>12, <1>13, <1>14, <1>15, ChangeStep

\* The row and the tokens of a delete: conn was held since the check, so only a command can
\* have changed what was checked.
LEMMA DeleteKeeps ==
    ASSUME WebInv, Noted, NEW w \in Requests, DeleteUser(w) \/ DeleteUserTokens(w) PROVE WebInv'
<1>1. /\ req[w].at \in {"delete", "tokens"} /\ req[w].user \in Names /\ conn = [by |-> w]
      /\ DeleteOK(req[w])
    BY DEF DeleteUser, DeleteUserTokens, WebInv, StageOK, ForUser, Holding
<1>2. \A v \in Requests \ {w} : req[v].at \notin Holding BY <1>1 DEF WebInv, StageOK
<1>3. PICK n : n = req[w].user OBVIOUS
<1>4. UNCHANGED <<cookies, cli>> BY DEF DeleteUser, DeleteUserTokens
<1>5. CASE DeleteUser(w) /\ Exists(n)
  <2>1. PICK r : r = [at |-> "tokens", user |-> n] OBVIOUS
  <2>2. DeleteRow(n) /\ To(w, r) /\ conn' = conn /\ req[w].at = "delete"
      BY <1>3, <1>5, <2>1 DEF DeleteUser
  <2>3. \A m \in Names : Deleting(m) => Deleting(m)' BY <1>4, <2>2, StillDeleting
  <2>4. req'[w] = r BY <2>2 DEF To, WebInv, Tables
  <2>5. Deleting(n)' BY <2>1, <2>4 DEF Deleting
  <2>6. RowsStep /\ \A m \in Names \ {n} : IsAdmin(m) => IsAdmin(m)'
      BY <1>1, <1>3, <2>2, <2>3, <2>5, DeleteRowStep
  <2>7. overtaken \/ \E m \in Names : IsAdmin(m)'
    <3>1. CASE ~overtaken
      <4>1. EnsureAdminRemains(n, 0) BY <1>1, <1>3, <2>2, <3>1 DEF DeleteOK
      <4>2. \E m \in Names : IsAdmin(m) BY <3>1 DEF WebInv, AdminRemains
      <4>3. \E m \in Names \ {n} : IsAdmin(m) BY <4>1, <4>2 DEF EnsureAdminRemains
      <4> QED BY <2>6, <4>3
    <3> QED BY <3>1
  <2>8. StageOK(w, r)' BY <1>1, <1>3, <2>1, <2>2 DEF StageOK, ForUser, Holding, DeleteOK
  <2> QED BY <1>2, <1>4, <2>2, <2>6, <2>7, <2>8, ChangeStep
<1>6. CASE DeleteUser(w) /\ ~Exists(n)
  <2>1. StageOK(w, Done)' BY Idle DEF Done, ForUser
  <2>2. To(w, Done) /\ UNCHANGED <<users, tokens, changes, lives>> /\ req[w].at = "delete"
      BY <1>3, <1>6 DEF DeleteUser
  <2> QED BY <1>2, <1>4, <2>1, <2>2, QuietStep DEF WebInv, Tables
<1>7. CASE DeleteUserTokens(w)
  <2>1. PICK r : /\ To(w, r)
                 /\ r = Done \/ r = [at |-> "cleanup", user |-> n]
                 /\ DeleteTokens(n) \/ LeaveTokens(n)
      BY <1>3, <1>7 DEF DeleteUserTokens
  <2>2. \A m \in Names \ {n} : Deleting(m) => Deleting(m)' BY <1>3, <1>4, <2>1, StillDeleting
  <2>3. RowsStep /\ \A m \in Names : IsAdmin(m) <=> IsAdmin(m)'
      BY <1>1, <1>3, <2>1, <2>2, DeleteTokensStep
  <2>4. overtaken \/ \E m \in Names : IsAdmin(m)' BY <2>3 DEF WebInv, AdminRemains
  <2>5. StageOK(w, r)' BY <1>1, <1>3, <2>1 DEF StageOK, ForUser, Holding, DeleteOK, Done
  <2> QED BY <1>2, <1>4, <2>1, <2>3, <2>4, <2>5, ChangeStep
<1> QED BY <1>5, <1>6, <1>7

LEMMA OwnWriteKeeps == ASSUME WebInv, Noted, NEW w \in Requests, OwnWrite(w) PROVE WebInv'
<1>0. PICK n : n = req[w].user OBVIOUS
<1>1. /\ req[w].at = "own_write" /\ n \in Names /\ req[w].pw \in Passwords /\ conn = [by |-> w]
      /\ UNCHANGED <<cookies, cli, tokens, lives>>
    BY <1>0 DEF OwnWrite, WebInv, StageOK, ForUser, Holding
<1>2. \A v \in Requests \ {w} : req[v].at \notin Holding BY <1>1 DEF WebInv, StageOK
<1>3. CASE OwnUnchanged(n, req[w].epoch)
  <2>1. PICK p, r :
          /\ p = req[w].pw /\ r = [at |-> "own_cleanup", user |-> n]
          /\ users' = [users EXCEPT ![n].pw = p, ![n].must = FALSE, ![n].epoch = @ + 1]
          /\ changes' = [changes EXCEPT ![n] = @ + 1]
          /\ To(w, r)
      BY <1>0, <1>3 DEF OwnWrite
  <2>2. Exists(n) /\ p \in Passwords BY <1>1, <1>3, <2>1 DEF OwnUnchanged
  <2>3. \A m \in Names : Deleting(m) => Deleting(m)' BY <1>1, <2>1, StillDeleting
  <2>4. RowsStep /\ \A m \in Names : IsAdmin(m) <=> IsAdmin(m)'
      BY <1>1, <2>1, <2>2, <2>3, OwnChangeStep
  <2>5. overtaken \/ \E m \in Names : IsAdmin(m)' BY <2>4 DEF WebInv, AdminRemains
  <2>6. StageOK(w, r)' BY <1>1, <2>1 DEF StageOK, ForUser, Holding, DeleteOK
  <2> QED BY <1>1, <1>2, <2>1, <2>4, <2>5, <2>6, ChangeStep
<1>4. CASE ~OwnUnchanged(n, req[w].epoch)
  <2>1. StageOK(w, Done)' BY Idle DEF Done, ForUser
  <2> QED BY <1>0, <1>1, <1>2, <1>4, <2>1, QuietStep DEF OwnWrite, WebInv, Tables
<1> QED BY <1>3, <1>4

\* A step without a request, and without a command, keeps the invariant.
LEMMA LogoutKeeps ==
    ASSUME WebInv, UNCHANGED <<users, tokens, req, cli, conn, changes, lives>>,
           Noted, cookies' \in [Cookies -> Session \cup {Gone, Fresh}],
           \A c \in Cookies : cookies'[c] \in {Gone, cookies[c]}
    PROVE  WebInv'
<1>1. \A m \in Names : Deleting(m) => Deleting(m)' BY DEF Deleting
<1>2. RowsStep BY <1>1, SameRows
<1>3. AdminRemains'
  <2>1. overtaken => overtaken' BY Zenon DEF Noted
  <2> QED BY <2>1 DEF WebInv, AdminRemains, IsAdmin, Exists
<1>4. DOMAIN req' = Requests /\ DOMAIN cli' = Commands BY DEF WebInv, Tables
<1>5. \A v \in Requests :
        \/ req'[v] = req[v] /\ (req[v].at \in Holding => conn' = conn)
        \/ StageOK(v, req[v])'
    OBVIOUS
<1>6. \A k \in Commands : cli'[k] = cli[k] \/ CliOK(cli[k])' OBVIOUS
<1>7. \A c \in Cookies : cookies'[c] \in {Gone, Fresh, cookies[c]} \/ Current(cookies'[c])
    OBVIOUS
<1> QED BY <1>2, <1>3, <1>4, <1>5, <1>6, <1>7, StepKeeps

\* A command of the command line takes no lock; whom it overtakes is noted.
LEMMA CommandStep ==
    ASSUME WebInv, Noted, RowsStep, NEW k \in Commands, NEW r, CliTo(k, r), CliOK(r)',
           UNCHANGED <<cookies, req, conn>>,
           overtaken \/ \E m \in Names : IsAdmin(m)'
    PROVE  WebInv'
<1>1. AdminRemains'
  <2>1. overtaken => overtaken' BY Zenon DEF Noted
  <2> QED BY <2>1 DEF AdminRemains
<1>2. DOMAIN req' = Requests /\ DOMAIN cli' = Commands BY DEF WebInv, Tables, CliTo
<1>3. cli'[k] = r /\ \A j \in Commands \ {k} : cli'[j] = cli[j] BY DEF WebInv, Tables, CliTo
<1>4. CliOK(cli[k])' BY <1>3
<1>5. \A j \in Commands : cli'[j] = cli[j] \/ CliOK(cli[j])' BY <1>3, <1>4
<1>6. \A v \in Requests :
        \/ req'[v] = req[v] /\ (req[v].at \in Holding => conn' = conn)
        \/ StageOK(v, req[v])'
    OBVIOUS
<1>7. /\ cookies' \in [Cookies -> Session \cup {Gone, Fresh}]
      /\ \A c \in Cookies : cookies'[c] \in {Gone, Fresh, cookies[c]} \/ Current(cookies'[c])
    BY DEF WebInv, Tables
<1> QED BY <1>1, <1>2, <1>5, <1>6, <1>7, StepKeeps

LEMMA CommandsKeep == ASSUME WebInv, Noted, NEW k \in Commands, Command(k) PROVE WebInv'
<1>0. UNCHANGED <<cookies, req, conn>> BY DEF Command
<1>1. CliOK(Done)' BY DEF CliOK, DeleteOK, Done
<1>2. CASE CliAdd(k) \/ CliPasswd(k) \/ CliRole(k)
  <2>1. CliTo(k, Done) /\ cli[k].at = "start"
      BY <1>2 DEF CliAdd, CliPasswd, CliRole, CliBegins
  <2>2. \A m \in Names : Deleting(m) => Deleting(m)' BY <1>0, <2>1, StillDeleting
  <2>3. RowsStep /\ ((\E m \in Names : IsAdmin(m)) => (\E m \in Names : IsAdmin(m))')
    <3>1. CASE CliAdd(k)
      <4>1. PICK n \in Names, p \in Passwords, r \in NewRoles : CreateWith(n, p, r, FALSE)
          BY <3>1 DEF CliAdd
      <4>2. RowsStep /\ \A m \in Names : IsAdmin(m) => IsAdmin(m)'
          BY <2>2, <3>1, <4>1, CreateStep DEF CliAdd
      <4> QED BY <4>2
    <3>2. CASE CliPasswd(k)
      <4>1. PICK n \in Names, p \in Passwords : Update(n, 0, {p}, FALSE) BY <3>2 DEF CliPasswd
      <4> QED BY <2>2, <4>1, UpdateStep
    <3>3. CASE CliRole(k)
      <4>1. PICK n \in Names, r \in NewRoles : Update(n, r, {}, FALSE) BY <3>3 DEF CliRole
      <4> QED BY <2>2, <4>1, UpdateStep
    <3> QED BY <1>2, <3>1, <3>2, <3>3
  <2>4. overtaken \/ \E m \in Names : IsAdmin(m)' BY <2>3 DEF WebInv, AdminRemains
  <2> QED BY <1>0, <1>1, <2>1, <2>3, <2>4, CommandStep
<1>3. CASE CliDeleteCheck(k)
  <2>1. PICK n, r :
          /\ n \in Names /\ EnsureAdminRemains(n, 0)
          /\ r = [at |-> "delete", user |-> n] /\ CliTo(k, r)
      BY <1>3 DEF CliDeleteCheck
  <2>2. cli[k].at = "start" /\ UNCHANGED <<users, tokens, changes, lives>>
      BY <1>3 DEF CliDeleteCheck, CliBegins
  <2>3. \A m \in Names : Deleting(m) => Deleting(m)' BY <1>0, <2>1, <2>2, StillDeleting
  <2>4. RowsStep BY <2>2, <2>3, SameRows
  <2>5. overtaken \/ \E m \in Names : IsAdmin(m)'
      BY <2>2 DEF WebInv, AdminRemains, IsAdmin, Exists
  <2>6. CliOK(r)' BY <2>1, <2>2 DEF CliOK, DeleteOK, EnsureAdminRemains, IsAdmin, Exists
  <2> QED BY <1>0, <2>1, <2>4, <2>5, <2>6, CommandStep
<1>4. CASE CliDeleteUser(k)
  <2>0. PICK n : n = cli[k].user OBVIOUS
  <2>1. cli[k].at = "delete" /\ n \in Names /\ DeleteOK(cli[k])
      BY <1>4, <2>0 DEF CliDeleteUser, WebInv, CliOK
  <2>2. CASE Exists(n) /\ DeleteRow(n) /\ CliTo(k, [at |-> "tokens", user |-> n])
    <3>1. PICK r : r = [at |-> "tokens", user |-> n] /\ CliTo(k, r) BY <2>2
    <3>2. \A m \in Names : Deleting(m) => Deleting(m)' BY <1>0, <2>1, <3>1, StillDeleting
    <3>3. cli'[k] = r BY <3>1 DEF CliTo, WebInv, Tables
    <3>4. Deleting(n)' BY <3>1, <3>3 DEF Deleting
    <3>5. RowsStep /\ \A m \in Names \ {n} : IsAdmin(m) => IsAdmin(m)'
        BY <2>1, <2>2, <3>2, <3>4, DeleteRowStep
    <3>6. overtaken \/ \E m \in Names : IsAdmin(m)'
      <4>1. CASE ~overtaken
        <5>1. EnsureAdminRemains(n, 0) BY <2>0, <2>1, <4>1 DEF DeleteOK
        <5>2. \E m \in Names : IsAdmin(m) BY <4>1 DEF WebInv, AdminRemains
        <5>3. \E m \in Names \ {n} : IsAdmin(m) BY <5>1, <5>2 DEF EnsureAdminRemains
        <5> QED BY <3>5, <5>3
      <4> QED BY <4>1
    <3>7. CliOK(r)' BY <2>1, <3>1 DEF CliOK, DeleteOK
    <3> QED BY <1>0, <3>1, <3>5, <3>6, <3>7, CommandStep
  <2>3. CASE CliTo(k, Done) /\ UNCHANGED <<users, tokens, changes, lives>>
    <3>1. \A m \in Names : Deleting(m) => Deleting(m)' BY <1>0, <2>1, <2>3, StillDeleting
    <3>2. RowsStep BY <2>3, <3>1, SameRows
    <3>3. overtaken \/ \E m \in Names : IsAdmin(m)'
        BY <2>3 DEF WebInv, AdminRemains, IsAdmin, Exists
    <3> QED BY <1>0, <1>1, <2>3, <3>2, <3>3, CommandStep
  <2> QED BY <1>4, <2>0, <2>2, <2>3 DEF CliDeleteUser
<1>5. CASE CliDeleteTokens(k)
  <2>0. PICK n : n = cli[k].user OBVIOUS
  <2>1. /\ n \in Names /\ CliTo(k, Done)
        /\ DeleteTokens(n) \/ LeaveTokens(n)
      BY <1>5, <2>0 DEF CliDeleteTokens, WebInv, CliOK
  <2>2. \A m \in Names \ {n} : Deleting(m) => Deleting(m)' BY <1>0, <2>0, <2>1, StillDeleting
  <2>3. RowsStep /\ \A m \in Names : IsAdmin(m) <=> IsAdmin(m)' BY <2>1, <2>2, DeleteTokensStep
  <2>4. overtaken \/ \E m \in Names : IsAdmin(m)' BY <2>3 DEF WebInv, AdminRemains
  <2> QED BY <1>0, <1>1, <2>1, <2>3, <2>4, CommandStep
<1> QED BY <1>2, <1>3, <1>4, <1>5 DEF Command
-------------------------------------------------------------------------------
LEMMA WebInitially == WebInit => WebInv
<1> SUFFICES ASSUME WebInit PROVE WebInv OBVIOUS
<1>1. (CHOOSE p \in Passwords : TRUE) \in Passwords OBVIOUS
<1>2. Tables
  <2>1. /\ users \in [Names -> Row \cup {Gone}] /\ tokens \in [Tokens -> Token \cup {Gone, Fresh}]
        /\ cookies \in [Cookies -> Session \cup {Gone, Fresh}]
      BY <1>1 DEF WebInit, Row
  <2>2. /\ changes \in [Names -> Nat] /\ lives \in [Names -> Nat]
        /\ DOMAIN req = Requests /\ DOMAIN cli = Commands
      BY DEF WebInit
  <2>3. overtaken \in BOOLEAN BY DEF WebInit
  <2> QED BY <2>1, <2>2, <2>3 DEF Tables
<1>3. IsAdmin("admin") BY DEF WebInit, IsAdmin, Exists, Gone
<1>4. \A w \in Requests : StageOK(w, req[w])
    BY DEF WebInit, StageOK, ForUser, Holding, DeleteOK
<1>5. \A k \in Commands : CliOK(cli[k]) BY DEF WebInit, CliOK, DeleteOK
<1> QED BY <1>2, <1>3, <1>4, <1>5 DEF WebInit, WebInv, AdminRemains

LEMMA WebStep == WebInv /\ [WebNext]_webVars => WebInv'
<1> SUFFICES ASSUME WebInv, [WebNext]_webVars PROVE WebInv' OBVIOUS
<1>1. ASSUME NEW w \in Requests, WebRequest(w), Noted PROVE WebInv'
    BY <1>1, LoginKeeps, AuthKeeps, CleanupKeeps, ChecksKeep, AssistantKeeps, HandlersKeep,
       InsertKeeps, DeleteKeeps, OwnWriteKeeps DEF WebRequest
<1>2. CASE Logout /\ Noted
  <2>1. PICK c \in Cookies : cookies' = [cookies EXCEPT ![c] = Gone] BY <1>2 DEF Logout
  <2>2. /\ cookies' \in [Cookies -> Session \cup {Gone, Fresh}]
        /\ \A d \in Cookies : cookies'[d] \in {Gone, cookies[d]}
      BY <2>1 DEF WebInv, Tables
  <2> QED BY <1>2, <2>2, LogoutKeeps DEF Logout
<1>3. CASE UNCHANGED webVars
  <2>1. WebInv' = WebInv
      BY <1>3 DEF webVars, WebInv, Tables, AdminRemains, IsAdmin, Exists, StageOK, DeleteOK,
         InsertOK, ToolOK, Current, EnsureAdminRemains, CliOK, TokenOK, Deleting
  <2> QED BY <2>1
<1> QED BY <1>1, <1>2, <1>3, CommandsKeep DEF WebNext, Noted

LEMMA WebInvariance == WebSpec => []WebInv
BY WebInitially, WebStep, PTL DEF WebSpec

\* Whatever admins do to each other at once, in the web UI and on the command line, one
\* remains, unless an admin went while another delete was between its check and its DELETE,
\* which are two statements in either process: ensure_admin_remains and delete of users.rs.
THEOREM AnAdminRemains == WebSpec => []AdminRemains
<1>1. WebInv => AdminRemains BY DEF WebInv
<1> QED BY <1>1, WebInvariance, PTL

\* A cookie is not accepted behind a change of its user's password or role that follows the
\* reading of its epoch, in the same life of the name, for any number of logins, changes and
\* commands at once: the epoch of users.rs and web/auth.rs.
THEOREM CookiesEndWithChanges == WebSpec => []SessionsEnd
<1>1. WebInv => SessionsEnd
  <2> SUFFICES ASSUME WebInv, NEW c \in Cookies, cookies[c] \notin {Gone, Fresh},
                      Accepted(cookies[c].user, cookies[c].epoch),
                      lives[cookies[c].user] = cookies[c].life
               PROVE  changes[cookies[c].user] = cookies[c].seen
      BY DEF SessionsEnd
  <2>1. Current(cookies[c]) BY DEF WebInv
  <2>2. changes[cookies[c].user] \in Nat BY <2>1 DEF Current, WebInv, Tables
  <2> QED BY <2>1, <2>2 DEF Current, Accepted
<1> QED BY <1>1, WebInvariance, PTL

\* Tokens end with their user and their scopes with the Admin role, but for the three gaps
\* that TokensOfUsers names (a delete cut between its two DELETEs, or between the two
\* statements of create_token; scopes stored behind a demotion), and in use no token lets
\* somebody change anything who was no admin: delete, update and create_token of users.rs,
\* authenticate and post of web/mcp.rs.
THEOREM TokensEndWithTheirUsers == WebSpec => []TokensEnd
<1>1. WebInv => TokensEnd
  <2> SUFFICES ASSUME WebInv PROVE TokensEnd OBVIOUS
  <2>1. TokensOfUsers BY DEF TokensOfUsers, WebInv, TokenOK
  <2>2. ChangesForAdmins BY DEF ChangesForAdmins, WebInv, StageOK, ToolOK
  <2> QED BY <2>1, <2>2 DEF TokensEnd
<1> QED BY <1>1, WebInvariance, PTL

\* change_own_password does not replace a password that was set behind its read, though the
\* command line does not take the gateway's lock, as long as the name was not deleted in
\* between: a row that was created again may have the epoch that was read.
THEOREM OwnChangesAreConditional == WebSpec => OwnChangeSeesItsRow
<1> DEFINE Seen(w) ==
        LET n == req[w].user
        IN (/\ req[w].at = "own_write" /\ req'[w].at = "own_cleanup"
            /\ lives[n] = req[w].life)
           => changes[n] = req[w].seen
<1>1. ASSUME WebInv, [WebNext]_webVars, NEW w \in Requests PROVE Seen(w)
  <2> SUFFICES ASSUME req[w].at = "own_write", req'[w].at = "own_cleanup",
                      lives[req[w].user] = req[w].life
               PROVE  changes[req[w].user] = req[w].seen
      OBVIOUS
  <2>1. Current(req[w]) /\ DOMAIN req = Requests BY <1>1 DEF WebInv, StageOK, Tables
  <2>2. changes[req[w].user] \in Nat BY <1>1, <2>1 DEF Current, WebInv, Tables
  <2>3. ASSUME NEW v \in Requests, WebRequest(v) PROVE OwnWrite(w)
    <3>1. \E r : To(v, r)
        BY <2>3 DEF WebRequest, Login, LoginVerify, SessionState, SessionCreate, AuthSession,
           AuthState, CreateUser, UpdateUser, DeleteCheck, DeleteUser, DeleteUserTokens,
           RemoveSessions, OwnRead, OwnWrite, OwnCleanup, SelectUser, InsertToken, DeleteToken,
           RevokeToken, VerifyToken, Authenticate, ToolRuns
    <3>2. v = w BY <2>1, <3>1 DEF To
    <3>3. WebRequest(w) => OwnWrite(w)
        BY DEF WebRequest, Login, LoginVerify, SessionState, SessionCreate, AuthSession,
           AuthState, CreateUser, UpdateUser, DeleteCheck, DeleteUser, DeleteUserTokens,
           RemoveSessions, OwnRead, OwnCleanup, SelectUser, InsertToken, DeleteToken, RevokeToken,
           VerifyToken, Authenticate, ToolRuns, Begins, Handler, AdminHandler
    <3> QED BY <2>3, <3>2, <3>3
  <2>4. OwnWrite(w) => OwnUnchanged(req[w].user, req[w].epoch)
      BY <2>1 DEF OwnWrite, To, Done
  <2>5. CASE \E v \in Requests : WebRequest(v)
    <3>1. Exists(req[w].user) /\ users[req[w].user].epoch = req[w].epoch
        BY <2>3, <2>4, <2>5 DEF OwnUnchanged
    <3> QED BY <2>1, <2>2, <3>1 DEF Current
  <2>6. CASE Logout \/ (\E k \in Commands : Command(k)) \/ UNCHANGED webVars
      BY <2>6 DEF Logout, Command, webVars
  <2> QED BY <1>1, <2>5, <2>6 DEF WebNext
<1>2. WebInv /\ [WebNext]_webVars => [\A w \in Requests : Seen(w)]_webVars BY <1>1
<1> QED BY <1>2, WebInvariance, PTL DEF WebSpec, OwnChangeSeesItsRow

\* The stages of a request.
WebStages == ForUser \cup {"start", "done"}

\* UserStore::conn is held by one request at most, and exactly by the one that is between
\* the check, or the read, of a change and its last write.
OneHolder ==
    /\ conn \in {Gone} \cup [by : Requests]
    /\ \A w \in Requests : req[w].at \in Holding <=> conn = [by |-> w]

\* A request that moves keeps conn, takes it when it is free, or gives it back.
LEMMA RequestMoves ==
    ASSUME NEW w \in Requests, WebRequest(w)
    PROVE  \E r : /\ req' = [req EXCEPT ![w] = r] /\ r.at \in WebStages
                 /\ \/ (req[w].at \in Holding <=> r.at \in Holding) /\ conn' = conn
                    \/ req[w].at \notin Holding /\ r.at \in Holding /\ conn = Gone /\ conn' = [by |-> w]
                    \/ req[w].at \in Holding /\ r.at \notin Holding /\ conn' = Gone
<1> USE DEF WebStages, ForUser, Holding, To, Done
<1>1. CASE LoginVerify(w) \/ AuthSession(w) \/ VerifyToken(w)
    BY <1>1 DEF LoginVerify, AuthSession, VerifyToken, Begins
<1>2. CASE SessionCreate(w, Done) \/ RemoveSessions(w) \/ OwnCleanup(w) \/ ToolRuns(w)
    BY <1>2 DEF SessionCreate, RemoveSessions, OwnCleanup, ToolRuns
<1>3. CASE SessionState(w)
  <2>1. PICK r : r = IF Exists(req[w].user)
                     THEN [at |-> "create", user |-> req[w].user, epoch |-> users[req[w].user].epoch,
                           seen |-> changes[req[w].user], life |-> lives[req[w].user]]
                     ELSE Done
      OBVIOUS
  <2>2. r.at \in {"create", "done"} BY <2>1
  <2>3. req' = [req EXCEPT ![w] = r] BY <1>3, <2>1 DEF SessionState
  <2> QED BY <1>3, <2>2, <2>3 DEF SessionState
<1>4. CASE AuthState(w)
  <2>1. PICK r : r = IF Accepted(req[w].user, req[w].epoch)
                     THEN [at |-> "handler", user |-> req[w].user, role |-> users[req[w].user].role,
                           must |-> users[req[w].user].must]
                     ELSE Done
      OBVIOUS
  <2>2. r.at \in {"handler", "done"} BY <2>1
  <2>3. req' = [req EXCEPT ![w] = r] BY <1>4, <2>1 DEF AuthState
  <2> QED BY <1>4, <2>2, <2>3 DEF AuthState
<1>5. CASE CreateUser(w) \/ DeleteToken(w) \/ RevokeToken(w)
    BY <1>5 DEF CreateUser, DeleteToken, RevokeToken, AdminHandler, Handler
<1>6. CASE UpdateUser(w) BY <1>6 DEF UpdateUser, AdminHandler, Handler
<1>7. CASE DeleteCheck(w) BY <1>7 DEF DeleteCheck, AdminHandler, Handler, Free
<1>8. CASE DeleteUser(w) BY <1>8 DEF DeleteUser
<1>9. CASE OwnRead(w)
  <2>1. PICK p : req' = [req EXCEPT ![w] =
          [at |-> "own_write", user |-> req[w].user, pw |-> p, epoch |-> users[req[w].user].epoch,
           seen |-> changes[req[w].user], life |-> lives[req[w].user]]]
      BY <1>9 DEF OwnRead
  <2>2. PICK r :
          /\ r = [at |-> "own_write", user |-> req[w].user, pw |-> p,
                  epoch |-> users[req[w].user].epoch, seen |-> changes[req[w].user],
                  life |-> lives[req[w].user]]
          /\ req' = [req EXCEPT ![w] = r]
      BY <2>1
  <2>3. r.at = "own_write" BY <2>2
  <2>4. req[w].at = "handler" /\ conn = Gone /\ conn' = [by |-> w] BY <1>9 DEF OwnRead, Free
  <2> QED BY <2>2, <2>3, <2>4
<1>10. CASE OwnWrite(w)
  <2>1. PICK r \in {[at |-> "own_cleanup", user |-> req[w].user], Done} : req' = [req EXCEPT ![w] = r]
    <3>1. req' = [req EXCEPT ![w] = [at |-> "own_cleanup", user |-> req[w].user]]
          \/ req' = [req EXCEPT ![w] = Done]
        BY <1>10, Zenon DEF OwnWrite
    <3> QED BY <3>1
  <2>2. r.at \in {"own_cleanup", "done"} OBVIOUS
  <2>3. req[w].at = "own_write" /\ conn' = Gone BY <1>10, Zenon DEF OwnWrite
  <2> QED BY <2>1, <2>2, <2>3
<1>11. CASE Authenticate(w)
  <2>1. PICK r : r = IF Exists(req[w].user) /\ ~users[req[w].user].must
                     THEN [at |-> "tool", user |-> req[w].user,
                           changing |-> MayChangeConfig(req[w].scoped, users[req[w].user].role),
                           seen |-> changes[req[w].user], life |-> lives[req[w].user]]
                     ELSE Done
      OBVIOUS
  <2>2. r.at \in {"tool", "done"} BY <2>1
  <2>3. req' = [req EXCEPT ![w] = r] BY <1>11, <2>1 DEF Authenticate
  <2> QED BY <1>11, <2>2, <2>3 DEF Authenticate
<1>12. CASE DeleteUserTokens(w)
  <2>1. PICK r : /\ req' = [req EXCEPT ![w] = r]
                 /\ r = [at |-> "cleanup", user |-> req[w].user] \/ r = Done
      BY <1>12 DEF DeleteUserTokens
  <2>2. r.at \in {"cleanup", "done"} BY <2>1
  <2>3. req[w].at = "tokens" /\ conn' = Gone BY <1>12 DEF DeleteUserTokens
  <2> QED BY <2>1, <2>2, <2>3
<1>13. CASE SelectUser(w)
  <2>1. req[w].at = "handler" /\ conn = Gone BY <1>13 DEF SelectUser, Handler, Free
  <2>2. CASE Exists(req[w].user)
    <3>1. PICK s, r :
            /\ r = [at |-> "insert", user |-> req[w].user, scoped |-> s, life |-> lives[req[w].user]]
            /\ req' = [req EXCEPT ![w] = r]
        BY <1>13, <2>2 DEF SelectUser
    <3>2. r.at = "insert" /\ conn' = [by |-> w] BY <1>13, <2>2, <3>1 DEF SelectUser
    <3> QED BY <2>1, <3>1, <3>2
  <2>3. CASE ~Exists(req[w].user) BY <1>13, <2>1, <2>3 DEF SelectUser
  <2> QED BY <2>2, <2>3
<1>14. CASE InsertToken(w)
  <2>1. PICK r : r = [at |-> "done"] /\ req' = [req EXCEPT ![w] = r] BY <1>14 DEF InsertToken
  <2>2. req[w].at = "insert" /\ conn' = Gone BY <1>14 DEF InsertToken
  <2>3. r.at = "done" BY <2>1
  <2> QED BY <2>1, <2>2, <2>3
<1> QED
    BY <1>1, <1>2, <1>3, <1>4, <1>5, <1>6, <1>7, <1>8, <1>9, <1>10, <1>11, <1>12, <1>13, <1>14
       DEF WebRequest, Login

\* The stages of the requests and the holder of conn, of every reachable state.
LEMMA HolderInvariance ==
    WebSpec => [](OneHolder /\ \A w \in Requests : req[w].at \in WebStages)
<1> DEFINE Inv == OneHolder /\ \A w \in Requests : req[w].at \in WebStages
<1>0. \A w : [by |-> w] # Gone
  <2>1. \A w : DOMAIN [by |-> w] = {"by"} OBVIOUS
  <2>2. DOMAIN Gone = {"gone"} BY DEF Gone
  <2> QED BY <2>1, <2>2
<1>1. WebInit => Inv
    BY <1>0 DEF WebInit, OneHolder, Holding, WebStages
<1>2. WebInv /\ Inv /\ [WebNext]_webVars => Inv'
  <2> SUFFICES ASSUME WebInv, Inv, [WebNext]_webVars PROVE Inv' OBVIOUS
  <2>0. DOMAIN req = Requests BY DEF WebInv, Tables
  <2>1. CASE Logout \/ (\E k \in Commands : Command(k)) \/ UNCHANGED webVars
    <3>1. UNCHANGED <<req, conn>> BY <2>1 DEF Logout, Command, webVars
    <3> QED BY <3>1 DEF OneHolder
  <2>2. ASSUME NEW w \in Requests, WebRequest(w) PROVE Inv'
    <3>1. PICK r : /\ req' = [req EXCEPT ![w] = r] /\ r.at \in WebStages
                   /\ \/ (req[w].at \in Holding <=> r.at \in Holding) /\ conn' = conn
                      \/ req[w].at \notin Holding /\ r.at \in Holding /\ conn = Gone /\ conn' = [by |-> w]
                      \/ req[w].at \in Holding /\ r.at \notin Holding /\ conn' = Gone
        BY <2>2, RequestMoves
    <3>2. \A v \in Requests : req'[v] = IF v = w THEN r ELSE req[v] BY <2>0, <3>1
    <3>3. \A v \in Requests : req'[v].at \in WebStages BY <3>1, <3>2
    <3>4. \A v, u : [by |-> v] = [by |-> u] => v = u
      <4> SUFFICES ASSUME NEW v, NEW u, [by |-> v] = [by |-> u] PROVE v = u OBVIOUS
      <4>1. [by |-> v].by = [by |-> u].by OBVIOUS
      <4> QED BY <4>1
    <3>5. conn' \in {Gone} \cup [by : Requests] BY <3>1 DEF OneHolder
    <3>6. ASSUME NEW v \in Requests PROVE req'[v].at \in Holding <=> conn' = [by |-> v]
      <4>1. req[w].at \in Holding <=> conn = [by |-> w] BY DEF OneHolder
      <4>2. req[v].at \in Holding <=> conn = [by |-> v] BY DEF OneHolder
      <4> QED BY <1>0, <3>1, <3>2, <3>4, <4>1, <4>2
    <3> QED BY <3>3, <3>5, <3>6 DEF OneHolder
  <2> QED BY <2>1, <2>2 DEF WebNext
<1> QED BY <1>1, <1>2, WebInvariance, PTL DEF WebSpec

\* Among the requests of the gateway, one change of users at a time is between its check and
\* its last write, for any number of requests: the lock around UserStore::conn, held by
\* delete, create_token and change_own_password of users.rs.
THEOREM OneChangeAtATime == WebSpec => []OneHolder
<1> QED BY HolderInvariance, PTL

\* Type correctness of the tables of users and tokens, the sessions, the requests and the
\* commands.
THEOREM AccessTyped == WebSpec => []WebTypeOK
<1>1. WebInv /\ OneHolder /\ (\A w \in Requests : req[w].at \in WebStages) => WebTypeOK
  <2> SUFFICES ASSUME WebInv, OneHolder, \A w \in Requests : req[w].at \in WebStages
               PROVE  WebTypeOK
    OBVIOUS
  <2>1. Tables /\ \A k \in Commands : CliOK(cli[k]) BY DEF WebInv
  <2>2. \A n \in Names : Exists(n) => users[n] \in Row BY <2>1 DEF Tables, Exists
  <2>3. \A c \in Cookies : cookies[c] \in {Gone, Fresh} \/ cookies[c] \in Session BY <2>1 DEF Tables
  <2>4. \A t \in Tokens : tokens[t] \in {Gone, Fresh} \/ tokens[t] \in Token BY <2>1 DEF Tables
  <2>5. overtaken \in BOOLEAN BY <2>1 DEF Tables
  <2> QED
      BY <2>1, <2>2, <2>3, <2>4, <2>5
      DEF WebTypeOK, OneHolder, WebStages, ForUser, CliOK, Row, Session, Token
<1> QED BY <1>1, HolderInvariance, WebInvariance, PTL DEF WebSpec

-------------------------------------------------------------------------------
(* LoginLimit *)

Told == {"no", "stored", "cut"}
Failure == [count : Nat, old : BOOLEAN]
LoginRecord ==
    [at : {"start"}] \cup [at : {"refused"}, from : LimAddresses]
    \cup [at : {"waiting", "checking", "in", "refused", "dropped"}, from : LimAddresses, user : LimUsers]
    \cup [at : {"wrong", "failing", "blocking", "failed", "dropped"}, from : LimAddresses, user : LimUsers,
          starts : SUBSET Keys]

\* A login that still has to tell of the block of k.
Tells(l, k) == login[l].at \in {"wrong", "failing", "blocking"} /\ k \in login[l].starts

LimInv ==
    /\ login \in [Logins -> LoginRecord]
    /\ failures \in [Keys -> Failure]
    /\ told \in [Keys -> Told]
    /\ BlockIsRecorded

\* The counts and the records stay; whoever has to tell still has to.
LEMMA NothingCounted ==
    ASSUME LimInv, login' \in [Logins -> LoginRecord], UNCHANGED <<failures, told>>,
           \A l \in Logins, k \in Keys : Tells(l, k) => Tells(l, k)'
    PROVE  LimInv'
BY DEF LimInv, BlockIsRecorded, Blocked, Limit, Tells

LEMMA ArrivalsKeep ==
    ASSUME LimInv, NEW l \in Logins, Arrive(l) \/ Permit(l) \/ PermitTimeout(l) PROVE LimInv'
<1>1. login[l] \in LoginRecord /\ login \in [Logins -> LoginRecord] BY DEF LimInv
<1>2. PICK r : login' = [login EXCEPT ![l] = r] /\ r \in LoginRecord
               /\ login[l].at \in {"start", "waiting"}
  <2>1. CASE Arrive(l)
    <3>1. PICK a, u, r :
            /\ a \in LimAddresses /\ u \in LimUsers
            /\ r = IF Blocked(a) THEN [at |-> "refused", from |-> a]
                   ELSE [at |-> "waiting", from |-> a, user |-> u]
            /\ login' = [login EXCEPT ![l] = r]
        BY <2>1 DEF Arrive
    <3> a \in LimAddresses /\ u \in LimUsers BY <3>1
    <3>2. login[l].at = "start" BY <2>1 DEF Arrive, Arrives
    <3>3. r \in LoginRecord BY <3>1 DEF LoginRecord
    <3> QED BY <3>1, <3>2, <3>3
  <2>2. CASE Permit(l) \/ PermitTimeout(l)
    <3>1. login[l].at = "waiting" BY <2>2 DEF Permit, PermitTimeout
    <3>2. login[l] \in [at : {"waiting", "checking", "in", "refused", "dropped"}, from : LimAddresses,
                        user : LimUsers]
        BY <1>1, <3>1 DEF LoginRecord
    <3>3. PICK where \in {"checking", "refused"} : login' = [login EXCEPT ![l].at = where]
        BY <2>2 DEF Permit, PermitTimeout, At
    <3>4. PICK r : r = [login[l] EXCEPT !.at = where] OBVIOUS
    <3>5. r \in LoginRecord BY <3>2, <3>4 DEF LoginRecord
    <3>6. login' = [login EXCEPT ![l] = r] BY <3>3, <3>4
    <3> QED BY <3>1, <3>5, <3>6
  <2> QED BY <2>1, <2>2
<1>3. login' \in [Logins -> LoginRecord] BY <1>1, <1>2
<1>4. \A m \in Logins, k \in Keys : Tells(m, k) => Tells(m, k)' BY <1>1, <1>2 DEF Tells
<1> QED BY <1>3, <1>4, NothingCounted DEF Arrive, Permit, PermitTimeout

\* A success forgets the failures of its keys, so they are not blocked.
LEMMA SuccessKeeps == ASSUME LimInv, NEW l \in Logins, Succeeded(l) PROVE LimInv'
<1>1. login[l] \in LoginRecord /\ login \in [Logins -> LoginRecord] BY DEF LimInv
<1>2. login[l] \in [at : {"waiting", "checking", "in", "refused", "dropped"}, from : LimAddresses,
                    user : LimUsers]
    BY <1>1 DEF LoginRecord, Succeeded
<1>3. PICK r : r = [login[l] EXCEPT !.at = "in"] OBVIOUS
<1>4. r \in LoginRecord BY <1>2, <1>3 DEF LoginRecord
<1>5. login' = [login EXCEPT ![l] = r] BY <1>3 DEF Succeeded, At
<1>6. login' \in [Logins -> LoginRecord] BY <1>1, <1>4, <1>5
<1>7. \A m \in Logins, k \in Keys : Tells(m, k) => Tells(m, k)'
    BY <1>1, <1>5 DEF Tells, Succeeded
<1> DEFINE mine == {login[l].from, login[l].user}
<1>8. /\ failures' = [k \in Keys |-> IF k \in mine THEN None ELSE failures[k]]
      /\ told' = [k \in Keys |-> IF k \in mine THEN "no" ELSE told[k]]
    BY DEF Succeeded
<1>9. failures' \in [Keys -> Failure] BY <1>8 DEF LimInv, Failure, None
<1>10. told' \in [Keys -> Told] BY <1>8 DEF LimInv, Told
<1>11. ASSUME NEW k \in Keys, Blocked(k)'
       PROVE  told'[k] # "no" \/ \E m \in Logins : Tells(m, k)'
  <2>1. k \notin mine /\ failures'[k] = failures[k]
    <3>1. Limit(k) \in Nat \ {0} BY LimAssumption DEF LimAssumption, Limit
    <3>2. k \in mine => failures'[k].count = 0 BY <1>8 DEF None
    <3> QED BY <1>8, <1>11, <3>1, <3>2 DEF Blocked, Limit
  <2>2. Blocked(k) BY <1>11, <2>1 DEF Blocked, Limit
  <2>3. told[k] # "no" \/ \E m \in Logins : Tells(m, k) BY <2>2 DEF LimInv, BlockIsRecorded, Tells
  <2>4. told'[k] = told[k] BY <1>8, <2>1
  <2> QED BY <1>7, <2>3, <2>4
<1> QED BY <1>6, <1>9, <1>10, <1>11 DEF LimInv, BlockIsRecorded, Tells

\* A failure that brings a count to its limit is in starts; one that brings it beyond found a
\* block that somebody tells of or has told.
LEMMA CountKeeps ==
    ASSUME LimInv, NEW l \in Logins, NEW k \in Keys, NEW where \in {"wrong", "failing"},
           login[l].at \in {"checking", "wrong"}, Count(l, k, where)
    PROVE  LimInv'
<1>1. login[l] \in LoginRecord /\ login \in [Logins -> LoginRecord] BY DEF LimInv
<1> DEFINE f == Added(failures[k])
           mine == IF login[l].at = "wrong" THEN login[l].starts ELSE {}
           new == mine \cup (IF f.count = Limit(k) THEN {k} ELSE {})
<1>2. /\ failures' = [failures EXCEPT ![k] = f]
      /\ told' = [told EXCEPT ![k] = IF failures[k].old THEN "no" ELSE @]
      /\ login' = [login EXCEPT ![l] = [at |-> where, from |-> login[l].from,
                                        user |-> login[l].user, starts |-> new]]
    BY DEF Count
<1>3. failures[k] \in Failure /\ f \in Failure
      /\ f.count = (IF failures[k].old THEN 0 ELSE failures[k].count) + 1 /\ f.old = FALSE
    BY DEF LimInv, Added, Failure
<1>4. login[l].from \in LimAddresses /\ login[l].user \in LimUsers /\ mine \subseteq Keys
    BY <1>1 DEF LoginRecord
<1> HIDE DEF f, mine
<1>5. PICK r : r = [at |-> where, from |-> login[l].from, user |-> login[l].user, starts |-> new]
    OBVIOUS
<1>6. new \subseteq Keys BY <1>4
<1> HIDE DEF new
<1>7. r \in LoginRecord /\ r.at = where /\ r.starts = new BY <1>4, <1>5, <1>6 DEF LoginRecord
<1>8. login' \in [Logins -> LoginRecord] BY <1>1, <1>2, <1>5, <1>7
<1>9. \A m \in Logins : login'[m] = IF m = l THEN r ELSE login[m] BY <1>1, <1>2, <1>5
<1>10. \A m \in Logins, q \in Keys : Tells(m, q) => Tells(m, q)'
    BY <1>7, <1>9 DEF Tells, new, mine
<1>11. failures' \in [Keys -> Failure] BY <1>2, <1>3 DEF LimInv
<1>12. told' \in [Keys -> Told] /\ \A q \in Keys \ {k} : told'[q] = told[q]
    BY <1>2 DEF LimInv, Told
<1>13. ~failures[k].old => told'[k] = told[k] BY <1>2 DEF LimInv
<1>14. ASSUME NEW q \in Keys, Blocked(q)'
       PROVE  told'[q] # "no" \/ \E m \in Logins : Tells(m, q)'
  <2>1. CASE q # k
    <3>1. failures'[q] = failures[q] BY <1>2, <2>1 DEF LimInv
    <3>2. Blocked(q) BY <1>14, <3>1 DEF Blocked, Limit
    <3>3. told[q] # "no" \/ \E m \in Logins : Tells(m, q) BY <3>2 DEF LimInv, BlockIsRecorded, Tells
    <3> QED BY <1>10, <1>12, <2>1, <3>3
  <2>2. CASE q = k /\ f.count = Limit(k)
    <3>1. k \in new BY <2>2 DEF new
    <3> QED BY <1>7, <1>9, <2>2, <3>1 DEF Tells
  <2>3. CASE q = k /\ f.count # Limit(k)
    <3>1. failures'[k] = f BY <1>2 DEF LimInv
    <3>2. Limit(k) \in Nat \ {0} /\ Limit(k)' = Limit(k) BY LimAssumption DEF LimAssumption, Limit
    <3>3. f.count >= Limit(k) BY <1>14, <2>3, <3>1, <3>2 DEF Blocked
    <3>4. ~failures[k].old /\ failures[k].count >= Limit(k)
        BY <1>3, <2>3, <3>2, <3>3 DEF Failure
    <3>5. told[k] # "no" \/ \E m \in Logins : Tells(m, k)
        BY <3>4 DEF Blocked, LimInv, BlockIsRecorded, Tells
    <3> QED BY <1>10, <1>13, <2>3, <3>4, <3>5
  <2> QED BY <2>1, <2>2, <2>3
<1> QED BY <1>8, <1>11, <1>12, <1>14 DEF LimInv, BlockIsRecorded, Tells

\* The outcome of a record, for a login that has no other to ask for afterwards.
LEMMA OutcomeKeeps ==
    ASSUME LimInv, NEW l \in Logins, NEW how \in {"stored", "cut"}, NEW where \in {"failed", "dropped"},
           login[l].at \in {"failing", "blocking"},
           At(l, where), Outcome(l, how), UNCHANGED <<failures, expiries>>
    PROVE  LimInv'
<1>1. login[l] \in LoginRecord /\ login \in [Logins -> LoginRecord] BY DEF LimInv
<1>2. PICK r : r = [login[l] EXCEPT !.at = where] OBVIOUS
<1>3. r \in LoginRecord BY <1>1, <1>2 DEF LoginRecord
<1>4. login' = [login EXCEPT ![l] = r] BY <1>2 DEF At
<1>5. login' \in [Logins -> LoginRecord] BY <1>1, <1>3, <1>4
<1>6. told' = [k \in Keys |->
         IF k \in login[l].starts /\ failures[k].count >= Limit(k) /\ told[k] # "stored"
         THEN how ELSE told[k]]
    BY DEF Outcome
<1>7. told' \in [Keys -> Told] BY <1>6 DEF LimInv, Told
<1>8. ASSUME NEW k \in Keys, Blocked(k)' PROVE told'[k] # "no" \/ \E m \in Logins : Tells(m, k)'
  <2>1. Blocked(k) /\ failures[k].count >= Limit(k) BY <1>8 DEF Blocked, Limit
  <2>2. told[k] # "no" \/ \E m \in Logins : Tells(m, k)
      BY <2>1 DEF LimInv, BlockIsRecorded, Tells
  <2>3. told[k] # "no" \/ k \in login[l].starts => told'[k] # "no" BY <1>6, <2>1
  <2>4. \A m \in Logins \ {l} : Tells(m, k) => Tells(m, k)' BY <1>1, <1>4 DEF Tells
  <2> QED BY <2>2, <2>3, <2>4 DEF Tells
<1> QED BY <1>5, <1>7, <1>8 DEF LimInv, BlockIsRecorded, Tells

\* A login that records its failure, its block, or is dropped.
LEMMA RecordKeeps ==
    ASSUME LimInv, NEW l \in Logins, RecordFailure(l) \/ RecordBlock(l) \/ Abandon(l) PROVE LimInv'
<1>1. CASE RecordFailure(l)
  <2>1. login[l] \in LoginRecord /\ login \in [Logins -> LoginRecord] BY DEF LimInv
  <2>2. PICK where \in {"blocking", "failed"} :
          At(l, where) /\ (login[l].starts # {} => where = "blocking")
      BY <1>1 DEF RecordFailure
  <2>3. PICK r : r = [login[l] EXCEPT !.at = where] OBVIOUS
  <2>4. r \in LoginRecord BY <1>1, <2>1, <2>3 DEF LoginRecord, RecordFailure
  <2>5. login' = [login EXCEPT ![l] = r] BY <2>2, <2>3 DEF At
  <2>6. login' \in [Logins -> LoginRecord] BY <2>1, <2>4, <2>5
  <2>7. r.at = where /\ r.starts = login[l].starts BY <1>1, <2>1, <2>3 DEF LoginRecord, RecordFailure
  <2>8. \A m \in Logins, k \in Keys : Tells(m, k) => Tells(m, k)' BY <2>1, <2>2, <2>5, <2>7 DEF Tells
  <2> QED BY <1>1, <2>6, <2>8, NothingCounted DEF RecordFailure
<1>2. CASE RecordBlock(l) BY <1>2, OutcomeKeeps DEF RecordBlock
<1>3. CASE Abandon(l) /\ login[l].at \in {"failing", "blocking"} BY <1>3, OutcomeKeeps DEF Abandon
<1>4. CASE Abandon(l) /\ login[l].at \notin {"failing", "blocking"}
  <2>1. login[l] \in LoginRecord /\ login \in [Logins -> LoginRecord] BY DEF LimInv
  <2>2. PICK r : r = [login[l] EXCEPT !.at = "dropped"] OBVIOUS
  <2>3. r \in LoginRecord BY <1>4, <2>1, <2>2 DEF LoginRecord, Abandon
  <2>4. login' = [login EXCEPT ![l] = r] BY <1>4, <2>2 DEF Abandon, At
  <2>5. login' \in [Logins -> LoginRecord] BY <2>1, <2>3, <2>4
  <2>6. \A m \in Logins, k \in Keys : Tells(m, k) => Tells(m, k)' BY <1>4, <2>1, <2>4 DEF Tells, Abandon
  <2> QED BY <1>4, <2>5, <2>6, NothingCounted DEF Abandon
<1> QED BY <1>1, <1>2, <1>3, <1>4

LEMMA ExpireKeeps == ASSUME LimInv, NEW k \in Keys, Expire(k) PROVE LimInv'
<1>1. failures[k] \in Failure /\ failures \in [Keys -> Failure] BY DEF LimInv
<1>2. PICK f : f = [failures[k] EXCEPT !.old = TRUE] OBVIOUS
<1>3. f \in Failure /\ f.old BY <1>1, <1>2 DEF Failure
<1>4. failures' = [failures EXCEPT ![k] = f] /\ login' = login /\ told' = told
    BY <1>2 DEF Expire
<1>5. \A q \in Keys : failures'[q] = IF q = k THEN f ELSE failures[q] BY <1>1, <1>4
<1>6. failures' \in [Keys -> Failure] BY <1>1, <1>3, <1>4
<1>7. \A q \in Keys : Blocked(q)' => Blocked(q) BY <1>3, <1>5 DEF Blocked, Limit
<1> QED BY <1>4, <1>6, <1>7 DEF LimInv, BlockIsRecorded

\* Every step of the logins keeps the invariant.
LEMMA LimStep == LimInv /\ [LimNext]_limVars => LimInv'
<1> SUFFICES ASSUME LimInv, [LimNext]_limVars PROVE LimInv' OBVIOUS
<1>1. ASSUME NEW l \in Logins, FailAddress(l) PROVE LimInv'
  <2>1. login[l] \in LoginRecord BY DEF LimInv
  <2>2. login[l].from \in Keys BY <1>1, <2>1 DEF FailAddress, LoginRecord, Keys
  <2> QED BY <1>1, <2>2, CountKeeps DEF FailAddress
<1>2. ASSUME NEW l \in Logins, FailUser(l) PROVE LimInv'
  <2>1. login[l] \in LoginRecord BY DEF LimInv
  <2>2. login[l].user \in Keys BY <1>2, <2>1 DEF FailUser, LoginRecord, Keys
  <2> QED BY <1>2, <2>2, CountKeeps DEF FailUser
<1>3. CASE UNCHANGED limVars
    BY <1>3 DEF limVars, LimInv, BlockIsRecorded, Blocked, Limit
<1> QED BY <1>1, <1>2, <1>3, ArrivalsKeep, SuccessKeeps, RecordKeeps, ExpireKeeps DEF LimNext

\* The invariant holds in every reachable state.
LEMMA LimInvariance == LimSpec => []LimInv
<1>1. LimInit => LimInv
  <2> SUFFICES ASSUME LimInit PROVE LimInv OBVIOUS
  <2>1. \A k \in Keys : ~Blocked(k) BY LimAssumption DEF LimAssumption, LimInit, Blocked, Limit, None
  <2> QED BY <2>1 DEF LimInit, LimInv, BlockIsRecorded, LoginRecord, Failure, None, Told
<1> QED BY <1>1, LimStep, PTL DEF LimSpec

\* Whoever is blocked, the trail says so, a running login is about to, or the one attempt to
\* record it was refused or dropped, for any number of addresses, user names, logins and
\* limits: Failures::add and login of web/auth.rs.
THEOREM BlocksAreRecorded == LimSpec => []BlockIsRecorded
<1>1. LimInv => BlockIsRecorded BY DEF LimInv
<1> QED BY <1>1, LimInvariance, PTL

\* A login that does not take a permit leaves those that check as they are, or less one.
LEMMA PermitsHeld ==
    ASSUME LimInv, [LimNext]_limVars, NEW l \in Logins,
           login'[l].at \in {"checking", "wrong", "failing", "blocking"},
           login[l].at \notin {"checking", "wrong", "failing", "blocking"}
    PROVE  Permit(l) /\ \A m \in Logins \ {l} : login'[m] = login[m]
<1>1. login \in [Logins -> LoginRecord] BY DEF LimInv
<1>2. login' # login OBVIOUS
<1>3. PICK m \in Logins : \/ Arrive(m) \/ Permit(m) \/ PermitTimeout(m)
                         \/ Succeeded(m) \/ FailAddress(m) \/ FailUser(m)
                         \/ RecordFailure(m) \/ RecordBlock(m) \/ Abandon(m)
  <2>1. ~UNCHANGED limVars BY <1>2 DEF limVars
  <2>2. \A k \in Keys : ~Expire(k) BY <1>2 DEF Expire
  <2> QED BY <2>1, <2>2 DEF LimNext
<1>4. \A q \in Logins \ {m} : login'[q] = login[q]
    BY <1>1, <1>3 DEF Arrive, Permit, PermitTimeout, Succeeded, FailAddress, FailUser, Count,
       RecordFailure, RecordBlock, Abandon, At
<1>5. m = l BY <1>4
<1>6. ~Arrive(l)
  <2> SUFFICES ASSUME Arrive(l) PROVE FALSE OBVIOUS
  <2>1. login'[l].at \in {"refused", "waiting"} BY <1>1 DEF Arrive
  <2> QED BY <2>1
<1>7. ~PermitTimeout(l)
  <2> SUFFICES ASSUME PermitTimeout(l) PROVE FALSE OBVIOUS
  <2>1. login[l] \in [at : {"waiting", "checking", "in", "refused", "dropped"}, from : LimAddresses,
                      user : LimUsers]
      BY <1>1 DEF PermitTimeout, LoginRecord
  <2>2. login'[l].at = "refused" BY <1>1, <2>1 DEF PermitTimeout, At
  <2> QED BY <2>2
<1>8. ~RecordFailure(l) /\ ~RecordBlock(l) BY DEF RecordFailure, RecordBlock
<1>9. ~Abandon(l)
  <2> SUFFICES ASSUME Abandon(l) PROVE FALSE OBVIOUS
  <2>1. login'[l] = [login[l] EXCEPT !.at = "dropped"] BY <1>1 DEF Abandon, At
  <2>2. login'[l].at = "dropped" BY <1>1, <2>1 DEF LoginRecord, Abandon
  <2> QED BY <2>2
<1> QED BY <1>3, <1>4, <1>5, <1>6, <1>7, <1>8, <1>9 DEF Succeeded, FailAddress, FailUser

\* Type correctness of the login limits; and the logins that hold a permit, which check a
\* password or have yet to count or to record a wrong one, are never more than there are
\* permits: CONCURRENT_CHECKS of web/auth.rs.  A check whose login was dropped runs on in its
\* thread and holds none.
THEOREM ChecksAreLimited == LimSpec => []LimTypeOK
<1> DEFINE Permits == IsFiniteSet(Checking) /\ Cardinality(Checking) <= ConcurrentChecks
<1>1. LimInit => Permits
  <2> SUFFICES ASSUME LimInit PROVE Permits OBVIOUS
  <2>1. Checking = {} BY DEF LimInit, Checking
  <2> QED BY <2>1, FS_EmptySet, LimAssumption DEF LimAssumption
<1>2. LimInv /\ Permits /\ [LimNext]_limVars => Permits'
  <2> SUFFICES ASSUME LimInv, Permits, [LimNext]_limVars PROVE Permits' OBVIOUS
  <2>1. PICK S : S = Checking' OBVIOUS
  <2>2. CASE \E l \in Logins : l \in S /\ l \notin Checking
    <3>1. PICK l \in Logins : l \in S /\ l \notin Checking BY <2>2
    <3>2. Permit(l) /\ \A m \in Logins \ {l} : login'[m] = login[m]
        BY <2>1, <3>1, PermitsHeld DEF Checking
    <3>3. S = Checking \cup {l} BY <2>1, <3>1, <3>2 DEF Checking
    <3>4. Cardinality(Checking) < ConcurrentChecks BY <3>2 DEF Permit
    <3>5. IsFiniteSet(S) /\ Cardinality(S) = Cardinality(Checking) + 1
        BY <3>1, <3>3, FS_AddElement
    <3>6. Cardinality(Checking) \in Nat BY FS_CardinalityType
    <3>7. Cardinality(S) <= ConcurrentChecks BY <3>4, <3>5, <3>6, LimAssumption DEF LimAssumption
    <3> QED BY <2>1, <3>5, <3>7
  <2>3. CASE ~\E l \in Logins : l \in S /\ l \notin Checking
    <3>1. S \subseteq Checking BY <2>1, <2>3 DEF Checking
    <3>2. IsFiniteSet(S) /\ Cardinality(S) <= Cardinality(Checking) BY <3>1, FS_Subset
    <3>3. Cardinality(Checking) \in Nat /\ Cardinality(S) \in Nat BY <3>2, FS_CardinalityType
    <3>4. Cardinality(S) <= ConcurrentChecks BY <3>2, <3>3, LimAssumption DEF LimAssumption
    <3> QED BY <2>1, <3>2, <3>4
  <2> QED BY <2>2, <2>3
<1>3. LimInv /\ Permits => LimTypeOK
  <2> SUFFICES ASSUME LimInv, Permits PROVE LimTypeOK OBVIOUS
  <2>1. failures \in [Keys -> [count : Nat, old : BOOLEAN]] BY DEF LimInv, Failure
  <2>2. \A l \in Logins : login[l].at \in {"start", "waiting", "checking", "wrong", "failing",
                                           "blocking", "in", "failed", "refused", "dropped"}
      BY DEF LimInv, LoginRecord
  <2> QED BY <2>1, <2>2 DEF LimTypeOK, LimInv, Told
<1> QED BY <1>1, <1>2, <1>3, LimInvariance, PTL DEF LimSpec
===============================================================================
