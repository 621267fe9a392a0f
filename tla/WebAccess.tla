------------------------------ MODULE WebAccess -------------------------------
(***************************************************************************)
(* Who may do what through the web API: the user database (users.rs), the  *)
(* cookie sessions (web/auth.rs), the API tokens (web/mod.rs, web/mcp.rs)  *)
(* and the command line, which is another process on the same database     *)
(* (main.rs).                                                              *)
(*                                                                         *)
(* Requests run on several threads.  A request reads its session, then its *)
(* user's row, and acts later with the role it saw.  UserStore::conn is a  *)
(* lock within the gateway only: the two processes commit between each     *)
(* other's statements.  update is a transaction; delete is three           *)
(* statements, create_token and change_own_password are two.               *)
(***************************************************************************)
EXTENDS Integers, FiniteSets

CONSTANTS
    Names,       \* user names
    Passwords,
    NewRoles,    \* the roles that are given
    Cookies,     \* session tokens, numbered as they are handed out (bound of the model)
    Tokens,      \* API tokens; each is handed out once (bound of the model)
    Requests,    \* HTTP requests, numbered as they begin (bound of the model)
    Commands,    \* commands of the command line, numbered as they begin (bound of the model)
    MaxChanges   \* bound of the model: changes of users

Auditor == 1
Operator == 2
Admin == 3

ASSUME WebAssumption ==
    /\ "admin" \in Names /\ Passwords # {}
    /\ NewRoles \subseteq Auditor..Admin
    /\ Requests \subseteq Nat /\ Cookies \subseteq Nat
    /\ Commands \subseteq Nat /\ MaxChanges \in Nat

VARIABLES
    users,     \* the table users: a row, or Gone
    tokens,    \* the table api_tokens: a row, or Gone
    cookies,   \* Sessions.map: a session, or Gone, or Fresh while not handed out
    req,       \* where each request is
    cli,       \* where each command of the command line is
    conn,      \* the request that holds UserStore::conn over several statements, or Gone
    changes,   \* history: changes of each name's password or role
    lives,     \* history: how often each name was deleted
    overtaken  \* history: an admin went while a delete was between its check and its DELETE

webVars == <<users, tokens, cookies, req, cli, conn, changes, lives, overtaken>>

Begins(w) == req[w].at = "start" /\ \A v \in Requests : req[v].at = "start" => w <= v

Gone == [gone |-> TRUE]
Fresh == [fresh |-> TRUE]
Exists(n) == users[n] # Gone
IsAdmin(n) == Exists(n) /\ users[n].role = Admin
Total == LET Sum[S \in SUBSET Names] ==
               IF S = {} THEN 0
               ELSE LET n == CHOOSE x \in S : TRUE
                    IN changes[n] + lives[n] + Sum[S \ {n}]
         IN Sum[Names]
CanChange == Total < MaxChanges

\* create_initial_admin at the first start, and its password changed since
WebInit ==
    /\ users = [n \in Names |-> IF n = "admin"
                  THEN [pw |-> CHOOSE p \in Passwords : TRUE, role |-> Admin,
                        epoch |-> 0, must |-> FALSE]
                  ELSE Gone]
    /\ tokens = [t \in Tokens |-> Fresh]
    /\ cookies = [c \in Cookies |-> Fresh]
    /\ req = [w \in Requests |-> [at |-> "start"]]
    /\ conn = Gone
    /\ changes = [n \in Names |-> 0]
    /\ lives = [n \in Names |-> 0]
    /\ cli = [k \in Commands |-> [at |-> "start"]]
    /\ overtaken = FALSE
-------------------------------------------------------------------------------
\* The calls of UserStore, as changes of the tables.

\* Mutant: nobody asks whether an admin remains.
AnyChange(n, role) == TRUE

\* ensure_admin_remains: refuses to take the last admin away
EnsureAdminRemains(n, role) ==
    role = Admin \/ ~IsAdmin(n) \/ \E other \in Names \ {n} : IsAdmin(other)

\* create, create_with: INSERT OR IGNORE, refused when the name exists
CreateWith(n, p, role, must) ==
    /\ ~Exists(n)
    /\ users' = [users EXCEPT ![n] = [pw |-> p, role |-> role, epoch |-> 0, must |-> must]]

\* Mutant: a demotion keeps the scopes of the tokens.
KeepsScopes(n, role, pws, must) ==
    /\ tokens' = [t \in Tokens |->
         IF tokens[t] \in {Gone, Fresh} \/ tokens[t].owner # n THEN tokens[t]
         ELSE IF pws # {} /\ must THEN Gone ELSE tokens[t]]

\* update, with the parts that are given: role 0 or password {} stand for None
TokensAfterUpdate(n, role, pws, must) ==
    /\ tokens' = [t \in Tokens |->
         IF tokens[t] \in {Gone, Fresh} \/ tokens[t].owner # n THEN tokens[t]
         ELSE IF pws # {} /\ must THEN Gone
         ELSE IF role \in {Auditor, Operator} THEN [tokens[t] EXCEPT !.scoped = FALSE]
         ELSE tokens[t]]

\* Mutant: a change of role alone keeps the epoch.
RoleKeepsEpoch(row, role, pws, must) ==
    [row EXCEPT !.role = IF role = 0 THEN @ ELSE role,
                !.pw = IF pws = {} THEN @ ELSE CHOOSE p \in pws : TRUE,
                !.must = IF pws = {} THEN @ ELSE must,
                !.epoch = IF pws = {} THEN @ ELSE @ + 1]

UpdatedRow(row, role, pws, must) ==
    [row EXCEPT !.role = IF role = 0 THEN @ ELSE role,
                !.pw = IF pws = {} THEN @ ELSE CHOOSE p \in pws : TRUE,
                !.must = IF pws = {} THEN @ ELSE must,
                !.epoch = @ + 1]

Update(n, role, pws, must) ==
    /\ role # 0 \/ pws # {}
    /\ CanChange
    /\ Exists(n)
    /\ role # 0 => EnsureAdminRemains(n, role)
    /\ users' = [users EXCEPT ![n] = UpdatedRow(@, role, pws, must)]
    /\ TokensAfterUpdate(n, role, pws, must)
    /\ changes' = [changes EXCEPT ![n] = @ + 1]
    /\ UNCHANGED lives

\* delete, behind its check: the row
DeleteRow(n) ==
    /\ users' = [users EXCEPT ![n] = Gone]
    /\ lives' = [lives EXCEPT ![n] = @ + 1]
    /\ UNCHANGED <<tokens, changes>>

OwnedBy(n) == {t \in Tokens : tokens[t] \notin {Gone, Fresh} /\ tokens[t].owner = n}

\* and then the user's tokens, unless that statement fails or the process ends before it
DeleteTokens(n) ==
    /\ tokens' = [t \in Tokens |-> IF t \in OwnedBy(n) THEN Gone ELSE tokens[t]]
    /\ UNCHANGED <<users, changes, lives>>

LeaveTokens(n) ==
    /\ tokens' = [t \in Tokens |->
         IF t \in OwnedBy(n) THEN [tokens[t] EXCEPT !.orphan = TRUE] ELSE tokens[t]]
    /\ UNCHANGED <<users, changes, lives>>

\* what a request is given: a role to set and a password to set, either may be absent
Given == {given \in (NewRoles \cup {0}) \X ({{}} \cup {{p} : p \in Passwords}) :
            given[1] # 0 \/ given[2] # {}}
-------------------------------------------------------------------------------
\* Sessions

To(w, r) == req' = [req EXCEPT ![w] = r]
Done == [at |-> "done"]
Free == conn = Gone

\* Sessions::create: the session carries the epoch that was read before
SessionCreate(w, then) ==
    /\ req[w].at = "create"
    /\ \E c \in Cookies :
         /\ cookies[c] = Fresh /\ \A d \in Cookies : cookies[d] = Fresh => c <= d
         /\ cookies' = [cookies EXCEPT ![c] = [user |-> req[w].user, epoch |-> req[w].epoch,
                                               seen |-> req[w].seen, life |-> req[w].life]]
    /\ To(w, then)
    /\ UNCHANGED <<users, tokens, conn, changes, lives, cli>>

\* Sessions::remove_user
RemoveUser(n) ==
    cookies' = [c \in Cookies |->
        IF cookies[c] \notin {Gone, Fresh} /\ cookies[c].user = n THEN Gone ELSE cookies[c]]

\* login: the password is verified, then the row is read again for its epoch
LoginVerify(w) ==
    /\ Begins(w) /\ Free
    /\ \E n \in Names, p \in Passwords :
         /\ Exists(n) /\ users[n].pw = p
         /\ To(w, [at |-> "verified", user |-> n])
    /\ UNCHANGED <<users, tokens, cookies, conn, changes, lives, cli>>

\* session_state, for the new session of a login or of an own password change
SessionState(w) ==
    /\ req[w].at = "verified" /\ Free
    /\ LET n == req[w].user
       IN To(w, IF Exists(n)
                THEN [at |-> "create", user |-> n, epoch |-> users[n].epoch,
                      seen |-> changes[n], life |-> lives[n]]
                ELSE Done)
    /\ UNCHANGED <<users, tokens, cookies, conn, changes, lives, cli>>

Login(w) == LoginVerify(w) \/ SessionState(w) \/ SessionCreate(w, Done)

\* logout needs no valid session: it removes what the cookie names; a session that is
\* idle or old ends the same way, on its next use or at the next login
Logout ==
    /\ \E c \in Cookies :
         /\ cookies[c] \notin {Gone, Fresh}
         /\ cookies' = [cookies EXCEPT ![c] = Gone]
    /\ UNCHANGED <<users, tokens, req, conn, changes, lives, cli>>

\* AuthUser: the session of the cookie, then the row of its user
AuthSession(w) ==
    /\ Begins(w)
    /\ \E c \in Cookies :
         /\ cookies[c] \notin {Gone, Fresh}
         /\ To(w, [at |-> "session", cookie |-> c, user |-> cookies[c].user,
                   epoch |-> cookies[c].epoch])
    /\ UNCHANGED <<users, tokens, cookies, conn, changes, lives, cli>>

Accepted(n, epoch) == Exists(n) /\ users[n].epoch = epoch

AuthState(w) ==
    /\ req[w].at = "session" /\ Free
    /\ LET n == req[w].user
           ok == Accepted(n, req[w].epoch)
       IN /\ cookies' = IF ok \/ cookies[req[w].cookie] \in {Gone, Fresh} THEN cookies
                        ELSE [cookies EXCEPT ![req[w].cookie] = Gone]
          /\ To(w, IF ok THEN [at |-> "handler", user |-> n, role |-> users[n].role,
                               must |-> users[n].must]
                   ELSE Done)
    /\ UNCHANGED <<users, tokens, conn, changes, lives, cli>>
-------------------------------------------------------------------------------
\* The handlers: each is behind AuthUser, which lets only an own password change
\* through while one is forced.

Handler(w) == req[w].at = "handler" /\ ~req[w].must /\ Free
AdminHandler(w) == Handler(w) /\ req[w].role = Admin

CreateUser(w) ==
    /\ AdminHandler(w) /\ CanChange
    /\ \E n \in Names, p \in Passwords, r \in NewRoles : CreateWith(n, p, r, TRUE)
    /\ To(w, Done)
    /\ UNCHANGED <<tokens, cookies, conn, changes, lives, cli>>

\* update_user; the sessions of the user are removed afterwards
UpdateUser(w) ==
    /\ AdminHandler(w)
    /\ \E n \in Names, given \in Given :
         /\ Update(n, given[1], given[2], TRUE)
         /\ To(w, [at |-> "cleanup", user |-> n])
    /\ UNCHANGED <<cookies, conn, cli>>

\* delete_user: UserStore::delete checks, then deletes, holding conn and no transaction
DeleteCheck(w) ==
    /\ AdminHandler(w) /\ CanChange
    /\ \E n \in Names :
         /\ Exists(n) /\ EnsureAdminRemains(n, 0)
         /\ To(w, [at |-> "delete", user |-> n])
    /\ conn' = [by |-> w]
    /\ UNCHANGED <<users, tokens, cookies, changes, lives, cli>>

DeleteUser(w) ==
    /\ req[w].at = "delete"
    /\ IF Exists(req[w].user)
       THEN /\ DeleteRow(req[w].user) /\ To(w, [at |-> "tokens", user |-> req[w].user])
            /\ UNCHANGED conn
       ELSE To(w, Done) /\ conn' = Gone /\ UNCHANGED <<users, tokens, changes, lives>>
    /\ UNCHANGED <<cookies, cli>>

DeleteUserTokens(w) ==
    /\ req[w].at = "tokens"
    /\ \/ DeleteTokens(req[w].user) /\ To(w, [at |-> "cleanup", user |-> req[w].user])
       \/ LeaveTokens(req[w].user) /\ To(w, Done)
    /\ conn' = Gone
    /\ UNCHANGED <<cookies, cli>>

RemoveSessions(w) ==
    /\ req[w].at = "cleanup"
    /\ RemoveUser(req[w].user)
    /\ To(w, Done)
    /\ UNCHANGED <<users, tokens, conn, changes, lives, cli>>

\* change_password: change_own_password reads the row, hashes, and writes only if the
\* epoch is still the one it read
OwnRead(w) ==
    /\ req[w].at = "handler" /\ Free
    /\ LET n == req[w].user
       IN /\ Exists(n)
          /\ req[w].must => users[n].must
          /\ \E p \in Passwords \ {users[n].pw} :
               To(w, [at |-> "own_write", user |-> n, pw |-> p, epoch |-> users[n].epoch,
                      seen |-> changes[n], life |-> lives[n]])
    /\ conn' = [by |-> w]
    /\ UNCHANGED <<users, tokens, cookies, changes, lives, cli>>

\* Mutant: the epoch is not compared.
OwnUnconditional(n, epoch) == Exists(n)

OwnUnchanged(n, epoch) == Exists(n) /\ users[n].epoch = epoch

OwnWrite(w) ==
    /\ req[w].at = "own_write" /\ CanChange
    /\ LET n == req[w].user
       IN IF OwnUnchanged(n, req[w].epoch)
          THEN /\ users' = [users EXCEPT ![n].pw = req[w].pw, ![n].must = FALSE,
                                         ![n].epoch = @ + 1]
               /\ changes' = [changes EXCEPT ![n] = @ + 1]
               /\ To(w, [at |-> "own_cleanup", user |-> n])
          ELSE To(w, Done) /\ UNCHANGED <<users, changes>>
    /\ conn' = Gone
    /\ UNCHANGED <<tokens, cookies, lives, cli>>

\* the other sessions end, then this one continues with a new cookie
OwnCleanup(w) ==
    /\ req[w].at = "own_cleanup"
    /\ RemoveUser(req[w].user)
    /\ To(w, [at |-> "verified", user |-> req[w].user])
    /\ UNCHANGED <<users, tokens, conn, changes, lives, cli>>

\* UserStore::delete_token, of the user it is said to be of
RemoveToken(t, n) ==
    /\ tokens[t] \notin {Gone, Fresh} /\ tokens[t].owner = n
    /\ tokens' = [tokens EXCEPT ![t] = Gone]

\* create_token: scopes need the role that AuthUser saw; the user must exist, and the token
\* is inserted in a second statement
SelectUser(w) ==
    /\ Handler(w) /\ \E t \in Tokens : tokens[t] = Fresh
    /\ LET n == req[w].user
       IN IF Exists(n)
          THEN /\ \E scoped \in BOOLEAN :
                    /\ scoped => req[w].role = Admin
                    /\ To(w, [at |-> "insert", user |-> n, scoped |-> scoped, life |-> lives[n]])
               /\ conn' = [by |-> w]
          ELSE To(w, Done) /\ UNCHANGED conn
    /\ UNCHANGED <<users, tokens, cookies, changes, lives, cli>>

\* late: the user is no admin any more; orphan: not even the user of then
InsertToken(w) ==
    /\ req[w].at = "insert"
    /\ \E t \in Tokens :
         LET n == req[w].user
         IN /\ tokens[t] = Fresh
            /\ tokens' = [tokens EXCEPT ![t] =
                 [owner |-> n, scoped |-> req[w].scoped, life |-> req[w].life,
                  late |-> req[w].scoped /\ ~IsAdmin(n), orphan |-> lives[n] # req[w].life]]
    /\ conn' = Gone
    /\ To(w, Done)
    /\ UNCHANGED <<users, cookies, changes, lives, cli>>

\* delete_token, of one's own
DeleteToken(w) ==
    /\ Handler(w)
    /\ \E t \in Tokens : RemoveToken(t, req[w].user)
    /\ To(w, Done)
    /\ UNCHANGED <<users, cookies, conn, changes, lives, cli>>

\* revoke_token, of anybody's, by an admin
RevokeToken(w) ==
    /\ AdminHandler(w)
    /\ \E t \in Tokens, n \in Names : RemoveToken(t, n)
    /\ To(w, Done)
    /\ UNCHANGED <<users, cookies, conn, changes, lives, cli>>
-------------------------------------------------------------------------------
\* A call of an assistant: authenticate verifies the token, which gives its user and its
\* scopes, and then reads the user's row.

VerifyToken(w) ==
    /\ Begins(w) /\ Free
    /\ \E t \in Tokens :
         /\ tokens[t] \notin {Gone, Fresh}
         /\ To(w, [at |-> "token", user |-> tokens[t].owner, scoped |-> tokens[t].scoped])
    /\ UNCHANGED <<users, tokens, cookies, conn, changes, lives, cli>>

\* post: the scopes of the token that the role of its user allows
MayChangeConfig(scoped, role) == scoped /\ role = Admin

Authenticate(w) ==
    /\ req[w].at = "token" /\ Free
    /\ LET n == req[w].user
       IN To(w, IF Exists(n) /\ ~users[n].must
                THEN [at |-> "tool", user |-> n, changing |-> MayChangeConfig(req[w].scoped, users[n].role),
                      seen |-> changes[n], life |-> lives[n]]
                ELSE Done)
    /\ UNCHANGED <<users, tokens, cookies, conn, changes, lives, cli>>

\* the tool runs: none changes users or tokens
ToolRuns(w) ==
    /\ req[w].at = "tool"
    /\ To(w, Done)
    /\ UNCHANGED <<users, tokens, cookies, conn, changes, lives, cli>>
-------------------------------------------------------------------------------
\* The command line: each command is a process of its own, which takes no lock of the
\* gateway and may end between two statements.

CliTo(k, r) == cli' = [cli EXCEPT ![k] = r]
CliBegins(k) == cli[k].at = "start" /\ \A j \in Commands : cli[j].at = "start" => k <= j

CliAdd(k) ==
    /\ CliBegins(k) /\ CanChange
    /\ \E n \in Names, p \in Passwords, r \in NewRoles : CreateWith(n, p, r, FALSE)
    /\ CliTo(k, Done)
    /\ UNCHANGED <<tokens, changes, lives>>

CliPasswd(k) ==
    /\ CliBegins(k) /\ CliTo(k, Done)
    /\ \E n \in Names, p \in Passwords : Update(n, 0, {p}, FALSE)

CliRole(k) ==
    /\ CliBegins(k) /\ CliTo(k, Done)
    /\ \E n \in Names, r \in NewRoles : Update(n, r, {}, FALSE)

\* delete: the check, the row and the tokens
CliDeleteCheck(k) ==
    /\ CliBegins(k) /\ CanChange
    /\ \E n \in Names :
         /\ Exists(n) /\ EnsureAdminRemains(n, 0)
         /\ CliTo(k, [at |-> "delete", user |-> n])
    /\ UNCHANGED <<users, tokens, changes, lives>>

CliDeleteUser(k) ==
    /\ cli[k].at = "delete"
    /\ \/ /\ Exists(cli[k].user) /\ DeleteRow(cli[k].user)
          /\ CliTo(k, [at |-> "tokens", user |-> cli[k].user])
       \/ CliTo(k, Done) /\ UNCHANGED <<users, tokens, changes, lives>>

CliDeleteTokens(k) ==
    /\ cli[k].at = "tokens"
    /\ DeleteTokens(cli[k].user) \/ LeaveTokens(cli[k].user)
    /\ CliTo(k, Done)

Command(k) ==
    /\ \/ CliAdd(k) \/ CliPasswd(k) \/ CliRole(k)
       \/ CliDeleteCheck(k) \/ CliDeleteUser(k) \/ CliDeleteTokens(k)
    /\ UNCHANGED <<cookies, req, conn>>

WebRequest(w) ==
    \/ Login(w)
    \/ AuthSession(w) \/ AuthState(w)
    \/ CreateUser(w) \/ UpdateUser(w)
    \/ DeleteCheck(w) \/ DeleteUser(w) \/ DeleteUserTokens(w) \/ RemoveSessions(w)
    \/ OwnRead(w) \/ OwnWrite(w) \/ OwnCleanup(w)
    \/ SelectUser(w) \/ InsertToken(w) \/ DeleteToken(w) \/ RevokeToken(w)
    \/ VerifyToken(w) \/ Authenticate(w) \/ ToolRuns(w)

\* An admin goes while another delete is between its check and its DELETE.
Overtakes ==
    /\ \E n \in Names : IsAdmin(n) /\ ~IsAdmin(n)'
    /\ \/ \E w \in Requests : req[w].at = "delete" /\ req'[w].at = "delete"
       \/ \E k \in Commands : cli[k].at = "delete" /\ cli'[k].at = "delete"

WebNext ==
    /\ \/ \E w \in Requests : WebRequest(w)
       \/ \E k \in Commands : Command(k)
       \/ Logout
    /\ overtaken' = (overtaken \/ Overtakes)
-------------------------------------------------------------------------------
\* The tables, the sessions, the requests and the commands hold what the code puts there.
WebTypeOK ==
    /\ \A n \in Names : Exists(n) =>
         /\ users[n].role \in Auditor..Admin /\ users[n].pw \in Passwords
         /\ users[n].epoch \in Nat /\ users[n].must \in BOOLEAN
    /\ \A c \in Cookies : cookies[c] \in {Gone, Fresh} \/ cookies[c].user \in Names
    /\ \A t \in Tokens : tokens[t] \in {Gone, Fresh} \/ tokens[t].owner \in Names
    /\ \A w \in Requests : req[w].at \in
         {"start", "verified", "create", "session", "handler", "delete", "tokens", "cleanup",
          "own_write", "own_cleanup", "insert", "token", "tool", "done"}
    /\ \A k \in Commands : cli[k].at \in {"start", "delete", "tokens", "done"}
    /\ conn \in {Gone} \cup [by : Requests]
    /\ overtaken \in BOOLEAN

\* Somebody can always administer the gateway, whatever admins do to each other at once
\* in the web UI and on the command line: ensure_admin_remains of users.rs.  The check and
\* the DELETE of delete are two statements without a transaction, in both processes: when
\* another change takes an admin away in between (overtaken), the code can lose the last
\* one, and nothing is said here.
AdminRemains == overtaken \/ \E n \in Names : IsAdmin(n)

\* A cookie stops working with the first change of its user's password or role behind the
\* one that its epoch was read with, in the web UI or on the command line, even when the
\* session was added to the map behind the remove_user of that change.  (A change between
\* the check of the password and the reading of the epoch is not noticed by the code: the
\* session of an old password then goes on.  And a name that is deleted and created again
\* starts at epoch 0 again: lives.)
SessionsEnd ==
    \A c \in Cookies :
        (/\ cookies[c] \notin {Gone, Fresh}
         /\ Accepted(cookies[c].user, cookies[c].epoch)
         /\ lives[cookies[c].user] = cookies[c].life)
        => changes[cookies[c].user] = cookies[c].seen

\* Somebody's own password change does not replace a password that was set after the row
\* was read, though the command line does not take the lock of the gateway.  Left out is a
\* name that the command line deleted and created again in between (lives): its epoch is 0
\* again, and when it was 0 before, the code replaces the password of the new user.
OwnChangeSeesItsRow ==
    [][\A w \in Requests :
         LET n == req[w].user
         IN (/\ req[w].at = "own_write" /\ req'[w].at = "own_cleanup"
             /\ lives[n] = req[w].life)
            => changes[n] = req[w].seen]_webVars

\* a delete of the name has its DELETE of the tokens ahead
Deleting(n) ==
    \/ \E w \in Requests : req[w].at = "tokens" /\ req[w].user = n
    \/ \E k \in Commands : cli[k].at = "tokens" /\ cli[k].user = n

\* A token outlives neither its user nor, with scopes, its user's Admin role.  The code has
\* three gaps, each marked where it is made.  A delete that fails or ends between its two
\* DELETEs, or that commits between the two statements of create_token, leaves a token for
\* the next user of the name (orphan).  A request that saw the role before it was taken away
\* stores scopes for a user who is no admin (late): they come back with a later promotion,
\* which the comment in update means to prevent.
TokensOfUsers ==
    \A t \in Tokens :
        (tokens[t] \notin {Gone, Fresh} /\ ~tokens[t].orphan /\ ~Deleting(tokens[t].owner)) =>
            /\ lives[tokens[t].owner] = tokens[t].life
            /\ tokens[t].scoped => IsAdmin(tokens[t].owner) \/ tokens[t].late

\* An assistant changes something only for a user who is an admin, or was one when the
\* call was authenticated: also with a token whose scopes were stored behind the demotion of
\* its user.
ChangesForAdmins ==
    \A w \in Requests :
        (req[w].at = "tool" /\ req[w].changing) =>
            LET n == req[w].user
            IN IsAdmin(n) \/ changes[n] > req[w].seen \/ lives[n] > req[w].life

\* Tokens end with what they rest on, stored, but for those gaps, and in use.
TokensEnd == TokensOfUsers /\ ChangesForAdmins

WebSpec == WebInit /\ [][WebNext]_webVars
===============================================================================
