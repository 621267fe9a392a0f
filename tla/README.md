# TLA+ development of the OPC UA audit gateway

The gateway sits between OPC UA clients and servers (PLCs). It relays their
requests, writes every change to a tamper-evident audit trail, and in
fail-closed mode forwards a change only after its record is committed. This
directory holds TLA+ modules of its parts, TLC configurations for small
instances, and TLAPS proofs of the properties that matter most.

Paths below are relative to the repository (`src/audit/store.rs` is the Rust
file of that name). `PROJECT.json` lists runs, mutants, the definition-to-line
map, findings, hazards and theorems.

## 1. Inventory

| Part | State it keeps | Operations | Talks to |
|---|---|---|---|
| Audit store, `src/audit/store.rs` | table `audit` (hash chain), row `chain_head`, in memory `last_seq`, `last_hash` | `open`, `append`, `prune_before`; `verify_chain`, `verify_against` and queries read | the writer thread owns it; readers use their own connection (WAL) |
| Audit pipeline, `src/audit/mod.rs` | bounded queue, batch under way, lost-event counter and `<database>.lost`, live settings | `record`, `record_committed`, `flush`, `prune_before`; writer loop, restart after a panic; counter thread; retention task | everybody records through `AuditHandle` |
| Forwarding, `src/relay/connection.rs`, `audit_map.rs`, `upstream.rs` | requests under way per connection | plan, intent, pre-read, send, outcome records | sessions, pipeline, upstream connection |
| Sessions, `src/relay/connection.rs`, `src/relay/mod.rs` | registry token -> owner connection, user, nonces | create, activate (also from another connection), close | upstream server, pipeline |
| Transport and channels, `src/relay/transport.rs` | sequence numbers, security tokens and their lifetimes | accept, open/renew channel, read chunks | connection task |
| Listener, `src/relay/mod.rs` | connection counts, trust state | accept, admit or refuse, stop | connection tasks, pipeline |
| Summarised writes, `src/relay/ignore.rs` | per-node counters | add, take | forwarding, timer |
| Target manager, `src/targets.rs`, `config.rs` | configuration in memory and on disk, running targets | start_all, upsert, remove, update_summarise, update_settings, stop_all | web handlers, relay, discovery |
| Discovery, `src/discovery.rs` | status per target | monitor, apply | target manager, pipeline |
| Export, `src/export/` | position per destination, on disk | read, send, save position, detect gaps, apply settings | reader, pipeline, QuestDB |
| Users and web sessions, `src/users.rs`, `src/web/auth.rs` | user rows with epochs, API tokens, session map, failure counters | login, logout, change password or role, delete | web handlers |
| Web handlers, `src/web/` | alarm mark | change targets, settings, certificates; acknowledge alarms | all of the above |
| OPC UA browser, `src/web/browser.rs` | map (user, target) -> session | connect, disconnect, reap | target manager, pipeline |
| PKI, `src/pki.rs` | own key and certificate files, backups, trust lists | import, regenerate, restore, trust, untrust | relay, web handlers |

Hard behaviours: the writer thread, tokio tasks and blocking threads run
concurrently; tasks are aborted and futures dropped at await points; the
process may end between any two disk writes; acks, timeouts and upstream
answers race; clocks jump. What makes each part correct:

- store: an honest trail always verifies; what verifies is what was written;
  numbers are never reused; retention removes only expired records, oldest
  first, never the newest;
- pipeline: an acknowledged entry is stored; every loss is counted once and
  survives a restart; nobody waits forever;
- forwarding: in fail-closed mode no unrecorded change reaches the server;
  every change sent has a truthful outcome; requests keep their order;
- sessions: a request is attributed to the user who activated the session; a
  closed or handed-over session is not used any more;
- target manager and settings: file, memory and running targets agree;
- export: every record is delivered at least once, a gap is reported;
- users: a password or role change ends the older sessions; an admin remains;
- PKI: after any interruption the gateway starts with a matching pair.

## 2. Modules

### AuditStore (and the abstract AuditLog)

`AuditStore` is `src/audit/store.rs`. `audit` is the committed table (number ->
row of columns, body, prev_hash, hash), `chain_head` the row that outlives the
records, `open`, `last_seq`, `last_hash` the writer's memory, `tx` an append
under way. SHA-256 is taken to be collision free: `record_hash` returns the
triple it is computed from. Bodies keep what verification and retention look
at: the kind, the timestamp, and the fields of `RetentionPruned` and
`TrailTruncated`; the seven columns are the two that stand for the others.

| Action | Code |
|---|---|
| `Open` | `AuditStore::open`, with the `TrailTruncated` record it appends |
| `Begin`, `Insert`, `Commit`, `Rollback` | `append` and `insert`, statement by statement; an error rolls back |
| `prune_before` | the whole of `prune_before`: its early returns are its guards; a lookup that finds no row is an SQL error, so the action is not enabled |
| `Close` | process end, or the writer's panic (the store is dropped and opened again) |
| `Note` | a record noted outside the database (an exporter's delivery, `verify --expect`) |
| `Cut`, `Remove`, `Edit`, `Restore` | somebody changes the file without recomputing hashes; `Restore` puts an older copy of the whole stopped database back |

`verify_chain` and `verify_against` are operators on a table. The code scans
row by row and stops at the first error; the operators state what the scan
accepts. `written`, `tampered` and `anchor` are history variables.

`AuditLog` is what the store promises: numbered entries that only grow at the
end (`Extend`) and lose only a prefix (`Prune`, together with one new entry),
never the newest. `ImplementsLog` instantiates it with the refinement mapping.

### AuditWriter and AuditService

`AuditWriter` is `src/audit/mod.rs`. The store is reduced to what `AuditLog`
promises: `append` adds all entries of a batch or none.

| Actions | Code |
|---|---|
| `record`, `Offered`, `QueueWaitOver` | `AuditHandle::record` in fail-open mode: `try_send`, room within `QUEUE_WAIT`, timeout |
| `record_committed`, `Sent`, `Committed`, `NotCommitted`, `Cancel` | `record_committed` (and `record` in fail-closed mode) around its two awaits; a dropped future |
| `FlushSent`, `run_retention`, `apply` | `flush`, one round of the retention task, a change of the fail mode |
| `Receive`, `Collected`, `After` | `writer_loop` |
| `Begin`, `AppendOk`, `AppendFailed`, `FinishOk`, `FinishFailed` | `write_batch`, split where another thread or a crash can come in between: after the count was taken (the lock of `saved` is held from here), after the commit, after the file was written |
| `Panic`, `Reopen`, `GiveUp` | `catch_unwind` and the restart loop of `start`; a panic drops the batch's acks and the lock |
| `save` | the thread `audit-lost` |
| `Crash`, `start` | end of the process at any point; `LostEvents::open` |

Abstracted: the sum of the stored `EventsLost` counts is the history variable
`reported`; `restarts` forgets any number of earlier restarts when the next
one happens (the minute of `restarts.retain`); the retention task's clock
arithmetic is "a round happens or not". A panic is possible where the store
is called (`append`, `prune_before`) and before the commit: nothing behind
`tx.commit()` can panic. A caller dropped before its entry was queued has not
recorded anything and is left out.

`AuditService` is what the callers of `AuditHandle` may rely on, without a queue, a writer
thread or a counter file: one `line` of requests in the order they came (`Enter`,
`Request`). Entries get from the front of the line into the log, several at a time and
with the report of the losses behind them (`Store`), or are given up from there
(`GiveUp`); flush and retention wait their turn (`Serve`). A number is confirmed only for
the caller's own record (`Confirm`); an entry is denied only when it is in no record and
will be in none, and then its caller is told or the loss is owed to the log (`Deny`). When
the process ends (`Stop`), losses may be forgotten or told twice, but never more of
them than there were. `ImplementsService` is the refinement: `Line` is the batch, the
command that ended it and the queue, in that order; `Debt` is every loss that no record tells of,
wherever the writer holds it; `Fate` and `Number` show a call as its caller sees it.

### Forward

`Forward` is one client connection: `src/relay/connection.rs` (`run`,
`finish_audited`, the loop, `handle`, `forward`) with `audit_map.rs`,
`ignore.rs`, `upstream.rs` and the accept loop of `src/relay/mod.rs`. A request
is the set of items it changes (a written attribute, a method, a node); one
without items is not audited. `st` says where each request's future is:
`new`, `pushed`, `intent`, `sent`, `recording`, then `done` or `dropped`.

| Actions | Code |
|---|---|
| `Handle`, `Poll` | a future is pushed, and polled for the first time in push order (in the drain the newest first: `finish_audited` moves the futures it keeps to a new set, walking the old one from its newest): plan, `take_ignored`, `pre_read`, copy of the fail mode, then the intent or `send` |
| `Forwarded`, `Rejected` | `record_committed` of the intent returned; acks come in the order of the audit queue, and in the drain the new set may poll any request whose ack is there first |
| `Send` (part of both) | `Upstream::send` of the old-value read and of the request in one poll; on a lost channel `maybe_sent` decides between "Bad" and "Uncertain" |
| `Answered`, `NoResponse`, `ReadAnswered`, `ReadFailed` | the two halves of `join!` |
| `Count`, `RecordOutcome`, `Respond` | summarised items are counted first (or recorded, when `MAX_NODES` are pending), then the outcome events, then the response |
| `Close`, `Leave`, `DrainTimeout`, `CloseTimeout`, `Drained`, `Gone` | the end of `run`: drain for 30 s, close the channel, 5 s more, summaries if the target stopped |
| `SummaryDue`, `StopServing`, `Stopped`, `RecordSummary` | `serve` and `record_ignored` |
| `Shutdown`, `Exit` | `Running::stop`, which waits for the accept loop, and the end of `main` |
| `SetFailMode`, `SetSummarise` | settings that change while clients are connected |
| `Serve`, `UpstreamLost` | the server and the network (external): messages in order, each request answered item by item or as a whole, the last ones lost when the channel breaks |

The audit pipeline appears as its callers see it: an entry is stored, or in
fail-open mode counted as lost (`AuditWriter`, `LossAccounted`), or in
fail-closed mode refused. `value` and `applied` are the server's; `order` (what
was sent, and whether the connection was draining by then) and the old value in
`applied` are history. The server is taken to change nothing
of a request that it fails as a whole, as the comment at `events_with` says.
Several connections of one target share only the counters, the settings and
the pipeline; one connection and the accept loop already use all three at
once.

### RelaySessions

The session registry (`src/relay/mod.rs`) and the session services of
`connection.rs` over several secure channels. `reg` is the registry; a request
is sent in one step and answered in another (`CreateSend`, `ActivateSend`,
`WriteSend`, `CloseSend`, `CreateAnswer`, ...), so that everything `activate_session`
read before its await is stale when it is used. The server (`Execute`, `ServerRefuses`,
`ServerExpires`) is external: it binds a session to its channel and hands out
nonces. A request may time out and be answered late (`SesTimeout`, at most
`MaxLate`). Signatures are abstract: who holds which certificate is `Cert`, how
strong a channel is `Rank`.

### Connections

One listener with `Admission` (totals, addresses, the token bucket of
`admit`, refusal reports) and the life of a connection as far as slots and trust
are concerned: `Handshake`, `OpenSecureChannel`, `UpstreamConnect` and
`UpstreamAnswer`, `TrustChanged`, `SeesShutdown`, `Finish`, `Release`. `Report` takes the
counts of refusals (`take_refused`); `RecordRefused` then writes one record per address, whose
error the code ignores, and the accept loop takes nobody meanwhile. `LoopEnds` is its end,
which forgets the counts since the last report. `unreported` is the history of
refusals that no record will name. `Untrust` moves the certificate, `RecheckTrust` sends the
watch of `recheck_trust`; a connection sees it only when its loop turns. A panic inside `run` is caught
and ends like any other connection (`Finish`); a task that ends abnormally outside that guard, in the
handshake or in the cleanup, never gives its slot back (`Leak`). A handler of `untrust` that is
dropped before `recheck_trust` bumps the count is not modelled.

### Targets and Summarise

`Targets` is `src/targets.rs` with the handlers that call it: `config` under its lock,
`running`, and `file`. `CreateTarget` and `UpdateTarget` (with the groups `UpdateRead` copied
before the lock) go through `Upsert`, `UpsertCommit`, `UpsertFails` and
`UpsertFailsTwice`; `SummariseWrite`/`SummariseApply` and `RemoveWrite`/`RemoveEnd` are cut
where they await. `Drop` is a handler whose HTTP client left, `CrashAndStart` ends the
process and loads the file. `restart_all` may run several times at once, since each handler
that changes a certificate calls it: `RestartTake` takes the running targets out, `RestartStop` stops them one by
one, `RestartCopy` copies the configuration, `RestartLock` takes the lock of the running ones, and then each is
started (`RestartStart`) or was started by somebody else (`RestartSkip`), until `RestartEnd`. `DropRestart` drops its
handler at any of these awaits: what it took out stays stopped, or goes on listening with nobody who
knows it (`orphans`). A target whose port is still in use cannot be started (`CannotStart`, `Held`).

`Summarise` is what a list of groups means (`Matches`), how an old file becomes such
a list (`MigrateIgnore`, `DropOverlaps`, `ValidGroups`, `Load`) and the handlers that change it.
A handler addresses a group by its position and what its caller saw there
(`PickGroup`, `GroupMut`). Node identifiers are texts with a parse (`ParseNode`), so
that two spellings of a node are possible; a client is the set of names it
answers to.

### WebAccess and LoginLimit

`WebAccess` is the user database, the session map and the API tokens
(`src/users.rs`, `src/web/auth.rs`, the user and token handlers, `authenticate` of
`mcp.rs`). A request is a sequence of its database calls: login (verify, then
`session_state`, then `create`), the check of a cookie (`AuthSession`, `AuthState`), the
handler, the cleanup of sessions behind it. What the code does in several statements
without a transaction is several steps: `delete` is the check, the `DELETE` of the user and the
`DELETE` of the tokens (`DeleteCheck`, `DeleteUser`, `DeleteUserTokens`), `create_token` is `SelectUser` and
`InsertToken`, `change_own_password` is `OwnRead` and `OwnWrite`. Within the gateway these exclude each other by
the lock of the connection (`conn`, held from the first statement to the last); the command
line is another process and does not take it. Each of its commands is a process of its own, and
its `delete` too is three steps (`CliDeleteCheck`, `CliDeleteUser`, `CliDeleteTokens`), behind each of which it may
end. `changes` and `lives` are history: how often a user's password or role changed, and how
often the name was deleted.

`LoginLimit` has the failure counters per address and per user, the permits of
the password checks, and logins that run at once. A failed login makes two records
(`RecordFailure`, and `RecordBlock` when it started a block): each may be refused, which the code
ignores, and the handler may be dropped at each of its awaits (`Abandon`).
`told` remembers what became of a block's one record.

### Browser

The map of the OPC UA browser's sessions: `connect` cut at its awaits, `disconnect`,
the closing of many by user, target or all, `get`, and handlers that are dropped.

### Export and ExportSettings

`Export` is one exporter task over a trail that grows, is pruned, and is cut or
replaced while the gateway is stopped. A record is a number that stands for its
hash. The head and the batch are read in two steps; delivery may fail before,
in the middle or after storing; positions in memory and in the file are apart.
An old state file with one position per kind, with or without a hash, is taken over when an
exporter is started (`Apply`, `Restart`), in memory only until a position is saved. An aborted task ends at
its next await, so it may still save behind its successor (`LateSave`). `took` is history: up to where
a destination took over what another one had been sent.

`ExportSettings` is `put_export`: the credentials it keeps from the settings it read,
the CA in its temporary and its final name, the settings, and `Exports::apply`, which
stops the exporters and starts others. Its error path (the position file cannot be opened)
is not modelled.

### Assistant

Alarms and audit settings as an assistant (`mcp.rs`) and the web UI change them
at once: listing, acknowledging up to a number, the marks that the newest
acknowledgements give (`alarms` of `store.rs`), and `update_audit_settings` with its check
against settings it read before.

### Pki

The own certificate and key as two files, `backup_own`, `import_own` and `regenerate_own`
file by file, and `ensure_own_certificate` at the next start. A pair is a number.
`Crash` ends the process anywhere and may leave a copy in part; it does not lose
data that was written (a power cut could). `write_atomic` is one step.

### MC modules

`MCAuditStore` and `MCAuditWriter` extend their modules; the latter adds the
symmetry of the calls (not used in the run with a liveness property).
`MCForward` gives the items of the requests. `MCGateway` puts the modules from
`RelaySessions` to `Pki` side by side: `focus` is the part that moves in a behaviour.
They share no state that a property is about, so that nothing is lost by not
interleaving them. A part that has several initial states begins with one of them
while another is in focus.

## 3. Runs

| Run | Checks | Shows |
|---|---|---|
| `store_honest` | `TypeOK`, `UntamperedVerifies`, `PruneIsSafe`, `ImplementsLog` | appends, failures, retention under clocks that go back, crashes: the trail verifies and implements the log |
| `store_tampered` | `VerifiedIsAuthentic`, `SeqNeverReused`, `CutIsEvident` | rows cut, removed, rewritten or copied, at most twice, running or stopped |
| `store_restored` | `AnchorProvesHistory` | an older copy put back grows past a noted record |
| `store_stuck` | `RetentionContinues` (violated) | see findings |
| `writer_faults` | `AckNamesRecord`, `LossAccounted`, `SavedLossSurvives`, `FlushIsBarrier` | full queue, failing store, panics, dropped callers, a crash anywhere, changing fail mode |
| `writer_returns` | `CallsReturn`, `ImplementsService` | liveness, and every step is one of the service the callers see, with panics, dropped callers and a crash |
| `forward_pipeline` | `OutcomeTruthful`, `OldValueTrue`, `ForwardedInOrder`, `ChangesRecorded` | two writes to one item under way at once, the fail mode changes between them, the connection breaks or drains at any point |
| `forward_faults` | `IntentFirst`, `CountedOnce`, `StopSettles` | one request with more items than the limits under every failure of the model, with settings that change; client, target and gateway stop at any point; liveness |
| `forward_exit`, `forward_summary`, `forward_drain` | `ChangesRecorded`, `NeverDroppedSilently`, `SentInPushOrder` (violated) | see findings |
| `gateway` | in the next table | the parts around the data path |

The run `gateway`, part by part:

| Part | Property | Says |
|---|---|---|
| `RelaySessions` | `AttributionTruthful` | a change is recorded under the user the server executed it as, with requests, activations and closes under way at once |
| | `OwnershipProved` | a session moves only to a channel of the same certificate that is not weaker (`OwnerProvedKey`), and no server nonce proves an activation twice (`NonceProvesOnce`) |
| `Connections` | `AdmissionCounts` | the counters are the connections that hold a slot, also those that keep it for good, within the limits (`SlotsCounted`), and every refused connection is in one record, due for one, or lost with a record that was refused or with the end of the loop (`RefusalsReported`) |
| | `RevokedNeverUsed` | a connection that saw the last change of trust uses trusted certificates only |
| `Targets` | `ConfigIsSaved`, `TargetsAsConfigured` | file, memory and running targets agree between changes and restarts, but for the names whose change or restart was cut short |
| `Summarise` | `LoadSummarisesNoMore` | loading an old file summarises no write that was recorded before |
| | `RecordedAgain` | nodes a handler says are recorded again, are |
| | `LandsOnSeen` | a change lands on the group its caller saw |
| `WebAccess` | `AdminRemains`, `SessionsEnd`, `TokensEnd`, `OwnChangeSeesItsRow` | somebody can administer; cookies and tokens end with what they rest on; the exceptions are named in section 4 |
| `LoginLimit` | `BlockIsRecorded` | logins at once start a block: it is recorded, about to be, or its one attempt was cut |
| `Browser` | `SessionsAccounted` | every session is in the map or closed, and its end recorded at most once |
| `Export` | `NothingSkipped` | a saved position vouches for everything before it, back to where its destination began |
| `ExportSettings` | `ExportsAsGiven` | stored credentials go only to the server they were given for (`CredentialsStay`), and between requests exactly the configured exporter runs, with its CA (`ExportsAsConfigured`) |
| `Assistant` | `AcknowledgedWereSeen` | nothing is acknowledged unseen |
| `Pki` | `InterruptionsHarmless` | an interrupted import neither stops the next start nor changes the pair |

Bounds. Store: `MaxSeq` 5 or 6 records are enough for two batches, a prune that
stops at `MaxPrune` = 2, a second prune of the first prune's own record, a cut
and a reopen; two or three clock readings order any record against cutoff, now
and `Grace`. `MaxTampers` = 2: one edit before and one after a reopen. Writer:
three calls with `Capacity` = `MaxBatch` = 2 reach a full queue, a batch that
ends by its limit, a loss, and its report in a later batch; one restart per
"minute" reaches both outcomes of the restart loop. Forward: two requests on one
item show every order on the channel and every wrong old value; `IntentFirst`
speaks of one request at a time (and is proved for any number); two items that are
summarised or not, as the groups change, against `MaxFailed` = `MaxNodes` = 1 reach the sample of a failed
request and the full counters. The target does not stop in `forward_pipeline`: a stop differs from
another close only for the counters, which are empty there. That every change of such a
request is recorded is proved (`ChangesAreRecorded`).

In `gateway` every part has the smallest bounds at which its interesting cases
happen: two users of whom one may be demoted, deleted or created again, three
requests and two commands of the command line, with three changes in all (so that two requests race on users that a
command made, and a command comes between two statements of a request or of another command); three logins against limits of
two and three; three browser connects of two users; four session
requests on three channels (without a certificate, signed, signed and
encrypted) with one late answer; three connections from two addresses against
one place per address; two targets on two ports with four changes, two restarts of all at once, one failure
and one dropped request; five records in batches of two with two faults;
three calls and five log entries; two groups' worth of edits on a node with two
spellings; two imports at once, two seconds of the clock, two faults; two
changes of the export settings. Requests are used in the order of their
numbers, and the first user or address is fixed, where they are alike: this
replaces `SYMMETRY`, which would not be sound for the other parts of the run.

Deadlock checking is on for the store and the writer, where something is
always enabled. A connection ends, so it is off in the `forward` runs;
the requests and bounds of `gateway` end, so it is off there.

Fairness, in `writer_returns`: weak fairness of the writer thread (an OS
thread), of a caller's own next step and of the timer of `send_timeout`;
strong fairness of a blocked `send`, because tokio's mpsc hands out permits in
order. Nothing is assumed to make calls happen, the store succeed, or a panic
end. In `forward_faults`: weak fairness of every future and task, of the timeouts
that bound each wait, and of the close and leave that a stopped target brings
about (`CLOSE_TIMEOUT`); nothing is assumed of the client, the server or the
network.

## 4. Findings

- `store_stuck`: after a truncated trail was continued, a retention run whose
  `MAX_PRUNE` limit falls into the gap fails, and so does every later one.
- `forward_exit`: on an orderly stop of the gateway nobody waits for the
  connection tasks; a change already sent upstream has no outcome record,
  although "their outcome is always recorded" (`audit_map.rs`).
- `forward_drain`: when a client disconnects, its requests that were not polled yet are sent in
  reverse. "Newly pushed futures are first polled in push order, so requests reach the upstream
  channel in the order the client sent them" (`connection.rs:7`) does not hold of the set that
  `finish_audited` builds; of two writes to one value the older one wins.
- `forward_summary`: in fail-closed mode a summary the store refuses is lost
  without a trace: the counters were taken, and the error is ignored.

More disagreements with the code's comments show in how properties had to be
stated. Each exception below is a history variable that names the behaviour, so
the property holds of everything else:

- `ForwardedInOrder` allows a request that waits for its intent to be overtaken
  by one that needs none (a read, a write to summarised nodes), and any order of two
  requests that are both sent in the drain. The comment at the top of `connection.rs` and
  `ARCHITECTURE.md` promise the client's order without exception.
- `LossAccounted` excludes callers that were dropped while they waited for their
  ack: nobody counts their entry when its append fails.
- `SavedLossSurvives` excludes panics: between a panic and the restart the
  counter thread can save a count that lacks the batch's losses, and if the
  gateway then stops, they are forgotten although the file had them.
- A panic of the writer while a `Prune` is in its batch ends the retention task
  until the gateway is restarted (`audit/mod.rs:524`): there is no property that
  retention goes on.
- `SessionsEnd` (`lives`): a user who is deleted and created again starts at epoch 0,
  so a cookie of the deleted user can be accepted, although `auth.rs:300` says a
  deleted user ends the session. (The handler of the web UI removes the sessions;
  the command line cannot.) And the property counts from the epoch that the login reads
  behind its password check (`auth.rs:446`): with a change in between, the session of
  the old password goes on.
- `AttributionTruthful` (`mixed`): a write that is under way while an activation
  changes the user of its session may be recorded under either of the two
  (`connection.rs:1268` reads the user once, when forwarding starts).
- `AdminRemains` (`overtaken`): `delete` asks whether an admin remains and deletes in two
  statements, without a transaction. When an admin is taken away in between, by a command during a
  request or by a request or another command during a command, the last one can go.
- `TokensEnd` (`orphan`, `late`): a `delete` that ends between its two `DELETE`s, or that
  commits between the two statements of `create_token`, leaves a token behind, which the next user
  of that name owns. Scopes stored by a request that saw the Admin role before a command
  took it away come back with the next promotion, though `update` clears the scopes so that they
  do not (`users.rs:399`, `ARCHITECTURE.md`); until then `ChangesForAdmins` shows that they
  cannot be used.
- `OwnChangeSeesItsRow` (`lives`): the command line can delete a user and create the name again
  while the new password is hashed. The epoch is 0 again, so the change meets its condition and
  replaces the password of the new user.
- `BlockIsRecorded` (`cut`): a block whose record the trail refuses, or whose login is dropped
  before it, is never recorded; nobody tries again.
- `AdmissionCounts`: a record of refusals that fails takes its counts with it (`relay/mod.rs:576`), and
  so does the end of the loop (`unreported`); a connection task that ends outside its guard
  keeps its slot until the target is restarted (`leaked`).
- `SessionsAccounted` and the properties of `Targets` (dropped requests, `unsettled`, `ahead`):
  a handler whose client left is dropped at an await and cleans nothing up.
- `TargetsAsConfigured` (`stale`): `restart_all` starts targets from a copy of the
  configuration it took before the lock, so that a removed target may run. (`unsettled`) A
  handler that is dropped while it waits for `restart_all` leaves targets stopped until
  somebody changes them or the gateway is restarted, although no change is under way; one that
  could not be started stays stopped, too. The same (`putBack`): a target put
  back after a failed change has the summarise groups it was started with, not
  "as it was" (`targets.rs:171`).
- `ExportsAsGiven` (`xsMixed`): two requests at once share the CA file and may
  start an exporter each; a save that fails leaves the new CA behind.
- `AcknowledgedWereSeen` (`clipped`): an answer that ends at `MAX_RECORDS`.
- There is no property that an assistant makes retention "only longer, and
  fail-closed not off" (`docs/manual/ai-assistants.md`): settings that change between
  its check and its write let it miss that.
- `RecordedAgain`: a client that one group names by its address and another by its
  application URI.
- `InterruptionsHarmless` (`pkOver`): a backup taken while the pair was in change, under the name
  of one of the same second. That the pair is the last one (`PresentsLastInstalled`) also excludes two requests at
  once (`pkRaced`) and a clock that went back (`pkBack`).
- `NothingSkipped` (`excused`): records behind a gap that the exporter noticed, and those removed before
  a destination without a position began. (`took`) The position per kind of an older version belongs
  to one destination, but it is taken over in memory only until the next save. After a restart
  before that, another destination of the kind takes it over as well and is never sent the
  records up to it, with no gap noticed, although `ARCHITECTURE.md` and the test
  `a_position_per_kind_is_taken_over` say that a new one gets the whole trail.

## 5. Proofs

`AuditStoreProofs` proves, for every value of the constants that satisfies
`StoreAssumption`:

| Theorem | Statement |
|---|---|
| `TypeCorrect` | `Spec => []TypeOK` |
| `HonestTrailVerifies` | `Spec => []UntamperedVerifies` |
| `VerifiedTrailIsAuthentic` | `Spec => []VerifiedIsAuthentic`, under all four kinds of tampering |
| `NumbersAreNeverReused` | without `Restore`: `Spec => SeqNeverReused` |
| `StoreImplementsLog` | without tampering: `Spec => ImplementsLog` |

All rest on the inductive invariant `IInv` = `TypeOK` with
`NumbersInv` (the rows of the table lie at or below the chain head, the history
has no hole, and an open writer continues at the chain head), `HashesInv` (what
was written is well formed, and the table, however tampered with, holds only
hashes that were written at or below the head), `TxInv` (the rows of a transaction are a linked piece
behind the writer's memory) and `UntamperedInv` (without tampering the table
is one linked piece of the written rows that ends at the chain head, and a
`RetentionPruned` record in it vouches for its beginning). None of the
properties is inductive alone: that a reopened writer links correctly needs
`UntamperedInv`, and that a verified row is the written one needs that hashes
determine rows, which is `HashesInv`. `PieceExtends` and `PiecePrunes` carry
the argument that appending and pruning keep such a piece. The constants
`NumbersAreNeverReused` and `StoreImplementsLog` restrict (`"restore"` not in
`Attacks`, `Attacks = {}`) are what the properties need: an old copy put back
does reuse numbers, and tampering is not a step of the log.

Three more results about the store have invariants of their own.
`AnchorFixesHistory` (`Spec => []AnchorProvesHistory`) adds `AnchorInv`: the noted record
is the newest of the rows it was noted with. From there the proof goes
back row by row, since an accepted row fixes the hash of the one before it and
a hash determines its row (`HashIsRow`). `CutTrailIsEvident` (`Spec => CutIsEvident`) follows from
`IInv`: the chain head is above every row that is left. `RetentionIsSafe`
(`Spec => PruneIsSafe`) needs `StampInv`, that time columns are clock readings also in tampered tables, and
`PruneLastOld`, what the bounded search of `prune_before` finds.

The other proof modules prove the properties that the runs check, each for any
number of actors and any limits:

| Module | Theorem | Property | Inductive invariant |
|---|---|---|---|
| `ForwardProofs` | `ChangesFollowIntents` | `IntentFirst` | `IntentInv` |
| | `ConnectionTyped` | `TypeOK` | `AllTyped` |
| | `OutcomesAreTrue` | `OutcomeTruthful` | `DeliveryOK`, `ToldOK` |
| | `OldValuesAreTrue` | `OldValueTrue` | `DeliveryOK`, `OldOK` |
| | `RequestsKeepTheirOrder` | `ForwardedInOrder` | `OrderOK` |
| | `WritesAreCountedOnce` | `CountedOnce` | `CountOK` |
| | `ChangesAreRecorded` | `ChangesRecorded` | `RecordingOK`, with `NothingGivenUp` |
| `AuditWriterProofs` | `PipelineTyped` | `TypeOK` | `WriterInv` |
| | `AcksNameTheirRecords` | `AckNamesRecord` | `WriterInv` |
| | `SavedLossesSurvive` | `SavedLossSurvives` | `SavedOK` |
| | `FlushWaitsForAll` | `FlushIsBarrier` | `BarrierOK` |
| | `LossesAreCounted` | `LossAccounted` | `LossOK` |
| | `RefusedAreNotStored` | `RefusedOK` | `LineInv` |
| | `PipelineKeepsItsPromises` | `ImplementsService` | `LineInv` |
| `AccessProofs` | `AnAdminRemains` | `AdminRemains` | `WebInv` |
| | `CookiesEndWithChanges` | `SessionsEnd` | `WebInv` |
| | `TokensEndWithTheirUsers` | `TokensEnd` | `WebInv` |
| | `OwnChangesAreConditional` | `OwnChangeSeesItsRow` | `WebInv` |
| | `BlocksAreRecorded` | `BlockIsRecorded` | `LimInv` |
| | `OneChangeAtATime` | `OneHolder` | `WebInv` |
| | `AccessTyped` | `WebTypeOK` | `WebInv` |
| | `ChecksAreLimited` | `LimTypeOK` | `LimInv` |
| `RelayProofs` | `RevokedTrustEnds` | `RevokedNeverUsed` | `TrustInv` |
| | `AdmissionIsTrue` | `AdmissionCounts` | `CountInv` |
| | `ListenerTyped` | `ConTypeOK` | `TrustInv`, `CountInv`, `ListInv` |
| | `SessionsTyped` | `SesTypeOK` | `SesInv` |
| | `RecordsNameTheUser` | `AttributionTruthful` | `SesInv` |
| | `OwnersProvedTheirKeys` | `OwnershipProved` | `SesInv` |
| `ConfigProofs` | `ExportsGoWhereTold` | `ExportsAsGiven` | `XsInv` |
| | `ConfigurationIsSaved` | `ConfigIsSaved` | `TgtInv` |
| | `TargetsRunAsConfigured` | `TargetsAsConfigured` | `TgtInv` |
| | `SettingsTyped` | `XsTypeOK` | `XsInv` |
| | `TargetsTyped` | `TgtTypeOK` | `TgtInv` |
| `ServiceProofs` | `BrowserSessionsAccounted` | `SessionsAccounted` | `BrInv` |
| | `ExportSkipsNothing` | `NothingSkipped` | `ExpInv` |
| | `NothingAcknowledgedUnseen` | `AcknowledgedWereSeen` | `AstInv` |
| | `BrowserTyped` | `BrTypeOK` | `BrInv` |
| | `ExportTyped` | `ExpTypeOK` | `ExpInv`, `WithinMade` |
| | `AssistantTyped` | `AstTypeOK` | `AstInv` |
| `SettingsProofs` | `CutsAreHarmless` | `InterruptionsHarmless` | `PkInv` |
| | `LoadingSummarisesNoMore` | `LoadSummarisesNoMore` | `GroupsInv` |
| | `RemovedAreRecorded` | `RecordedAgain` | `GroupsInv` |
| | `ChangesLandOnSeen` | `LandsOnSeen` | `GroupsInv` |
| | `PairsTyped` | `PkTypeOK` | `PkInv` |
| | `GroupsTyped` | `SumTypeOK` | `GroupsInv` |

Why the properties are not inductive alone, and what the invariants add:

- **Forwarding.** `IntentFirst` speaks of what the server applied, long after the decision was
  made, so `IntentInv` follows the request: whatever is on the channel or applied is behind
  its first poll, and if it was held then its intent, with the items the plan
  kept, is in the trail (`BehindIntent`). `DeliveryOK` is the protocol of the channel: a message is
  there once, a change directly behind the read of its old values, nothing of a
  request on the channel was applied or answered yet, and an answer tells exactly what was
  applied. With it, a "Bad" outcome excludes that the change is still on its
  way (`ToldOK`), and an old value is the one in the node until its change
  replaces it (`OldOK`). `OrderOK` says what may stand behind a request in each stage, until the connection drains. `CountOK` says where a
  write may be counted. `RecordingOK` says that each change on its way has a future at work on it or is told.
  `ChangesAreRecorded` assumes `NothingGivenUp`: the store does not fail in fail-closed mode or
  stall beyond `CLOSE_TIMEOUT`, and the process does not end. Each hypothesis is needed: in each
  of these cases the code gives records up.
- **Audit pipeline.** `WriterInv` ties the queue, the batch and the stage of the writer
  to the stages of the calls: an entry is held in one place, a sent entry is in
  none, and an ack is for the row just written. `BarrierOK` adds that
  what stands behind a `Flush` came after it; `SavedOK` and `LossOK` add what the counters
  owe in each stage of a report (`Owed`), also between a panic and the reopening.
  `PipelineKeepsItsPromises` is the refinement, for any calls, queue size, number of crashes
  and panics. It adds three facts in `LineInv`: the command that ended a batch stands
  directly behind it (`AfterOK`), so that batch and queue are one line; the file never
  holds more losses than there were (`FileOK`), so that a restart owes no more than
  `Stop` allows; a refused entry is in no record (`RefusedOK`), which is `Deny`, and is
  a theorem of its own. Then each step maps to one of the service or to a stutter: a
  commit is `Store`, the end of a failed batch and a panic are `GiveUp`, a flush or
  prune reached by the writer is `Serve`, and what only the writer sees (taking commands, the write
  of the counter file, the acks on their way) is a stutter. `Confirm` needs `AckNamesRecord`.
- **Access.** `WebInv` says for each stage of a request what it may rely on of a row it
  read earlier (`StageOK`), and when a cookie or token is current. `LimInv` pairs
  each block with its record, with a login that is about to make it, or with the cut of that attempt. Two results say what the code
  builds on without stating it: `UserStore::conn` is held over several statements by one request at most (`OneHolder`),
  and at most `ConcurrentChecks` passwords are checked at once (in `LimTypeOK`,
  a cardinality, since a permit is taken and given back per login).
- **Relay.** `TrustInv` bounds what a connection may have seen of the trust lists while a change
  is made; `CountInv` counts slots per address as a cardinality. `SesInv` follows the nonces, owners
  and users of a session through overlapping activations, in the gateway and
  in the server.
- **Configuration.** `XsInv` and `TgtInv` say for each stage of a change which of file,
  configuration and running tasks are ahead, and what a change may still put back.
- **Services.** `BrInv` gives each session of the browser its holder; `ExpInv` says of every
  position, in memory, on disk and in a task, that all behind where the destination began was delivered or
  excused (`Vouches`); `AstInv` says of every bound in a call under way that its alarms were shown.
- **Settings.** `PkInv` = `PkTypeOK`, `FilesInv`, `HeldInv` and `LastInv` says for each
  stage of an import which of the two files is torn, and that a readable, matching backup
  exists whenever the files may be unusable; TLC checked it (1.1 million states) before the proof. `GroupsInv`
  says that the groups are apart, as `validate_summarise` leaves them; a claim "recorded again" then
  holds because what another group still matches would overlap. The load theorem
  covers the files of the model, up to two groups and one old rule, with any texts and clients: the
  fold of `migrate_ignore` and the recursion of `drop_summarise_overlaps` are unrolled, since induction over their input is out of
  the prover's reach.

Apart from `Attacks` in two results about the store and `NothingGivenUp`, the proofs use the named assumptions
of the modules and no other. These ask that bounds are
naturals, that sets from which the code always has something are not empty
(passwords, addresses, users, names, ports, servers, destinations), that `Stamps` are naturals with a
last one, and that markers such as `"none"` are not values. TLC evaluates them in the runs.

Model-checked only: the liveness properties `CallsReturn` and `StopSettles` (liveness under
fairness is out of the prover's reach). The type invariants of all parts are proved; only
the store's is also checked by a run.

## 6. Composition, and what is not modelled

`MCGateway` puts the parts around the data path side by side: it begins as all of them
begin, and a step of it is one of the part in focus and leaves the others as they are. What is
proved of a part's own specification therefore holds of it there; the composition
has no theorem of its own.

Not modelled, and why:

- endpoint mirroring (`relay/endpoints.rs`) and event types (`audit/event.rs`): mappings
  and data without state;
- discovery (`discovery.rs`) and the periodic trust check of a target: a status
  that is shown, and read by nothing that a property is about;
- chunks, ciphers, sequence numbers and token renewal of secure channels: async-opcua
  does them, and the gateway's own `transport.rs` passes them on;
- browsing and reading of the OPC UA browser, the reading web handlers and
  the reading tools of the assistant: calls and formatting;
- `put_gateway` and `put_mcp`: `update_settings`, which is in `Targets`, and a message;
- encodings (TOML, JSON, line protocol), argument parsing, service
  registration, the web server's own certificate, the JavaScript UI: I/O or presentation without state
  of their own.
