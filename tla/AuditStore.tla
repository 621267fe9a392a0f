------------------------------ MODULE AuditStore ------------------------------
(***************************************************************************)
(* The tamper-evident audit store of src/audit/store.rs: one SQLite table  *)
(* of records linked by a hash chain, the chain_head row that outlives     *)
(* them, and the single writer that appends, prunes and reopens.           *)
(*                                                                         *)
(* SHA-256 is taken to be collision free: the hash of a record IS the      *)
(* triple it is computed from.  Somebody may change the database file      *)
(* behind the writer's back, without recomputing hashes (Attacks says      *)
(* how): that is the tampering the module comment of store.rs speaks of.   *)
(***************************************************************************)
EXTENDS Integers, FiniteSetsExt

CONSTANTS
    Times,      \* wall-clock readings; a clock may go back, an entry may wait in the queue
    Grace,      \* how far the newest record may lie ahead of now (5 minutes)
    MaxPrune,   \* MAX_PRUNE: the most sequence numbers one retention run passes over
    MaxBatch,   \* MAX_BATCH: the most entries of one append
    Attacks,    \* what the environment does to the file: {} for an honest run
    Anchors,    \* whether a record is noted down outside the database
    MaxTampers, \* bound of the model: how often the environment edits the file
    MaxSeq      \* bound of the model: no record is written after this number

ASSUME StoreAssumption ==
    /\ Times \subseteq Nat
    /\ Grace \in Nat
    /\ MaxPrune \in Nat \ {0}
    /\ MaxBatch \in Nat \ {0}
    /\ Attacks \subseteq {"cut", "remove", "edit", "restore"}
    /\ Anchors \in BOOLEAN
    /\ MaxTampers \in Nat
    /\ MaxSeq \in Nat \ {0}

VARIABLES
    audit,      \* the committed table: sequence number -> row
    chain_head, \* the committed chain_head row; seq 0 stands for "no row"
    open,       \* the writer holds the database open
    last_seq,   \* AuditStore.last_seq, in memory
    last_hash,  \* AuditStore.last_hash, in memory
    tx,         \* the transaction of an append under way
    written,    \* history: every row ever committed, by sequence number
    tampered,   \* history: how often somebody changed the file behind the writer's back
    anchor      \* a record noted down outside the database, with the table it stood in

writer == <<open, last_seq, last_hash, tx>>
database == <<audit, chain_head>>
vars == <<writer, database, written, tampered, anchor>>
-------------------------------------------------------------------------------
GENESIS_HASH == << >>

record_hash(prev_hash, seq, body) == <<prev_hash, seq, body>>

\* Entry bodies.  Every event but the store's own two is a plain "event".
Event(t) == [kind |-> "event", ts |-> t]
\* Mutant: the record names the first kept number.
MutFirstKept(t, deleted, s, h) ==
    [kind |-> "retention_pruned", ts |-> t, deleted |-> deleted, last_seq |-> s + 1, last_hash |-> h]

RetentionPruned(t, deleted, s, h) ==
    [kind |-> "retention_pruned", ts |-> t, deleted |-> deleted, last_seq |-> s, last_hash |-> h]
TrailTruncated(t, expected, found) ==
    [kind |-> "trail_truncated", ts |-> t, expected_seq |-> expected, found_seq |-> found]

\* The indexed columns are a function of the entry.
columns(body) == [ts |-> body.ts, kind |-> body.kind]

Row(body, prev_hash, seq) ==
    [cols |-> columns(body), body |-> body, prev_hash |-> prev_hash,
     hash |-> record_hash(prev_hash, seq, body)]

NoRows == [s \in {} |-> 0]
NoTx == [on |-> FALSE, rows |-> NoRows, seq |-> 0, hash |-> GENESIS_HASH]

\* Rows of f are added to the rows of g.
Over(f, g) ==
    [s \in DOMAIN f \cup DOMAIN g |-> IF s \in DOMAIN f THEN f[s] ELSE g[s]]

Keep(f, S) == [s \in DOMAIN f \cap S |-> f[s]]

OneRow(seq, body, prev_hash) == [s \in {seq} |-> Row(body, prev_hash, seq)]
-------------------------------------------------------------------------------
Init ==
    /\ audit = NoRows
    /\ chain_head = [seq |-> 0, hash |-> GENESIS_HASH]
    /\ open = FALSE
    /\ last_seq = 0
    /\ last_hash = GENESIS_HASH
    /\ tx = NoTx
    /\ written = NoRows
    /\ tampered = 0
    /\ anchor = [seq |-> 0, hash |-> GENESIS_HASH, rows |-> NoRows]

\* The number of the newest row of the table, 0 when it is empty.
head_seq == IF DOMAIN audit = {} THEN 0 ELSE Max(DOMAIN audit)

\* What a committed transaction leaves: the table `rows`, of which `new` was
\* inserted, with the chain head and the writer's memory moved to (seq, hash).
Committed(rows, new, seq, hash) ==
    /\ audit' = rows
    /\ chain_head' = [seq |-> seq, hash |-> hash]
    /\ last_seq' = seq
    /\ last_hash' = hash
    /\ written' = Over(new, written)

\* A transaction that inserts one row behind (seq, hash) into `rows`.
InsertOne(rows, seq, hash, body) ==
    LET new == OneRow(seq + 1, body, hash)
    IN  Committed(Over(new, rows), new, seq + 1, new[seq + 1].hash)

\* Mutant: the writer continues after the newest row it finds.
MutContinueAtFound == FALSE

\* The table ends before the newest record ever written.
Truncated == head_seq < chain_head.seq

\* Sequence numbers are never reused: the writer continues after the newest
\* record ever written, and says so when that one is gone.
Open(t) ==
    /\ ~open
    /\ open' = TRUE
    /\ IF Truncated
       THEN /\ chain_head.seq < MaxSeq
            /\ InsertOne(audit, chain_head.seq, chain_head.hash,
                         TrailTruncated(t, chain_head.seq, head_seq))
       ELSE /\ last_seq' = head_seq
            /\ last_hash' = IF head_seq = 0 THEN GENESIS_HASH ELSE audit[head_seq].hash
            /\ UNCHANGED <<database, written>>
    /\ UNCHANGED <<tx, tampered, anchor>>

\* append: a transaction, one INSERT per entry, then the chain head and COMMIT.
Begin ==
    /\ open /\ ~tx.on
    /\ tx' = [on |-> TRUE, rows |-> NoRows, seq |-> last_seq, hash |-> last_hash]
    /\ UNCHANGED <<open, last_seq, last_hash, database, written, tampered, anchor>>

Insert(t) ==
    /\ tx.on
    /\ tx.seq < last_seq + MaxBatch
    /\ tx.seq < MaxSeq
    /\ LET new == OneRow(tx.seq + 1, Event(t), tx.hash)
       IN  tx' = [on |-> TRUE, rows |-> Over(new, tx.rows),
                  seq |-> tx.seq + 1, hash |-> new[tx.seq + 1].hash]
    /\ UNCHANGED <<open, last_seq, last_hash, database, written, tampered, anchor>>

Commit ==
    /\ tx.on
    /\ tx.seq > last_seq
    /\ Committed(Over(tx.rows, audit), tx.rows, tx.seq, tx.hash)
    /\ tx' = NoTx
    /\ UNCHANGED <<open, tampered, anchor>>

\* An error of any statement: nothing is written, the chain head is unchanged.
Rollback ==
    /\ tx.on
    /\ tx' = NoTx
    /\ UNCHANGED <<open, last_seq, last_hash, database, written, tampered, anchor>>

\* Mutant: everything up to the newest expired record goes.
MutNewestExpired(cutoff) ==
    LET head == Max(DOMAIN audit)
        expired == {s \in DOMAIN audit : audit[s].cols.ts < cutoff}
        last_expired == IF expired = {} THEN 0 ELSE Max(expired)
    IN  Min({Min({last_expired, head - 1}), Min(DOMAIN audit) + MaxPrune - 1})

\* Mutant: off by one, the newest record goes too.
MutPruneHead(cutoff) ==
    LET kept == {s \in DOMAIN audit : audit[s].cols.ts >= cutoff}
        last == IF kept = {} THEN Max(DOMAIN audit) ELSE Min(kept) - 1
    IN  Min({last, Min(DOMAIN audit) + MaxPrune - 1})

\* The last number a retention run with this cutoff deletes.
prune_last(cutoff) ==
    LET head == Max(DOMAIN audit)
        kept == {s \in DOMAIN audit : audit[s].cols.ts >= cutoff}
        first_kept == IF kept = {} THEN head ELSE Min(kept)
    IN  Min({Min({first_kept, head}) - 1, Min(DOMAIN audit) + MaxPrune - 1})

\* The run has something to delete, and the newest record is not in the future.
prune_due(cutoff, now) ==
    /\ DOMAIN audit # {}
    /\ audit[Max(DOMAIN audit)].cols.ts <= now + Grace
    /\ prune_last(cutoff) >= Min(DOMAIN audit)

prune_before(cutoff, now) ==
    /\ open /\ ~tx.on
    /\ last_seq < MaxSeq
    /\ prune_due(cutoff, now)
    /\ LET last == prune_last(cutoff)
           gone == {s \in DOMAIN audit : s <= last}
       IN  /\ last \in DOMAIN audit \* no row with that number is an SQL error
           /\ InsertOne(Keep(audit, DOMAIN audit \ gone), last_seq, last_hash,
                        RetentionPruned(now, Cardinality(gone), last, audit[last].hash))
    /\ UNCHANGED <<open, tx, tampered, anchor>>

\* Mutant: a transaction outlives the connection.
MutCloseKeepsTx ==
    /\ open
    /\ open' = FALSE
    /\ last_seq' = 0
    /\ last_hash' = GENESIS_HASH
    /\ UNCHANGED <<tx, database, written, tampered, anchor>>

\* The process ends, or the writer panics and its store is dropped: an open
\* transaction is rolled back, the committed rows stay (synchronous = FULL).
Close ==
    /\ open
    /\ open' = FALSE
    /\ tx' = NoTx
    /\ last_seq' = 0
    /\ last_hash' = GENESIS_HASH
    /\ UNCHANGED <<database, written, tampered, anchor>>

\* The newest record and its hash are noted down outside the database: an
\* exporter ships it, or somebody keeps it for `verify --expect`.
Note ==
    /\ Anchors /\ anchor.seq = 0
    /\ DOMAIN audit # {}
    /\ anchor' = [seq |-> head_seq, hash |-> audit[head_seq].hash, rows |-> audit]
    /\ UNCHANGED <<writer, database, written, tampered>>
-------------------------------------------------------------------------------
\* The environment edits the database file between two transactions (and
\* while the model's bound leaves room for the record that would tell).
Tamper(rows) ==
    /\ ~tx.on
    /\ tampered < MaxTampers
    /\ chain_head.seq < MaxSeq
    /\ rows # audit
    /\ audit' = rows
    /\ tampered' = tampered + 1
    /\ UNCHANGED <<writer, written, anchor>>

\* The newest rows are cut off.
Cut(n) ==
    /\ "cut" \in Attacks
    /\ Tamper(Keep(audit, 0 .. n))
    /\ UNCHANGED chain_head

\* A row is deleted.
Remove(s) ==
    /\ "remove" \in Attacks
    /\ s \in DOMAIN audit
    /\ Tamper(Keep(audit, DOMAIN audit \ {s}))
    /\ UNCHANGED chain_head

\* A row is rewritten, only its columns are, or another row is copied over it.
Forgeries(s, t) ==
    {[audit[s] EXCEPT !.body = Event(t), !.cols = columns(Event(t))],
     [audit[s] EXCEPT !.cols = [ts |-> t, kind |-> audit[s].cols.kind]]}
    \cup {audit[r] : r \in DOMAIN audit}

Edit(s, t) ==
    /\ "edit" \in Attacks
    /\ s \in DOMAIN audit
    /\ \E row \in Forgeries(s, t) : Tamper(Over([x \in {s} |-> row], audit))
    /\ UNCHANGED chain_head

\* The stopped gateway's database is replaced by an older copy, which holds
\* the records m..n and the chain head of that time.
Restore(m, n) ==
    /\ "restore" \in Attacks
    /\ ~open
    /\ m .. n \subseteq DOMAIN written
    /\ Tamper(Keep(written, m .. n))
    /\ chain_head' = [seq |-> n, hash |-> written[n].hash]
-------------------------------------------------------------------------------
Writer ==
    \/ \E t \in Times : Open(t) \/ Insert(t)
    \/ Begin \/ Commit \/ Rollback \/ Close
    \/ \E cutoff, now \in Times : prune_before(cutoff, now)

Environment ==
    \/ Note
    \/ \E n \in 0 .. MaxSeq : Cut(n) \/ Remove(n)
    \/ \E n \in 1 .. MaxSeq : \E m \in 1 .. n : Restore(m, n)
    \/ \E s \in 1 .. MaxSeq, t \in Times : Edit(s, t)

Next == Writer \/ Environment

Spec == Init /\ [][Next]_vars
-------------------------------------------------------------------------------
\* Mutant: rows that do not follow each other need not link.
MutGapPasses(T) ==
    \A s \in DOMAIN T :
        /\ s = 1 => T[s].prev_hash = GENESIS_HASH
        /\ s - 1 \in DOMAIN T => T[s].prev_hash = T[s - 1].hash

\* Mutant: only the body is checked, not the columns that queries use.
MutColumnsUnchecked(T) ==
    \A s \in DOMAIN T : record_hash(T[s].prev_hash, s, T[s].body) = T[s].hash

\* verify_chain: the scan of a table T in the order of its numbers.  Rows must
\* follow each other without a gap and link to each other; when the first one
\* is not record 1, a RetentionPruned record must vouch for the one before it.
Linked(T) ==
    LET first == Min(DOMAIN T)
    IN  \A s \in DOMAIN T :
            IF s = first
            THEN s = 1 => T[s].prev_hash = GENESIS_HASH
            ELSE s - 1 \in DOMAIN T /\ T[s].prev_hash = T[s - 1].hash

Unmodified(T) ==
    \A s \in DOMAIN T :
        /\ record_hash(T[s].prev_hash, s, T[s].body) = T[s].hash
        /\ columns(T[s].body) = T[s].cols

Vouched(T) ==
    LET first == Min(DOMAIN T)
    IN  first # 1 =>
            \E s \in DOMAIN T :
                /\ T[s].body.kind = "retention_pruned"
                /\ T[s].body.last_seq = first - 1
                /\ T[s].body.last_hash = T[first].prev_hash

verify_chain(T) == DOMAIN T # {} => Linked(T) /\ Unmodified(T) /\ Vouched(T)

\* Mutant: an anchor only has to be in range.
MutAnchorInRange(T, seq, hash) ==
    verify_chain(T) /\ DOMAIN T # {} /\ seq <= Max(DOMAIN T)

\* verify_against one anchor: a record known from outside the database.
verify_against(T, seq, hash) ==
    /\ verify_chain(T)
    /\ DOMAIN T # {}
    /\ seq <= Max(DOMAIN T)
    /\ seq >= Min(DOMAIN T) => T[seq].hash = hash
-------------------------------------------------------------------------------
Hash == {GENESIS_HASH} \cup {written[s].hash : s \in 1 .. chain_head.seq}

\* The chain head and the writer's memory name records that were written, a
\* table holds rows of the numbers given out, an append is within its batch.
TypeOK ==
    /\ chain_head.seq \in 0 .. MaxSeq /\ chain_head.hash \in Hash
    /\ open \in BOOLEAN
    /\ last_seq \in 0 .. MaxSeq /\ last_hash \in Hash
    /\ DOMAIN audit \subseteq 1 .. MaxSeq
    /\ DOMAIN written \subseteq 1 .. MaxSeq
    /\ tx.on \in BOOLEAN
    /\ tx.seq \in 0 .. MaxSeq
    /\ DOMAIN tx.rows = (IF tx.on THEN last_seq + 1 .. tx.seq ELSE {})
    /\ tampered \in 0 .. MaxTampers
    /\ anchor.seq \in 0 .. MaxSeq

\* Whatever the writer does (appends in batches, failed transactions,
\* retention, crashes between any two statements, reopening), a trail nobody
\* tampered with verifies.
UntamperedVerifies == tampered = 0 => verify_chain(audit)

\* When verify_chain accepts a table, every row in it is the row the writer
\* committed under that number: no edit, swap or removal in between passes.
VerifiedIsAuthentic ==
    verify_chain(audit) =>
        \A s \in DOMAIN audit : s \in DOMAIN written /\ audit[s] = written[s]

\* A number once committed is never given to another record, also when the
\* newest rows were cut off before the writer reopened the database.
SeqNeverReused == [][\A s \in DOMAIN written : written'[s] = written[s]]_vars

\* Reopening a database whose newest rows are gone leaves a trail that does
\* not verify, and whose newest record says so.
CutIsEvident ==
    [][open' /\ ~open /\ Truncated =>
        /\ ~verify_chain(audit')
        /\ audit'[last_seq'].body.kind = "trail_truncated"]_vars

\* Retention removes only rows older than its cutoff, only the oldest ones in
\* one piece, at most MaxPrune of them and never the newest.
PruneIsSafe ==
    [][\A cutoff, now \in Times :
        prune_before(cutoff, now) =>
            LET gone == DOMAIN audit \ DOMAIN audit'
            IN  /\ \A s \in gone : audit[s].cols.ts < cutoff
                /\ \A s \in gone, k \in DOMAIN audit \ gone : s < k
                /\ Cardinality(gone) <= MaxPrune
                /\ head_seq \notin gone]_vars

\* A trail that verifies against a record noted when it verified still holds,
\* unchanged, every record it had then, but for those retention removed: also
\* after an older copy of the database was put back and grew again.
AnchorProvesHistory ==
    /\ anchor.seq # 0
    /\ verify_chain(anchor.rows)
    /\ verify_against(audit, anchor.seq, anchor.hash)
    =>
        \A s \in DOMAIN anchor.rows :
            s >= Min(DOMAIN audit) => s \in DOMAIN audit /\ audit[s] = anchor.rows[s]

\* After a retention run that stopped at MaxPrune the next run continues:
\* the number it would delete up to is a record of the table.
RetentionContinues ==
    \A cutoff, now \in Times :
        /\ prune_due(cutoff, now)
        /\ prune_last(cutoff) = Min(DOMAIN audit) + MaxPrune - 1
        => prune_last(cutoff) \in DOMAIN audit
-------------------------------------------------------------------------------
\* Untampered, the store implements the abstract log.
Log == INSTANCE AuditLog WITH
    size <- chain_head.seq,
    entry <- [s \in DOMAIN written |-> written[s].body],
    gone <- IF DOMAIN audit = {} THEN 0 ELSE Min(DOMAIN audit) - 1

\* Every step of the writer is a step of the abstract log, or leaves it alone.
ImplementsLog == Log!LogSpec
================================================================================
