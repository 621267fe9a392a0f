--------------------------- MODULE AuditStoreProofs ---------------------------
(***************************************************************************)
(* Proofs about AuditStore for every value of its constants: the inductive *)
(* invariant IInv, and from it that untampered trails verify, that         *)
(* verified trails are authentic, also against a record noted down before, *)
(* that numbers are never reused, that a cut is evident, that retention is *)
(* safe, and that the store implements the log.                            *)
(***************************************************************************)
EXTENDS AuditStore, TLAPS, WellFoundedInduction, FiniteSetTheorems

IsRow(row, s) == row = Row(row.body, row.prev_hash, s)

RowShape(row) ==
    row = [cols |-> row.cols, body |-> row.body, prev_hash |-> row.prev_hash, hash |-> row.hash]

\* Numbers: rows of the table lie at or below the chain head, the history has
\* no hole and ends at the chain head unless an older copy was put back, and
\* an open writer continues at the chain head.
NumbersInv ==
    /\ DOMAIN audit \subseteq 1 .. chain_head.seq
    /\ \E n \in chain_head.seq .. MaxSeq : DOMAIN written = 1 .. n
    /\ "restore" \notin Attacks => DOMAIN written = 1 .. chain_head.seq
    /\ open => last_seq = chain_head.seq
    /\ ~open => last_hash = GENESIS_HASH

\* Hashes: what was written is well formed, and the table, however it was
\* tampered with, holds no hash that was not written at or below the head.
HashesInv ==
    /\ \A s \in DOMAIN written : IsRow(written[s], s)
    /\ \A s \in DOMAIN audit :
        /\ RowShape(audit[s])
        /\ \E x \in 1 .. chain_head.seq : audit[s].hash = written[x].hash

\* The rows of the open transaction continue the chain at the writer's head.
TxInv ==
    tx.on =>
        /\ open
        /\ last_seq <= tx.seq
        /\ \A s \in DOMAIN tx.rows :
            /\ IsRow(tx.rows[s], s)
            /\ tx.rows[s].prev_hash = IF s = last_seq + 1 THEN last_hash ELSE tx.rows[s - 1].hash
        /\ tx.hash = IF tx.seq = last_seq THEN last_hash ELSE tx.rows[tx.seq].hash

\* T holds the records f .. n of one chain, linked to each other, and when it
\* does not start with record 1 a retention record vouches for its start.
Piece(T, f, n) ==
    /\ DOMAIN T = f .. n
    /\ \A s \in f .. n : IsRow(T[s], s)
    /\ \A s \in f + 1 .. n : T[s].prev_hash = T[s - 1].hash
    /\ f = 1 /\ n >= 1 => T[1].prev_hash = GENESIS_HASH
    /\ f # 1 => \E s \in f .. n :
                    /\ T[s].body.kind = "retention_pruned"
                    /\ T[s].body.last_seq = f - 1
                    /\ T[s].body.last_hash = T[f].prev_hash

\* An untampered table is one unbroken piece of the chain up to its head.
UntamperedInv ==
    /\ Attacks = {} => tampered = 0
    /\ tampered = 0 =>
        /\ \E f \in 1 .. chain_head.seq + 1 : Piece(audit, f, chain_head.seq)
        /\ chain_head.seq = 0 => chain_head.hash = GENESIS_HASH /\ DOMAIN audit = {}
        /\ chain_head.seq # 0 => /\ chain_head.seq \in DOMAIN audit
                                 /\ chain_head.hash = audit[chain_head.seq].hash
        /\ open => last_hash = chain_head.hash

IInv == TypeOK /\ NumbersInv /\ HashesInv /\ TxInv /\ UntamperedInv
-------------------------------------------------------------------------------
\* The order < on the natural numbers, as a relation, is well founded.
LEMMA LessOnNat ==
    \E R : IsWellFoundedOn(R, Nat) /\ \A x, y \in Nat : <<y, x>> \in R <=> y < x
<1>1. \A x, y \in Nat : <<y, x>> \in OpToRel(<, Nat) <=> y < x
  BY DEF OpToRel
<1> WITNESS OpToRel(<, Nat)
<1> QED BY <1>1, NatLessThanWellFounded

\* A nonempty set of natural numbers has a least element.
LEMMA LeastNat ==
    ASSUME NEW S \in SUBSET Nat, S # {}
    PROVE  \E x \in S : \A y \in S : x <= y
<1>1. PICK R : IsWellFoundedOn(R, Nat) /\ \A x, y \in Nat : <<y, x>> \in R <=> y < x
  BY LessOnNat
<1>2. PICK x \in S : \A y \in S : ~(<<y, x>> \in R)
  BY <1>1, WFMin
<1>3. ASSUME NEW y \in S PROVE x <= y
  <2>1. ~(y < x)
    BY <1>1, <1>2, Zenon
  <2> QED BY <2>1
<1> QED BY <1>3

\* Min finds it.
LEMMA MinNat ==
    ASSUME NEW S \in SUBSET Nat, S # {}
    PROVE  Min(S) \in S /\ \A y \in S : Min(S) <= y
  BY LeastNat DEF Min

\* A nonempty bounded set of natural numbers has a greatest element: Max.
LEMMA MaxNat ==
    ASSUME NEW N \in Nat, NEW S \in SUBSET (0 .. N), S # {}
    PROVE  Max(S) \in S /\ \A y \in S : y <= Max(S)
<1> DEFINE T == {n \in Nat : N - n \in S}
<1>1. T \in SUBSET Nat /\ T # {}
  <2>1. PICK s \in S : TRUE OBVIOUS
  <2>2. N - s \in T OBVIOUS
  <2> QED BY <2>2
<1>2. PICK m \in T : \A y \in T : m <= y
  BY <1>1, LeastNat
<1>3. N - m \in S /\ \A y \in S : y <= N - m
  <2>1. \A y \in S : N - y \in T OBVIOUS
  <2> QED BY <1>2, <2>1
<1>4. \E x \in S : \A y \in S : x >= y BY <1>3
<1> QED BY <1>4 DEF Max

\* Min of two numbers.
LEMMA MinPair ==
    ASSUME NEW a \in Int, NEW b \in Int
    PROVE  /\ Min({a, b}) \in {a, b}
           /\ Min({a, b}) <= a /\ Min({a, b}) <= b
<1>1. \E x \in {a, b} : \A y \in {a, b} : x =< y OBVIOUS
<1> QED BY <1>1 DEF Min

\* Min of an interval.
LEMMA MinInterval ==
    ASSUME NEW f \in Nat, NEW n \in Nat, f <= n
    PROVE  Min(f .. n) = f
<1>1. f .. n \in SUBSET Nat /\ f \in f .. n OBVIOUS
<1>2. Min(f .. n) \in f .. n /\ Min(f .. n) <= f BY <1>1, MinNat
<1> QED BY <1>2

\* What Over, Keep and OneRow hold.
LEMMA OverFacts ==
    ASSUME NEW f, NEW g
    PROVE  /\ DOMAIN Over(f, g) = DOMAIN f \cup DOMAIN g
           /\ \A s \in DOMAIN f : Over(f, g)[s] = f[s]
           /\ \A s \in DOMAIN g \ DOMAIN f : Over(f, g)[s] = g[s]
  BY DEF Over

\* What deleting rows leaves: the rows kept, unchanged (DELETE in prune_before).
LEMMA KeepFacts ==
    ASSUME NEW f, NEW S
    PROVE  /\ DOMAIN Keep(f, S) = DOMAIN f \cap S
           /\ \A s \in DOMAIN f \cap S : Keep(f, S)[s] = f[s]
  BY DEF Keep

\* A table of one inserted row holds that row under its number (insert).
LEMMA OneRowFacts ==
    ASSUME NEW s, NEW b, NEW p
    PROVE  /\ DOMAIN OneRow(s, b, p) = {s}
           /\ IsRow(OneRow(s, b, p)[s], s)
           /\ OneRow(s, b, p)[s].body = b
           /\ OneRow(s, b, p)[s].prev_hash = p
  BY DEF OneRow, IsRow, Row
-------------------------------------------------------------------------------
\* The initial state.
LEMMA InitIInv == Init => IInv
<1> SUFFICES ASSUME Init PROVE IInv OBVIOUS
<1> USE StoreAssumption DEF Init, StoreAssumption
<1>1. DOMAIN NoRows = {} BY DEF NoRows
<1>2. TypeOK
  <2>1. chain_head.seq \in 0 .. MaxSeq /\ chain_head.hash \in Hash /\ last_hash \in Hash BY DEF Hash
  <2>2. open \in BOOLEAN BY Zenon
  <2>7. last_seq \in 0 .. MaxSeq OBVIOUS
  <2>3. DOMAIN audit \subseteq 1 .. MaxSeq /\ DOMAIN written \subseteq 1 .. MaxSeq BY <1>1
  <2>4. tx.on \in BOOLEAN /\ tx.seq \in 0 .. MaxSeq BY DEF NoTx
  <2>5. DOMAIN tx.rows = (IF tx.on THEN last_seq + 1 .. tx.seq ELSE {}) BY <1>1 DEF NoTx
  <2>6. tampered \in 0 .. MaxTampers /\ anchor.seq \in 0 .. MaxSeq OBVIOUS
  <2> QED BY <2>1, <2>2, <2>3, <2>4, <2>5, <2>6, <2>7 DEF TypeOK
<1>3. NumbersInv BY <1>1 DEF NumbersInv
<1>4. HashesInv BY <1>1 DEF HashesInv
<1>5. TxInv BY DEF TxInv, NoTx
<1>6. UntamperedInv
  <2>1. Piece(audit, 1, 0) BY <1>1 DEF Piece
  <2> QED BY <1>1, <2>1 DEF UntamperedInv
<1> QED BY <1>2, <1>3, <1>4, <1>5, <1>6 DEF IInv
-------------------------------------------------------------------------------
\* A row that was built as one has the four columns of a row.
LEMMA IsRowShape ==
    ASSUME NEW row, NEW s, IsRow(row, s)
    PROVE  RowShape(row)
  BY DEF IsRow, RowShape, Row

\* A committed transaction whose new rows follow the chain head keeps the
\* numbers, the hashes and the types of the database and the writer.
LEMMA CommittedKeeps ==
    ASSUME IInv, NEW rows, NEW new, NEW seq, NEW hash, open',
           Committed(rows, new, seq, hash),
           seq \in 1 .. MaxSeq, seq > chain_head.seq,
           DOMAIN new = chain_head.seq + 1 .. seq,
           \A s \in DOMAIN new : IsRow(new[s], s),
           hash = new[seq].hash,
           DOMAIN rows \subseteq DOMAIN new \cup DOMAIN audit,
           \A s \in DOMAIN rows : rows[s] = IF s \in DOMAIN new THEN new[s] ELSE audit[s]
    PROVE  /\ NumbersInv' /\ HashesInv'
           /\ chain_head'.seq \in 0 .. MaxSeq /\ chain_head'.hash \in Hash'
           /\ last_seq' \in 0 .. MaxSeq /\ last_hash' \in Hash'
           /\ DOMAIN audit' \subseteq 1 .. MaxSeq /\ DOMAIN written' \subseteq 1 .. MaxSeq
<1> USE StoreAssumption DEF StoreAssumption
<1>1. /\ audit' = rows /\ chain_head' = [seq |-> seq, hash |-> hash]
      /\ last_seq' = seq /\ last_hash' = hash /\ written' = Over(new, written)
  BY DEF Committed
<1>2. chain_head.seq \in 0 .. MaxSeq /\ chain_head'.seq = seq /\ chain_head'.hash = hash
  BY <1>1 DEF IInv, TypeOK
<1>3. PICK n \in chain_head.seq .. MaxSeq : DOMAIN written = 1 .. n
  BY DEF IInv, NumbersInv
<1>4. DOMAIN audit \subseteq 1 .. chain_head.seq
  BY DEF IInv, NumbersInv
<1>5. /\ DOMAIN written' = DOMAIN new \cup DOMAIN written
      /\ \A s \in DOMAIN new : written'[s] = new[s]
      /\ \A s \in DOMAIN written \ DOMAIN new : written'[s] = written[s]
  BY <1>1 DEF Over
<1>6. NumbersInv'
  <2>1. DOMAIN audit' \subseteq 1 .. chain_head'.seq
    BY <1>1, <1>2, <1>4
  <2>2. \E m \in chain_head'.seq .. MaxSeq : DOMAIN written' = 1 .. m
    <3>1. CASE n <= seq
      <4>1. DOMAIN written' = 1 .. seq BY <1>2, <1>3, <1>5, <3>1
      <4> QED BY <1>2, <4>1
    <3>2. CASE n > seq
      <4>1. DOMAIN written' = 1 .. n BY <1>2, <1>3, <1>5, <3>2
      <4> QED BY <1>2, <3>2, <4>1
    <3> QED BY <3>1, <3>2, <1>2, <1>3
  <2>3. "restore" \notin Attacks => DOMAIN written' = 1 .. chain_head'.seq
    BY <1>2, <1>5 DEF IInv, NumbersInv
  <2> QED BY <1>1, <1>2, <2>1, <2>2, <2>3 DEF NumbersInv
<1>7. \A s \in DOMAIN written' : IsRow(written'[s], s)
  BY <1>5 DEF IInv, HashesInv
<1>8. ASSUME NEW s \in DOMAIN audit'
      PROVE  RowShape(audit'[s]) /\ \E x \in 1 .. chain_head'.seq : audit'[s].hash = written'[x].hash
  <2>1. CASE s \in DOMAIN new
    BY <1>1, <1>2, <1>5, <2>1, IsRowShape
  <2>2. CASE s \notin DOMAIN new
    <3>1. s \in DOMAIN audit /\ audit'[s] = audit[s] BY <1>1, <2>2
    <3>2. RowShape(audit[s]) BY <3>1 DEF IInv, HashesInv
    <3>3. PICK x \in 1 .. chain_head.seq : audit[s].hash = written[x].hash
      BY <3>1 DEF IInv, HashesInv
    <3>4. x \in DOMAIN written \ DOMAIN new BY <1>2, <1>3
    <3> QED BY <1>2, <1>5, <3>1, <3>2, <3>3, <3>4
  <2> QED BY <2>1, <2>2
<1>9. HashesInv' BY <1>7, <1>8 DEF HashesInv
<1>10. hash \in Hash'
  <2>1. hash = written'[seq].hash BY <1>2, <1>5
  <2> QED BY <1>2, <2>1 DEF Hash
<1> QED BY <1>1, <1>2, <1>3, <1>4, <1>5, <1>6, <1>9, <1>10

\* Tampering that only drops rows, or overwrites one by a row with a hash the
\* table holds, keeps the invariant of the hashes.
LEMMA TamperKeeps ==
    ASSUME IInv, NEW rows, Tamper(rows), UNCHANGED chain_head, Attacks # {},
           DOMAIN rows \subseteq DOMAIN audit,
           \A s \in DOMAIN rows :
                RowShape(rows[s]) /\ \E r \in DOMAIN audit : rows[s].hash = audit[r].hash
    PROVE  IInv'
<1> USE StoreAssumption DEF StoreAssumption
<1>1. /\ audit' = rows /\ tampered' = tampered + 1 /\ tampered < MaxTampers
      /\ UNCHANGED <<open, last_seq, last_hash, tx, written, anchor>>
  BY DEF Tamper, writer
<1>2. TypeOK'
  BY <1>1 DEF IInv, TypeOK, Hash
<1>3. NumbersInv'
  BY <1>1 DEF IInv, NumbersInv
<1>4. HashesInv'
  BY <1>1 DEF IInv, HashesInv
<1>5. TxInv'
  BY <1>1 DEF IInv, TxInv
<1>6. UntamperedInv'
  <2>1. tampered' # 0 BY <1>1 DEF IInv, TypeOK
  <2> QED BY <2>1 DEF UntamperedInv
<1> QED BY <1>2, <1>3, <1>4, <1>5, <1>6 DEF IInv
-------------------------------------------------------------------------------
\* New rows that continue a piece of the chain at its head make it longer.
LEMMA PieceExtends ==
    ASSUME NEW T, NEW new, NEW n \in Nat, NEW m \in Nat, NEW f \in 1 .. n + 1, NEW h,
           Piece(T, f, n), n < m,
           n = 0 => h = GENESIS_HASH,
           n # 0 => n \in DOMAIN T /\ h = T[n].hash,
           DOMAIN new = n + 1 .. m,
           \A s \in DOMAIN new :
                /\ IsRow(new[s], s)
                /\ new[s].prev_hash = IF s = n + 1 THEN h ELSE new[s - 1].hash
    PROVE  Piece(Over(new, T), f, m)
<1> DEFINE R == Over(new, T)
<1>1. DOMAIN T = f .. n /\ DOMAIN R = f .. m
  BY DEF Piece, Over
<1>2. \A s \in f .. m : R[s] = IF s > n THEN new[s] ELSE T[s]
  BY <1>1 DEF Over
<1> HIDE DEF R
<1>3. \A s \in f .. m : IsRow(R[s], s)
  BY <1>1, <1>2 DEF Piece
<1>4. \A s \in f + 1 .. m : R[s].prev_hash = R[s - 1].hash
  <2> SUFFICES ASSUME NEW s \in f + 1 .. m PROVE R[s].prev_hash = R[s - 1].hash
    OBVIOUS
  <2>1. CASE s <= n
    BY <1>2, <2>1 DEF Piece
  <2>2. CASE s = n + 1
    <3>1. n # 0 /\ n \in f .. m /\ s \in f .. m BY <2>2
    <3>2. R[n] = T[n] /\ R[s] = new[s] BY <1>2, <2>2, <3>1
    <3> QED BY <2>2, <3>1, <3>2
  <2>3. CASE s > n + 1
    BY <1>2, <2>3
  <2> QED BY <2>1, <2>2, <2>3
<1>5. f = 1 /\ m >= 1 => R[1].prev_hash = GENESIS_HASH
  <2>1. CASE n = 0 BY <1>2, <2>1
  <2>2. CASE n # 0 BY <1>2, <2>2 DEF Piece
  <2> QED BY <2>1, <2>2
<1>6. ASSUME f # 1
      PROVE  \E s \in f .. m : /\ R[s].body.kind = "retention_pruned"
                               /\ R[s].body.last_seq = f - 1
                               /\ R[s].body.last_hash = R[f].prev_hash
  <2>1. PICK s \in f .. n : /\ T[s].body.kind = "retention_pruned"
                            /\ T[s].body.last_seq = f - 1
                            /\ T[s].body.last_hash = T[f].prev_hash
    BY <1>6 DEF Piece
  <2>2. R[s] = T[s] /\ R[f] = T[f] BY <1>2
  <2> QED BY <2>1, <2>2
<1>7. Piece(R, f, m) BY <1>1, <1>3, <1>4, <1>5, <1>6 DEF Piece
<1> QED BY <1>7 DEF R

\* Retention: what is left of a piece once its records up to l are gone, with
\* the retention record behind it, is a piece again.
LEMMA PiecePrunes ==
    ASSUME NEW T, NEW R, NEW n \in Nat, NEW f \in 1 .. n, NEW l \in f .. n - 1, NEW t, NEW d,
           Piece(T, f, n),
           R = Over(OneRow(n + 1, RetentionPruned(t, d, l, T[l].hash), T[n].hash),
                    Keep(T, DOMAIN T \ {s \in DOMAIN T : s <= l}))
    PROVE  Piece(R, l + 1, n + 1)
<1> DEFINE body == RetentionPruned(t, d, l, T[l].hash)
           new == OneRow(n + 1, body, T[n].hash)
           kept == Keep(T, DOMAIN T \ {s \in DOMAIN T : s <= l})
<1>1. DOMAIN T = f .. n BY DEF Piece
<1>2. DOMAIN kept = l + 1 .. n /\ \A s \in l + 1 .. n : kept[s] = T[s]
  BY <1>1 DEF Keep
<1>3. DOMAIN new = {n + 1} /\ IsRow(new[n + 1], n + 1)
      /\ new[n + 1].body = body /\ new[n + 1].prev_hash = T[n].hash
  BY DEF OneRow, IsRow, Row
<1>4. R = Over(new, kept) OBVIOUS
<1> HIDE DEF new, kept
<1>5. DOMAIN R = l + 1 .. n + 1
  BY <1>2, <1>3, <1>4 DEF Over
<1>6. R[n + 1] = new[n + 1] /\ \A s \in l + 1 .. n : R[s] = T[s]
  BY <1>2, <1>3, <1>4, <1>5 DEF Over
<1>7. ASSUME NEW s \in l + 1 .. n + 1 PROVE IsRow(R[s], s)
  <2>1. CASE s = n + 1 BY <1>3, <1>6, <2>1
  <2>2. CASE s # n + 1
    <3>1. s \in l + 1 .. n /\ s \in f .. n BY <2>2
    <3> QED BY <1>6, <3>1 DEF Piece
  <2> QED BY <2>1, <2>2
<1>8. ASSUME NEW s \in (l + 1) + 1 .. n + 1 PROVE R[s].prev_hash = R[s - 1].hash
  <2>1. CASE s = n + 1
    <3>1. s - 1 = n /\ n \in l + 1 .. n BY <2>1
    <3> QED BY <1>3, <1>6, <2>1, <3>1
  <2>2. CASE s # n + 1
    <3>1. s \in l + 1 .. n /\ s - 1 \in l + 1 .. n /\ s \in f + 1 .. n BY <2>2
    <3>2. T[s].prev_hash = T[s - 1].hash BY <3>1 DEF Piece
    <3> QED BY <1>6, <3>1, <3>2
  <2> QED BY <2>1, <2>2
<1>9. /\ R[n + 1].body.kind = "retention_pruned"
      /\ R[n + 1].body.last_seq = l
      /\ R[n + 1].body.last_hash = R[l + 1].prev_hash
  BY <1>3, <1>6 DEF Piece, RetentionPruned
<1>10. l + 1 # 1 /\ (l + 1) - 1 = l /\ n + 1 \in l + 1 .. n + 1 OBVIOUS
<1> QED BY <1>5, <1>7, <1>8, <1>9, <1>10 DEF Piece

\* The newest row of the table.
LEMMA HeadSeq ==
    ASSUME IInv
    PROVE  /\ head_seq \in 0 .. chain_head.seq
           /\ DOMAIN audit # {} => head_seq \in DOMAIN audit /\ head_seq = Max(DOMAIN audit)
           /\ head_seq # 0 => DOMAIN audit # {}
           /\ tampered = 0 => head_seq = chain_head.seq
<1> USE StoreAssumption DEF StoreAssumption
<1>1. chain_head.seq \in Nat /\ DOMAIN audit \subseteq 1 .. chain_head.seq
  BY DEF IInv, TypeOK, NumbersInv
<1>2. CASE DOMAIN audit = {}
  BY <1>1, <1>2 DEF head_seq, IInv, UntamperedInv
<1>3. CASE DOMAIN audit # {}
  <2>1. DOMAIN audit \in SUBSET (0 .. chain_head.seq) BY <1>1
  <2>2. Max(DOMAIN audit) \in DOMAIN audit /\ \A y \in DOMAIN audit : y <= Max(DOMAIN audit)
    BY <1>1, <1>3, <2>1, MaxNat
  <2> QED BY <1>1, <1>3, <2>2 DEF head_seq, IInv, UntamperedInv
<1> QED BY <1>2, <1>3
-------------------------------------------------------------------------------
\* A transaction of one row behind the chain head, on a table of old rows.
LEMMA InsertOneKeeps ==
    ASSUME IInv, NEW K, NEW hash, NEW body,
           chain_head.seq < MaxSeq, open',
           InsertOne(Keep(audit, K), chain_head.seq, hash, body)
    PROVE  /\ NumbersInv' /\ HashesInv'
           /\ chain_head'.seq \in 0 .. MaxSeq /\ chain_head'.hash \in Hash'
           /\ last_seq' \in 0 .. MaxSeq /\ last_hash' \in Hash'
           /\ DOMAIN audit' \subseteq 1 .. MaxSeq /\ DOMAIN written' \subseteq 1 .. MaxSeq
<1> USE StoreAssumption DEF StoreAssumption
<1> DEFINE n == chain_head.seq + 1
           new == OneRow(n, body, hash)
           rows == Over(new, Keep(audit, K))
<1>1. chain_head.seq \in 0 .. MaxSeq BY DEF IInv, TypeOK
<1>2. Committed(rows, new, n, new[n].hash) BY DEF InsertOne
<1>3. DOMAIN new = {n} /\ IsRow(new[n], n) BY DEF OneRow, IsRow, Row
<1>4. DOMAIN new = chain_head.seq + 1 .. n BY <1>1, <1>3
<1>5. n \in 1 .. MaxSeq /\ n > chain_head.seq BY <1>1
<1>6. DOMAIN rows \subseteq DOMAIN new \cup DOMAIN audit
  BY DEF Over, Keep
<1>7. \A s \in DOMAIN rows : rows[s] = IF s \in DOMAIN new THEN new[s] ELSE audit[s]
  BY DEF Over, Keep
<1>8. \A s \in DOMAIN new : IsRow(new[s], s) BY <1>3
<1> HIDE DEF n, new, rows
<1> QED BY <1>2, <1>4, <1>5, <1>6, <1>7, <1>8, CommittedKeeps

\* Opening the database.
LEMMA OpenKeeps ==
    ASSUME IInv, NEW t, Open(t)
    PROVE  IInv'
<1> USE StoreAssumption DEF StoreAssumption
<1>1. ~tx.on /\ open' = TRUE /\ UNCHANGED <<tx, tampered, anchor>>
  BY DEF Open, IInv, TxInv
<1>2. /\ head_seq \in 0 .. chain_head.seq
      /\ DOMAIN audit # {} => head_seq \in DOMAIN audit
      /\ head_seq # 0 => DOMAIN audit # {}
      /\ tampered = 0 => head_seq = chain_head.seq
  BY HeadSeq
<1>3. TxInv' BY <1>1 DEF TxInv
<1>4. /\ open' \in BOOLEAN /\ tx'.on \in BOOLEAN /\ tx'.seq \in 0 .. MaxSeq
      /\ tampered' \in 0 .. MaxTampers /\ anchor'.seq \in 0 .. MaxSeq
      /\ DOMAIN tx'.rows = (IF tx'.on THEN last_seq' + 1 .. tx'.seq ELSE {})
  BY <1>1 DEF IInv, TypeOK
<1>5. CASE Truncated
  <2>1. /\ chain_head.seq < MaxSeq
        /\ InsertOne(audit, chain_head.seq, chain_head.hash,
                     TrailTruncated(t, chain_head.seq, head_seq))
    BY <1>5 DEF Open
  <2>2. Over(OneRow(chain_head.seq + 1, TrailTruncated(t, chain_head.seq, head_seq), chain_head.hash), audit)
        = Over(OneRow(chain_head.seq + 1, TrailTruncated(t, chain_head.seq, head_seq), chain_head.hash),
               Keep(audit, DOMAIN audit))
    BY DEF Over, Keep
  <2>3. InsertOne(Keep(audit, DOMAIN audit), chain_head.seq, chain_head.hash,
                  TrailTruncated(t, chain_head.seq, head_seq))
    BY <2>1, <2>2 DEF InsertOne
  <2>4. /\ NumbersInv' /\ HashesInv'
        /\ chain_head'.seq \in 0 .. MaxSeq /\ chain_head'.hash \in Hash'
        /\ last_seq' \in 0 .. MaxSeq /\ last_hash' \in Hash'
        /\ DOMAIN audit' \subseteq 1 .. MaxSeq /\ DOMAIN written' \subseteq 1 .. MaxSeq
    BY <1>1, <2>1, <2>3, InsertOneKeeps
  <2>5. tampered' # 0
    BY <1>1, <1>2, <1>5 DEF Truncated
  <2>6. UntamperedInv' BY <1>1, <2>5 DEF IInv, UntamperedInv
  <2>7. TypeOK' BY <1>4, <2>4 DEF TypeOK
  <2> QED BY <1>3, <2>4, <2>6, <2>7 DEF IInv
<1>6. CASE ~Truncated
  <2>1. /\ last_seq' = head_seq
        /\ last_hash' = IF head_seq = 0 THEN GENESIS_HASH ELSE audit[head_seq].hash
        /\ UNCHANGED <<audit, chain_head, written>>
    BY <1>6 DEF Open, database
  <2>2. head_seq = chain_head.seq /\ chain_head.seq \in 0 .. MaxSeq
    BY <1>2, <1>6 DEF Truncated, IInv, TypeOK
  <2>3. last_hash' \in Hash'
    <3>1. CASE head_seq = 0 BY <2>1, <3>1 DEF Hash
    <3>2. CASE head_seq # 0
      <4>1. PICK x \in 1 .. chain_head.seq : audit[head_seq].hash = written[x].hash
        BY <1>2, <3>2 DEF IInv, HashesInv
      <4> QED BY <2>1, <3>2, <4>1 DEF Hash
    <3> QED BY <3>1, <3>2
  <2>4. TypeOK'
    BY <1>4, <2>1, <2>2, <2>3 DEF IInv, TypeOK, Hash
  <2>5. NumbersInv' BY <1>1, <2>1, <2>2 DEF IInv, NumbersInv
  <2>6. HashesInv' BY <2>1 DEF IInv, HashesInv
  <2>7. UntamperedInv'
    <3> SUFFICES ASSUME tampered = 0 PROVE UntamperedInv'
      BY <1>1 DEF IInv, UntamperedInv
    <3>1. last_hash' = chain_head.hash
      BY <2>1, <2>2 DEF IInv, UntamperedInv
    <3> QED BY <1>1, <2>1, <3>1 DEF IInv, UntamperedInv
  <2> QED BY <1>3, <2>4, <2>5, <2>6, <2>7 DEF IInv
<1> QED BY <1>5, <1>6

\* The statements of an append, up to its COMMIT.
LEMMA TxKeeps ==
    ASSUME IInv, Begin \/ Rollback \/ \E t \in Times : Insert(t)
    PROVE  IInv'
<1> USE StoreAssumption DEF StoreAssumption
<1>1. UNCHANGED <<open, last_seq, last_hash, audit, chain_head, written, tampered, anchor>>
  BY DEF Begin, Rollback, Insert, database
<1>2. NumbersInv' BY <1>1 DEF IInv, NumbersInv
<1>3. HashesInv' BY <1>1 DEF IInv, HashesInv
<1>4. UntamperedInv' BY <1>1 DEF IInv, UntamperedInv
<1>5. last_seq \in 0 .. MaxSeq BY DEF IInv, TypeOK
<1>6. /\ tx'.on \in BOOLEAN /\ tx'.seq \in 0 .. MaxSeq
      /\ DOMAIN tx'.rows = (IF tx'.on THEN last_seq' + 1 .. tx'.seq ELSE {})
      /\ TxInv'
  <2>1. CASE Begin
    <3>1. tx' = [on |-> TRUE, rows |-> NoRows, seq |-> last_seq, hash |-> last_hash] /\ open
      BY <2>1 DEF Begin
    <3>2. DOMAIN tx'.rows = {} BY <3>1 DEF NoRows
    <3> QED BY <1>1, <1>5, <3>1, <3>2 DEF TxInv
  <2>2. CASE Rollback
    <3>1. tx' = NoTx BY <2>2 DEF Rollback
    <3> QED BY <3>1 DEF TxInv, NoTx, NoRows
  <2>3. ASSUME NEW t \in Times, Insert(t)
        PROVE  /\ tx'.on \in BOOLEAN /\ tx'.seq \in 0 .. MaxSeq
               /\ DOMAIN tx'.rows = (IF tx'.on THEN last_seq' + 1 .. tx'.seq ELSE {})
               /\ TxInv'
    <3> DEFINE n == tx.seq + 1
               new == OneRow(n, Event(t), tx.hash)
    <3>1. tx.on /\ tx.seq < MaxSeq /\ tx' = [on |-> TRUE, rows |-> Over(new, tx.rows), seq |-> n, hash |-> new[n].hash]
      BY <2>3 DEF Insert
    <3>2. DOMAIN new = {n} /\ IsRow(new[n], n) /\ new[n].prev_hash = tx.hash
      BY DEF OneRow, IsRow, Row
    <3> HIDE DEF new
    <3>3. tx.seq \in 0 .. MaxSeq /\ last_seq <= tx.seq /\ DOMAIN tx.rows = last_seq + 1 .. tx.seq
      BY <3>1 DEF IInv, TypeOK, TxInv
    <3>4. DOMAIN tx'.rows = last_seq + 1 .. n
      <4>1. DOMAIN tx'.rows = DOMAIN new \cup DOMAIN tx.rows BY <3>1 DEF Over
      <4>2. tx.seq \in Nat /\ last_seq \in Nat /\ last_seq <= tx.seq BY <1>5, <3>3
      <4>3. (last_seq + 1 .. tx.seq) \cup {tx.seq + 1} = last_seq + 1 .. tx.seq + 1 BY ONLY <4>2
      <4> QED BY ONLY <3>2, <3>3, <4>1, <4>3
    <3>5. tx'.rows[n] = new[n] /\ \A s \in last_seq + 1 .. tx.seq : tx'.rows[s] = tx.rows[s]
      <4>1. tx'.rows = Over(new, tx.rows) /\ n \in Nat BY <3>1, <3>3
      <4>2. n \in DOMAIN new /\ \A s \in last_seq + 1 .. tx.seq : s \in DOMAIN tx.rows /\ s \notin DOMAIN new
        BY <1>5, <3>2, <3>3
      <4> QED BY <4>1, <4>2 DEF Over
    <3>6. tx'.hash = tx'.rows[n].hash /\ tx'.on /\ tx'.seq = n
      BY <3>1, <3>5
    <3>7. ASSUME NEW s \in last_seq + 1 .. n
          PROVE  /\ IsRow(tx'.rows[s], s)
                 /\ tx'.rows[s].prev_hash = IF s = last_seq + 1 THEN last_hash ELSE tx'.rows[s - 1].hash
      <4>1. CASE s = n
        <5>1. tx.hash = IF tx.seq = last_seq THEN last_hash ELSE tx.rows[tx.seq].hash
          BY <3>1 DEF IInv, TxInv
        <5>2. tx.seq # last_seq => tx.seq \in last_seq + 1 .. tx.seq BY <1>5, <3>3
        <5>3. s - 1 = tx.seq BY <3>3, <4>1
        <5>4. s = last_seq + 1 <=> tx.seq = last_seq BY <1>5, <3>3, <4>1
        <5> QED BY <3>2, <3>5, <4>1, <5>1, <5>2, <5>3, <5>4
      <4>2. CASE s # n
        <5>1. s \in last_seq + 1 .. tx.seq /\ (s # last_seq + 1 => s - 1 \in last_seq + 1 .. tx.seq)
          BY <1>5, <3>3, <4>2
        <5>2. /\ IsRow(tx.rows[s], s)
              /\ tx.rows[s].prev_hash = IF s = last_seq + 1 THEN last_hash ELSE tx.rows[s - 1].hash
          BY <3>1, <3>3, <5>1 DEF IInv, TxInv
        <5> QED BY <3>5, <5>1, <5>2
      <4> QED BY <4>1, <4>2
    <3>8. open /\ last_seq < n BY <1>5, <3>1, <3>3 DEF IInv, TxInv
    <3>9. TxInv'
      BY <1>1, <1>5, <3>3, <3>4, <3>6, <3>7, <3>8 DEF TxInv
    <3>10. tx'.on = TRUE /\ n \in 0 .. MaxSeq BY <3>1, <3>3
    <3> QED BY <1>1, <3>4, <3>6, <3>9, <3>10
  <2> QED BY <2>1, <2>2, <2>3
<1>7. TypeOK' BY <1>1, <1>6 DEF IInv, TypeOK, Hash
<1> QED BY <1>2, <1>3, <1>4, <1>6, <1>7 DEF IInv

\* COMMIT of an append.
LEMMA CommitKeeps ==
    ASSUME IInv, Commit
    PROVE  IInv'
<1> USE StoreAssumption DEF StoreAssumption
<1>1. /\ tx.on /\ tx.seq > last_seq /\ tx' = NoTx /\ UNCHANGED <<open, tampered, anchor>>
      /\ Committed(Over(tx.rows, audit), tx.rows, tx.seq, tx.hash)
  BY DEF Commit
<1>2. /\ open /\ last_seq = chain_head.seq /\ chain_head.seq \in 0 .. MaxSeq
      /\ tx.seq \in 0 .. MaxSeq /\ DOMAIN tx.rows = chain_head.seq + 1 .. tx.seq
  BY <1>1 DEF IInv, TypeOK, TxInv, NumbersInv
<1>3. /\ \A s \in DOMAIN tx.rows :
            /\ IsRow(tx.rows[s], s)
            /\ tx.rows[s].prev_hash = IF s = chain_head.seq + 1 THEN last_hash ELSE tx.rows[s - 1].hash
      /\ tx.hash = tx.rows[tx.seq].hash
  BY <1>1, <1>2 DEF IInv, TxInv
<1> DEFINE rows == Over(tx.rows, audit)
<1>4. /\ DOMAIN rows \subseteq DOMAIN tx.rows \cup DOMAIN audit
      /\ \A s \in DOMAIN rows : rows[s] = IF s \in DOMAIN tx.rows THEN tx.rows[s] ELSE audit[s]
  BY DEF Over
<1>5. tx.seq \in 1 .. MaxSeq /\ tx.seq > chain_head.seq BY <1>1, <1>2
<1>6. Committed(rows, tx.rows, tx.seq, tx.hash) BY <1>1
<1> HIDE DEF rows
<1>7. /\ NumbersInv' /\ HashesInv'
      /\ chain_head'.seq \in 0 .. MaxSeq /\ chain_head'.hash \in Hash'
      /\ last_seq' \in 0 .. MaxSeq /\ last_hash' \in Hash'
      /\ DOMAIN audit' \subseteq 1 .. MaxSeq /\ DOMAIN written' \subseteq 1 .. MaxSeq
  <2>1. open' BY <1>1, <1>2
  <2> QED BY <1>2, <1>3, <1>4, <1>5, <1>6, <2>1, CommittedKeeps
<1>8. TypeOK' /\ TxInv'
  BY <1>1, <1>7 DEF IInv, TypeOK, TxInv, NoTx, NoRows
<1>9. UntamperedInv'
  <2> SUFFICES ASSUME tampered = 0 PROVE UntamperedInv'
    BY <1>1 DEF IInv, UntamperedInv
  <2>1. PICK f \in 1 .. chain_head.seq + 1 : Piece(audit, f, chain_head.seq)
    BY DEF IInv, UntamperedInv
  <2>2. /\ chain_head.seq = 0 => last_hash = GENESIS_HASH
        /\ chain_head.seq # 0 => chain_head.seq \in DOMAIN audit /\ last_hash = audit[chain_head.seq].hash
    BY <1>2 DEF IInv, UntamperedInv
  <2>3. Piece(rows, f, tx.seq)
    <3>1. rows = Over(tx.rows, audit) BY DEF rows
    <3>2. chain_head.seq \in Nat /\ tx.seq \in Nat /\ chain_head.seq < tx.seq BY <1>2, <1>5
    <3> DEFINE n == chain_head.seq
               m == tx.seq
               new == tx.rows
    <3>3. n \in Nat /\ m \in Nat /\ n < m /\ f \in 1 .. n + 1 /\ Piece(audit, f, n)
      BY <2>1, <3>2
    <3>4. /\ n = 0 => last_hash = GENESIS_HASH
          /\ n # 0 => n \in DOMAIN audit /\ last_hash = audit[n].hash
      BY <2>2
    <3>5. DOMAIN new = n + 1 .. m BY <1>2
    <3>6. \A s \in DOMAIN new :
            /\ IsRow(new[s], s)
            /\ new[s].prev_hash = IF s = n + 1 THEN last_hash ELSE new[s - 1].hash
      BY <1>3
    <3>7. rows = Over(new, audit) BY <3>1
    <3> HIDE DEF n, m, new
    <3>8. Piece(Over(new, audit), f, m) BY <3>3, <3>4, <3>5, <3>6, PieceExtends
    <3> QED BY <3>7, <3>8 DEF m
  <2>4. /\ audit' = rows /\ chain_head' = [seq |-> tx.seq, hash |-> tx.hash]
        /\ last_hash' = tx.hash
    BY <1>6 DEF Committed
  <2>5. tx.seq \in DOMAIN rows /\ rows[tx.seq] = tx.rows[tx.seq]
    BY <1>2, <1>5 DEF rows, Over
  <2>6. f \in 1 .. tx.seq + 1 BY <1>2, <1>5, <2>1
  <2> QED BY <1>1, <1>3, <1>5, <2>3, <2>4, <2>5, <2>6 DEF UntamperedInv
<1> QED BY <1>7, <1>8, <1>9 DEF IInv

\* Retention never reaches the newest record.
LEMMA PruneLast ==
    ASSUME IInv, DOMAIN audit # {}, NEW cutoff
    PROVE  prune_last(cutoff) < Max(DOMAIN audit)
<1> USE StoreAssumption DEF StoreAssumption
<1> DEFINE head == Max(DOMAIN audit)
           kept == {s \in DOMAIN audit : audit[s].cols.ts >= cutoff}
           first_kept == IF kept = {} THEN head ELSE Min(kept)
           cap == Min(DOMAIN audit) + MaxPrune - 1
<1>1. chain_head.seq \in Nat /\ DOMAIN audit \in SUBSET (1 .. chain_head.seq)
  BY DEF IInv, TypeOK, NumbersInv
<1>2. head \in Nat
  BY <1>1, HeadSeq
<1>3. DOMAIN audit \in SUBSET Nat BY <1>1
<1>4. Min(DOMAIN audit) \in Nat BY <1>3, MinNat
<1>5. first_kept \in Nat
  <2>1. CASE kept = {} BY <1>2, <2>1
  <2>2. CASE kept # {}
    <3>1. kept \in SUBSET Nat BY <1>3
    <3>2. Min(kept) \in kept BY <2>2, <3>1, MinNat
    <3> QED BY <2>2, <3>1, <3>2
  <2> QED BY <2>1, <2>2
<1>6. cap \in Int BY <1>4
<1>7. prune_last(cutoff) = Min({Min({first_kept, head}) - 1, cap})
  BY DEF prune_last
<1> HIDE DEF first_kept, cap, head, kept
<1>8. Min({first_kept, head}) \in Int /\ Min({first_kept, head}) <= head
  BY <1>2, <1>5, MinPair
<1> DEFINE before == Min({first_kept, head}) - 1
<1>9. before \in Int /\ before < head BY <1>2, <1>8
<1>10. prune_last(cutoff) = Min({before, cap}) BY <1>7
<1> HIDE DEF before
<1>11. Min({before, cap}) \in Int /\ Min({before, cap}) <= before
  BY <1>6, <1>9, MinPair
<1> QED BY <1>2, <1>9, <1>10, <1>11 DEF head

\* Retention.
LEMMA PruneKeeps ==
    ASSUME IInv, NEW cutoff, NEW now, prune_before(cutoff, now)
    PROVE  IInv'
<1> USE StoreAssumption DEF StoreAssumption
<1> DEFINE last == prune_last(cutoff)
           gone == {s \in DOMAIN audit : s <= last}
           body == RetentionPruned(now, Cardinality(gone), last, audit[last].hash)
           K == DOMAIN audit \ gone
<1>1. /\ open /\ ~tx.on /\ last_seq < MaxSeq /\ last \in DOMAIN audit
      /\ InsertOne(Keep(audit, K), last_seq, last_hash, body)
      /\ UNCHANGED <<open, tx, tampered, anchor>>
  BY DEF prune_before
<1>2. last_seq = chain_head.seq /\ chain_head.seq \in 0 .. MaxSeq
  BY <1>1 DEF IInv, NumbersInv, TypeOK
<1>3. InsertOne(Keep(audit, K), chain_head.seq, last_hash, body) BY <1>1, <1>2
<1>4. last < Max(DOMAIN audit)
  BY <1>1, PruneLast
<1>5. tampered = 0 => Max(DOMAIN audit) = chain_head.seq
  BY <1>1, HeadSeq
<1> HIDE DEF last
<1>6. /\ NumbersInv' /\ HashesInv'
      /\ chain_head'.seq \in 0 .. MaxSeq /\ chain_head'.hash \in Hash'
      /\ last_seq' \in 0 .. MaxSeq /\ last_hash' \in Hash'
      /\ DOMAIN audit' \subseteq 1 .. MaxSeq /\ DOMAIN written' \subseteq 1 .. MaxSeq
  <2> HIDE DEF K, body
  <2> QED BY <1>1, <1>2, <1>3, InsertOneKeeps
<1>7. TypeOK' /\ TxInv'
  BY <1>1, <1>6 DEF IInv, TypeOK, TxInv
<1>8. UntamperedInv'
  <2> SUFFICES ASSUME tampered = 0 PROVE UntamperedInv'
    BY <1>1 DEF IInv, UntamperedInv
  <2> DEFINE n == chain_head.seq
             new == OneRow(n + 1, body, last_hash)
             rows == Over(new, Keep(audit, K))
  <2>1. PICK f \in 1 .. n + 1 : Piece(audit, f, n)
    BY DEF IInv, UntamperedInv
  <2>2. DOMAIN audit = f .. n BY <2>1 DEF Piece
  <2>3. last \in f .. n - 1 /\ f \in 1 .. n
    BY <1>1, <1>2, <1>4, <1>5, <2>2
  <2>4. last_hash = audit[n].hash
    BY <1>1, <1>2, <2>3 DEF IInv, UntamperedInv
  <2>5. Piece(rows, last + 1, n + 1)
    <3>1. rows = Over(OneRow(n + 1, RetentionPruned(now, Cardinality(gone), last, audit[last].hash),
                             audit[n].hash),
                      Keep(audit, DOMAIN audit \ {s \in DOMAIN audit : s <= last}))
      BY <2>4
    <3>2. n \in Nat BY <1>2
    <3> HIDE DEF rows, gone, n
    <3> QED BY <2>1, <2>3, <3>1, <3>2, PiecePrunes
  <2>6. /\ audit' = rows /\ chain_head' = [seq |-> n + 1, hash |-> new[n + 1].hash]
        /\ last_hash' = new[n + 1].hash
    BY <1>3 DEF InsertOne, Committed
  <2>7. n + 1 \in DOMAIN rows /\ rows[n + 1] = new[n + 1]
    BY DEF Over, OneRow
  <2>8. last + 1 \in 1 .. n + 2 /\ n + 1 # 0
    BY <1>2, <2>3
  <2> HIDE DEF rows, new
  <2> QED BY <1>1, <1>2, <2>5, <2>6, <2>7, <2>8 DEF UntamperedInv
<1> QED BY <1>6, <1>7, <1>8 DEF IInv

\* The database is closed, or a record is noted down.
LEMMA CloseNoteKeep ==
    ASSUME IInv, Close \/ Note
    PROVE  IInv'
<1> USE StoreAssumption DEF StoreAssumption
<1>1. UNCHANGED <<audit, chain_head, written, tampered>>
  BY DEF Close, Note, database
<1>2. HashesInv' BY <1>1 DEF IInv, HashesInv
<1>3. CASE Close
  <2>1. /\ open' = FALSE /\ tx' = NoTx /\ last_seq' = 0 /\ last_hash' = GENESIS_HASH
        /\ UNCHANGED anchor
    BY <1>3 DEF Close
  <2>4. open' \in BOOLEAN /\ tx'.on \in BOOLEAN BY <2>1 DEF NoTx
  <2>5. tx'.seq = 0 /\ DOMAIN tx'.rows = {} /\ ~tx'.on BY <2>1 DEF NoTx, NoRows
  <2>6. last_hash' \in Hash' BY <2>1 DEF Hash
  <2>2. TypeOK' BY <1>1, <2>1, <2>4, <2>5, <2>6 DEF IInv, TypeOK, Hash
  <2>3. NumbersInv' /\ TxInv' /\ UntamperedInv'
    BY <1>1, <2>1 DEF IInv, NumbersInv, TxInv, UntamperedInv, NoTx
  <2> QED BY <1>2, <2>2, <2>3 DEF IInv
<1>4. CASE Note
  <2>1. UNCHANGED <<open, last_seq, last_hash, tx>> /\ anchor'.seq = head_seq
    BY <1>4 DEF Note, writer
  <2>2. head_seq \in 0 .. MaxSeq
    BY HeadSeq DEF IInv, TypeOK
  <2>3. TypeOK' BY <1>1, <2>1, <2>2 DEF IInv, TypeOK, Hash
  <2>4. NumbersInv' /\ TxInv' /\ UntamperedInv'
    BY <1>1, <2>1 DEF IInv, NumbersInv, TxInv, UntamperedInv
  <2> QED BY <1>2, <2>3, <2>4 DEF IInv
<1> QED BY <1>3, <1>4
-------------------------------------------------------------------------------
\* The environment.
LEMMA TamperingKeeps ==
    ASSUME IInv, NEW s, NEW t, Cut(s) \/ Remove(s) \/ Edit(s, t)
    PROVE  IInv'
<1>1. /\ \A r \in DOMAIN audit : RowShape(audit[r])
      /\ Attacks # {} /\ UNCHANGED chain_head
  BY DEF IInv, HashesInv, Cut, Remove, Edit
<1>2. ASSUME NEW K, Tamper(Keep(audit, K)) PROVE IInv'
  <2> DEFINE rows == Keep(audit, K)
  <2>1. DOMAIN rows \subseteq DOMAIN audit /\ \A r \in DOMAIN rows : rows[r] = audit[r]
    BY DEF Keep
  <2> HIDE DEF rows
  <2>2. Tamper(rows) BY <1>2 DEF rows
  <2> QED BY <1>1, <2>1, <2>2, TamperKeeps
<1>3. CASE Cut(s) BY <1>2, <1>3 DEF Cut
<1>4. CASE Remove(s) BY <1>2, <1>4 DEF Remove
<1>5. CASE Edit(s, t)
  <2>1. s \in DOMAIN audit BY <1>5 DEF Edit
  <2>2. PICK row \in Forgeries(s, t) : Tamper(Over([x \in {s} |-> row], audit))
    BY <1>5 DEF Edit
  <2> DEFINE rows == Over([x \in {s} |-> row], audit)
  <2>3. DOMAIN rows = DOMAIN audit /\ rows[s] = row
        /\ \A r \in DOMAIN audit \ {s} : rows[r] = audit[r]
    BY <2>1 DEF Over
  <2>4. RowShape(row) /\ \E r \in DOMAIN audit : row.hash = audit[r].hash
    BY <1>1, <2>1, <2>2 DEF Forgeries, RowShape
  <2>5. Tamper(rows) BY <2>2
  <2> HIDE DEF rows
  <2> QED BY <1>1, <2>3, <2>4, <2>5, TamperKeeps
<1> QED BY <1>3, <1>4, <1>5

\* Putting an older copy of the database back keeps the inductive invariant.
LEMMA RestoreKeeps ==
    ASSUME IInv, NEW m \in Nat \ {0}, NEW n \in m .. MaxSeq, Restore(m, n)
    PROVE  IInv'
<1> USE StoreAssumption DEF StoreAssumption
<1>1. /\ "restore" \in Attacks /\ ~open /\ m .. n \subseteq DOMAIN written
      /\ audit' = Keep(written, m .. n) /\ chain_head' = [seq |-> n, hash |-> written[n].hash]
      /\ tampered' = tampered + 1 /\ tampered < MaxTampers
      /\ UNCHANGED <<open, last_seq, last_hash, tx, written, anchor>>
  BY DEF Restore, Tamper, writer
<1>2. chain_head'.seq = n /\ chain_head'.hash = written[n].hash BY <1>1
<1>3. DOMAIN audit' = m .. n /\ \A s \in m .. n : audit'[s] = written[s]
  BY <1>1 DEF Keep
<1>4. PICK w \in chain_head.seq .. MaxSeq : DOMAIN written = 1 .. w
  BY DEF IInv, NumbersInv
<1>5. n <= w BY <1>1, <1>4 DEF IInv, TypeOK
<1>6. NumbersInv'
  <2>1. \E k \in chain_head'.seq .. MaxSeq : DOMAIN written' = 1 .. k
    <3>1. w \in n .. MaxSeq BY <1>4, <1>5 DEF IInv, TypeOK
    <3> QED BY <1>1, <1>2, <1>4, <3>1
  <2>2. DOMAIN audit' \subseteq 1 .. chain_head'.seq BY <1>2, <1>3
  <2>3. ~open => last_hash = GENESIS_HASH BY DEF IInv, NumbersInv
  <2> QED BY <1>1, <2>1, <2>2, <2>3 DEF NumbersInv
<1>7. HashesInv'
  <2>1. \A s \in DOMAIN written' : IsRow(written'[s], s)
    BY <1>1 DEF IInv, HashesInv
  <2>2. ASSUME NEW s \in DOMAIN audit'
        PROVE  RowShape(audit'[s]) /\ \E x \in 1 .. chain_head'.seq : audit'[s].hash = written'[x].hash
    BY <1>1, <1>2, <1>3, <2>1, IsRowShape
  <2> QED BY <2>1, <2>2 DEF HashesInv
<1>9. TxInv' BY <1>1 DEF IInv, TxInv
<1>10. UntamperedInv'
  <2>1. tampered' # 0 BY <1>1 DEF IInv, TypeOK
  <2> QED BY <1>1, <2>1 DEF UntamperedInv
<1>11. TypeOK'
  <2>1. last_hash' \in Hash' BY <1>1 DEF IInv, NumbersInv, Hash
  <2>2. chain_head'.hash \in Hash' BY <1>1, <1>2 DEF Hash
  <2>3. /\ open' \in BOOLEAN /\ last_seq' \in 0 .. MaxSeq /\ DOMAIN written' \subseteq 1 .. MaxSeq
        /\ tx'.on \in BOOLEAN /\ tx'.seq \in 0 .. MaxSeq /\ anchor'.seq \in 0 .. MaxSeq
        /\ DOMAIN tx'.rows = (IF tx'.on THEN last_seq' + 1 .. tx'.seq ELSE {})
    BY <1>1 DEF IInv, TypeOK
  <2>4. DOMAIN audit' \subseteq 1 .. MaxSeq /\ chain_head'.seq \in 0 .. MaxSeq BY <1>2, <1>3
  <2>5. tampered' \in 0 .. MaxTampers BY <1>1 DEF IInv, TypeOK
  <2> QED BY <2>1, <2>2, <2>3, <2>4, <2>5 DEF TypeOK
<1> QED BY <1>6, <1>7, <1>9, <1>10, <1>11 DEF IInv
-------------------------------------------------------------------------------
\* Every step keeps the inductive invariant.
LEMMA NextIInv == IInv /\ [Next]_vars => IInv'
<1> SUFFICES ASSUME IInv, [Next]_vars PROVE IInv'
  OBVIOUS
<1> USE StoreAssumption DEF StoreAssumption
<1>1. CASE UNCHANGED vars
  BY <1>1 DEF vars, writer, database, IInv, TypeOK, Hash, NumbersInv, HashesInv, TxInv, UntamperedInv
<1>2. ASSUME NEW t \in Times, Open(t) PROVE IInv'
  BY <1>2, OpenKeeps
<1>3. CASE Begin \/ Rollback \/ \E t \in Times : Insert(t)
  BY <1>3, TxKeeps
<1>4. CASE Commit
  BY <1>4, CommitKeeps
<1>5. CASE Close \/ Note
  BY <1>5, CloseNoteKeep
<1>6. ASSUME NEW cutoff \in Times, NEW now \in Times, prune_before(cutoff, now) PROVE IInv'
  BY <1>6, PruneKeeps
<1>7. ASSUME NEW n \in 0 .. MaxSeq, Cut(n) \/ Remove(n) PROVE IInv'
  BY <1>7, TamperingKeeps
<1>8. ASSUME NEW n \in 1 .. MaxSeq, NEW m \in 1 .. n, Restore(m, n) PROVE IInv'
  <2>1. m \in Nat \ {0} /\ n \in m .. MaxSeq OBVIOUS
  <2> QED BY <1>8, <2>1, RestoreKeeps
<1>9. ASSUME NEW s \in 1 .. MaxSeq, NEW t \in Times, Edit(s, t) PROVE IInv'
  BY <1>9, TamperingKeeps
<1> QED BY <1>1, <1>2, <1>3, <1>4, <1>5, <1>6, <1>7, <1>8, <1>9 DEF Next, Writer, Environment

\* The inductive invariant holds of every reachable state.
LEMMA Invariance == Spec => []IInv
  BY InitIInv, NextIInv, PTL DEF Spec

\* Type correctness of the database, the writer's memory and the transaction.
THEOREM TypeCorrect == Spec => []TypeOK
<1>1. IInv => TypeOK BY DEF IInv
<1> QED BY <1>1, Invariance, PTL

\* A trail nobody tampered with verifies, whatever appends, failed
\* transactions, retention runs, crashes and restarts came before.
THEOREM HonestTrailVerifies == Spec => []UntamperedVerifies
<1>1. IInv => UntamperedVerifies
  <2> SUFFICES ASSUME IInv, tampered = 0, DOMAIN audit # {}
               PROVE  Linked(audit) /\ Unmodified(audit) /\ Vouched(audit)
    BY DEF UntamperedVerifies, verify_chain
  <2> DEFINE n == chain_head.seq
  <2>1. n \in Nat BY StoreAssumption DEF IInv, TypeOK, StoreAssumption
  <2>2. PICK f \in 1 .. n + 1 : Piece(audit, f, n)
    BY DEF IInv, UntamperedInv
  <2>3. DOMAIN audit = f .. n BY <2>2 DEF Piece
  <2>4. f \in Nat /\ f <= n BY <2>1, <2>2, <2>3
  <2>5. Min(DOMAIN audit) = f BY <2>1, <2>3, <2>4, MinInterval
  <2>6. Linked(audit)
    BY <2>1, <2>2, <2>3, <2>4, <2>5 DEF Linked, Piece
  <2>7. Unmodified(audit)
    <3> SUFFICES ASSUME NEW s \in DOMAIN audit
                 PROVE  /\ record_hash(audit[s].prev_hash, s, audit[s].body) = audit[s].hash
                        /\ columns(audit[s].body) = audit[s].cols
      BY DEF Unmodified
    <3>1. audit[s] = Row(audit[s].body, audit[s].prev_hash, s)
      BY <2>2, <2>3 DEF Piece, IsRow
    <3> QED BY <3>1 DEF Row
  <2>8. Vouched(audit)
    BY <2>2, <2>3, <2>5 DEF Vouched, Piece
  <2> QED BY <2>6, <2>7, <2>8
<1> QED BY <1>1, Invariance, PTL

\* What verify_chain accepts is what was written, under every attack.
THEOREM VerifiedTrailIsAuthentic == Spec => []VerifiedIsAuthentic
<1>1. IInv => VerifiedIsAuthentic
  <2> SUFFICES ASSUME IInv, verify_chain(audit), NEW s \in DOMAIN audit
               PROVE  s \in DOMAIN written /\ audit[s] = written[s]
    BY DEF VerifiedIsAuthentic
  <2>1. /\ record_hash(audit[s].prev_hash, s, audit[s].body) = audit[s].hash
        /\ columns(audit[s].body) = audit[s].cols
    BY DEF verify_chain, Unmodified
  <2>2. RowShape(audit[s])
    BY DEF IInv, HashesInv
  <2>3. PICK x \in 1 .. chain_head.seq : audit[s].hash = written[x].hash
    BY DEF IInv, HashesInv
  <2>4. x \in DOMAIN written
    BY StoreAssumption DEF IInv, NumbersInv, TypeOK, StoreAssumption
  <2>5. written[x] = Row(written[x].body, written[x].prev_hash, x)
    BY <2>4 DEF IInv, HashesInv, IsRow
  <2>6. written[x].hash = record_hash(written[x].prev_hash, x, written[x].body)
        /\ written[x].cols = columns(written[x].body)
    BY <2>5 DEF Row
  <2>7. s = x /\ audit[s].body = written[x].body /\ audit[s].prev_hash = written[x].prev_hash
    BY <2>1, <2>3, <2>6 DEF record_hash
  <2>8. audit[s] = Row(audit[s].body, audit[s].prev_hash, s)
    BY <2>1, <2>2 DEF RowShape, Row
  <2> QED BY <2>4, <2>5, <2>7, <2>8
<1> QED BY <1>1, Invariance, PTL

\* A commit puts its rows behind the chain head, where nothing was written.
LEMMA CommittedIsNew ==
    ASSUME IInv, "restore" \notin Attacks, NEW rows, NEW new, NEW seq, NEW hash,
           Committed(rows, new, seq, hash),
           \A s \in DOMAIN new : s > chain_head.seq
    PROVE  \A s \in DOMAIN written : written'[s] = written[s]
<1>1. DOMAIN written = 1 .. chain_head.seq /\ chain_head.seq \in Int
  BY DEF IInv, NumbersInv, TypeOK
<1>2. \A s \in DOMAIN written : s \notin DOMAIN new
  BY <1>1
<1>3. written' = Over(new, written)
  BY DEF Committed
<1> QED BY <1>2, <1>3 DEF Over

\* As long as nobody puts an older copy of the whole database back, a number
\* is never given to a second record, however the table itself was cut.
THEOREM NumbersAreNeverReused ==
    ASSUME "restore" \notin Attacks
    PROVE  Spec => SeqNeverReused
<1> USE StoreAssumption DEF StoreAssumption
<1>1. ASSUME IInv, [Next]_vars
      PROVE  [\A s \in DOMAIN written : written'[s] = written[s]]_vars
  <2>1. CASE UNCHANGED written
    BY <2>1
  <2>2. ASSUME NEW K, NEW seq, NEW hash, NEW body, seq = chain_head.seq,
               InsertOne(K, seq, hash, body)
        PROVE  \A s \in DOMAIN written : written'[s] = written[s]
    <3>1. seq \in Int BY <1>1, <2>2 DEF IInv, TypeOK
    <3>2. \A s \in DOMAIN OneRow(seq + 1, body, hash) : s > chain_head.seq
      BY <2>2, <3>1 DEF OneRow
    <3> QED BY <1>1, <2>2, <3>2, CommittedIsNew DEF InsertOne
  <2>3. ASSUME NEW t \in Times, Open(t)
        PROVE  \A s \in DOMAIN written : written'[s] = written[s]
    <3>1. CASE Truncated BY <2>2, <2>3, <3>1 DEF Open
    <3>2. CASE ~Truncated BY <2>3, <3>2 DEF Open
    <3> QED BY <3>1, <3>2
  <2>4. CASE Commit
    <3>1. /\ Committed(Over(tx.rows, audit), tx.rows, tx.seq, tx.hash)
          /\ tx.on /\ open /\ last_seq = chain_head.seq /\ last_seq \in Int /\ tx.seq \in Int
          /\ DOMAIN tx.rows = last_seq + 1 .. tx.seq
      BY <1>1, <2>4 DEF Commit, IInv, TypeOK, TxInv, NumbersInv
    <3>2. \A s \in DOMAIN tx.rows : s > chain_head.seq BY <3>1
    <3> QED BY <1>1, <3>1, <3>2, CommittedIsNew
  <2>5. ASSUME NEW cutoff \in Times, NEW now \in Times, prune_before(cutoff, now)
        PROVE  \A s \in DOMAIN written : written'[s] = written[s]
    <3>1. last_seq = chain_head.seq BY <1>1, <2>5 DEF prune_before, IInv, NumbersInv
    <3> QED BY <2>2, <2>5, <3>1 DEF prune_before
  <2>6. ASSUME NEW t \in Times, Insert(t) PROVE UNCHANGED written BY <2>6 DEF Insert
  <2>7. CASE Begin \/ Rollback \/ Close \/ Note
    BY <2>1, <2>7 DEF Begin, Rollback, Close, Note
  <2>8. CASE UNCHANGED vars BY <2>1, <2>8 DEF vars
  <2>9. ASSUME NEW s, NEW t, Cut(s) \/ Remove(s) \/ Edit(s, t) PROVE UNCHANGED written
    BY <2>9 DEF Cut, Remove, Edit, Tamper
  <2>10. ASSUME NEW m, NEW n, Restore(m, n) PROVE FALSE BY <2>10 DEF Restore
  <2> QED
    BY <1>1, <2>1, <2>3, <2>4, <2>5, <2>6, <2>7, <2>8, <2>9, <2>10 DEF Next, Writer, Environment
<1> QED BY <1>1, Invariance, PTL DEF Spec, SeqNeverReused
-------------------------------------------------------------------------------
\* The abstract log's variables, and what an honest state makes of them.
LogSize == chain_head.seq
LogEntry == [s \in DOMAIN written |-> written[s].body]
LogGone == IF DOMAIN audit = {} THEN 0 ELSE Min(DOMAIN audit) - 1

\* Without tampering the table is one piece of the committed rows that ends at
\* the chain head, and the writer's memory is that head.
LEMMA HonestLog ==
    ASSUME IInv, Attacks = {}
    PROVE  /\ tampered = 0
           /\ chain_head.seq \in Nat /\ DOMAIN written = 1 .. chain_head.seq
           /\ \E f \in 1 .. chain_head.seq + 1 :
                /\ Piece(audit, f, chain_head.seq)
                /\ LogGone = f - 1
                /\ chain_head.seq # 0 => f <= chain_head.seq
<1> USE StoreAssumption DEF StoreAssumption
<1>1. tampered = 0 /\ chain_head.seq \in Nat /\ DOMAIN written = 1 .. chain_head.seq
  BY DEF IInv, UntamperedInv, TypeOK, NumbersInv
<1>2. PICK f \in 1 .. chain_head.seq + 1 : Piece(audit, f, chain_head.seq)
  BY <1>1 DEF IInv, UntamperedInv
<1>3. DOMAIN audit = f .. chain_head.seq BY <1>2 DEF Piece
<1>4. CASE chain_head.seq = 0
  <2>1. f = 1 /\ DOMAIN audit = {} BY <1>2, <1>3, <1>4
  <2> QED BY <1>1, <1>2, <1>4, <2>1 DEF LogGone
<1>5. CASE chain_head.seq # 0
  <2>1. chain_head.seq \in f .. chain_head.seq
    BY <1>1, <1>3, <1>5 DEF IInv, UntamperedInv
  <2>2. f \in Nat /\ f <= chain_head.seq BY <1>1, <2>1
  <2>3. Min(DOMAIN audit) = f BY <1>1, <1>3, <2>2, MinInterval
  <2>4. DOMAIN audit # {} BY <1>3, <2>1
  <2> QED BY <1>1, <1>2, <2>2, <2>3, <2>4 DEF LogGone
<1> QED BY <1>4, <1>5

\* A commit grows the log.
LEMMA CommitGrows ==
    ASSUME IInv, Attacks = {}, NEW rows, NEW new, NEW seq \in Nat, NEW hash,
           Committed(rows, new, seq, hash), seq > chain_head.seq,
           DOMAIN new = chain_head.seq + 1 .. seq
    PROVE  /\ LogSize' > LogSize /\ LogSize' = seq
           /\ DOMAIN LogEntry' = 1 .. LogSize'
           /\ \A n \in 1 .. LogSize : LogEntry'[n] = LogEntry[n]
           /\ \A n \in DOMAIN new : LogEntry'[n] = new[n].body
<1>1. chain_head.seq \in Nat /\ DOMAIN written = 1 .. chain_head.seq BY HonestLog
<1>2. chain_head' = [seq |-> seq, hash |-> hash] /\ written' = Over(new, written)
  BY DEF Committed
<1>3. DOMAIN written' = 1 .. seq
  BY <1>1, <1>2 DEF Over
<1>4. /\ \A n \in 1 .. chain_head.seq : written'[n] = written[n]
      /\ \A n \in DOMAIN new : written'[n] = new[n]
  BY <1>1, <1>2 DEF Over
<1>5. \A n \in 1 .. seq : LogEntry'[n] = written'[n].body
  BY <1>3 DEF LogEntry
<1>6. \A n \in 1 .. chain_head.seq : LogEntry[n] = written[n].body
  BY <1>1 DEF LogEntry
<1>7. LogSize' = seq /\ LogSize = chain_head.seq BY <1>2 DEF LogSize
<1>8. DOMAIN LogEntry' = 1 .. seq BY <1>3 DEF LogEntry
<1>9. \A n \in 1 .. chain_head.seq : n \in 1 .. seq BY <1>1
<1>10. \A n \in DOMAIN new : n \in 1 .. seq BY <1>1
<1> QED BY <1>1, <1>4, <1>5, <1>6, <1>7, <1>8, <1>9, <1>10

\* Without tampering the store implements the abstract log: each step of the
\* writer appends records, prunes with an account of it, or changes nothing
\* the log shows.
THEOREM StoreImplementsLog ==
    ASSUME Attacks = {}
    PROVE  Spec => ImplementsLog
<1> USE StoreAssumption DEF StoreAssumption
<1>1. Init => Log!LogInit
  BY DEF Init, Log!LogInit, NoRows
<1>2. ASSUME IInv, IInv', [Next]_vars
      PROVE  [Log!LogNext]_Log!logVars
  <2>0. UNCHANGED <<audit, chain_head, written>> => UNCHANGED Log!logVars
    BY DEF Log!logVars
  <2>1. CASE UNCHANGED vars
    BY <2>0, <2>1 DEF vars, database
  <2>2. CASE Begin \/ Rollback \/ Close \/ Note \/ \E t \in Times : Insert(t)
    BY <2>0, <2>2 DEF Begin, Rollback, Close, Note, Insert, database
  <2>3. ASSUME NEW t \in Times, Open(t)
        PROVE  UNCHANGED Log!logVars
    <3>1. ~Truncated
      BY <1>2, HeadSeq, HonestLog DEF Truncated
    <3> QED BY <2>0, <2>3, <3>1 DEF Open, database
  <2>4. CASE Commit
    <3>1. /\ Committed(Over(tx.rows, audit), tx.rows, tx.seq, tx.hash)
          /\ tx.on /\ last_seq = chain_head.seq /\ tx.seq > chain_head.seq /\ tx.seq \in Nat
          /\ DOMAIN tx.rows = chain_head.seq + 1 .. tx.seq
      BY <1>2, <2>4 DEF Commit, IInv, TypeOK, TxInv, NumbersInv
    <3>2. /\ LogSize' > LogSize /\ DOMAIN LogEntry' = 1 .. LogSize'
          /\ \A n \in 1 .. LogSize : LogEntry'[n] = LogEntry[n]
      BY <1>2, <3>1, CommitGrows
    <3>3. LogGone' = LogGone
      <4>1. PICK f \in 1 .. chain_head.seq + 1 :
                Piece(audit, f, chain_head.seq) /\ LogGone = f - 1
        BY <1>2, HonestLog
      <4>2. audit' = Over(tx.rows, audit) /\ DOMAIN audit = f .. chain_head.seq
        BY <3>1, <4>1 DEF Committed, Piece
      <4>3. DOMAIN audit' = f .. tx.seq
        BY <1>2, <3>1, <4>1, <4>2, HonestLog DEF Over
      <4>4. f \in Nat /\ f <= tx.seq BY <1>2, <3>1, <4>1, HonestLog
      <4>5. Min(DOMAIN audit') = f BY <3>1, <4>3, <4>4, MinInterval
      <4>6. DOMAIN audit' # {} BY <3>1, <4>3, <4>4
      <4> QED BY <4>1, <4>5, <4>6 DEF LogGone
    <3> QED BY <3>2, <3>3 DEF Log!LogNext, Log!Extend, Log!Grow, LogSize, LogEntry, LogGone
  <2>5. ASSUME NEW cutoff \in Times, NEW now \in Times, prune_before(cutoff, now)
        PROVE  Log!Prune
    <3> DEFINE n == chain_head.seq
               last == prune_last(cutoff)
               gone == {s \in DOMAIN audit : s <= last}
               body == RetentionPruned(now, Cardinality(gone), last, audit[last].hash)
               kept == Keep(audit, DOMAIN audit \ gone)
               new == OneRow(n + 1, body, last_hash)
    <3>1. n \in Nat BY <1>2, HonestLog
    <3>2. /\ last_seq = n /\ last \in DOMAIN audit /\ prune_due(cutoff, now)
          /\ InsertOne(kept, n, last_hash, body)
      BY <1>2, <2>5 DEF prune_before, IInv, NumbersInv
    <3>3. Committed(Over(new, kept), new, n + 1, new[n + 1].hash)
      BY <3>2 DEF InsertOne
    <3>4. DOMAIN new = {n + 1} /\ new[n + 1].body = body BY DEF OneRow, Row
    <3>5. DOMAIN new = n + 1 .. n + 1 BY <3>1, <3>4
    <3>6. last < n
      <4>1. last < Max(DOMAIN audit) BY <1>2, <3>2, PruneLast
      <4>2. Max(DOMAIN audit) = n BY <1>2, <3>2, HeadSeq, HonestLog
      <4> QED BY <4>1, <4>2
    <3>7. PICK f \in 1 .. n + 1 : Piece(audit, f, n) /\ LogGone = f - 1
      BY <1>2, HonestLog
    <3>8. DOMAIN audit = f .. n /\ last \in f .. n - 1
      BY <3>1, <3>2, <3>6, <3>7 DEF Piece
    <3> HIDE DEF last
    <3>9. DOMAIN audit' = last + 1 .. n + 1
      <4>1. audit' = Over(new, kept) BY <3>3 DEF Committed
      <4>2. DOMAIN kept = last + 1 .. n BY <3>1, <3>7, <3>8 DEF Keep
      <4> HIDE DEF kept, new
      <4>3. last \in Nat /\ last < n BY <3>1, <3>7, <3>8
      <4> QED BY <3>1, <3>4, <4>1, <4>2, <4>3 DEF Over
    <3>10. LogGone' = last
      <4>1. last + 1 \in Nat /\ last + 1 <= n + 1 /\ n + 1 \in Nat BY <3>1, <3>7, <3>8
      <4>2. Min(DOMAIN audit') = last + 1 BY <3>9, <4>1, MinInterval
      <4>3. DOMAIN audit' # {} BY <3>9, <4>1
      <4> QED BY <3>7, <3>8, <4>2, <4>3 DEF LogGone
    <3>11. /\ LogSize' > LogSize /\ LogSize' = n + 1
           /\ DOMAIN LogEntry' = 1 .. LogSize'
           /\ \A k \in 1 .. LogSize : LogEntry'[k] = LogEntry[k]
           /\ \A k \in DOMAIN new : LogEntry'[k] = new[k].body
      <4> HIDE DEF new, kept
      <4>1. n + 1 \in Nat /\ n + 1 > chain_head.seq BY <3>1
      <4> QED BY <1>2, <3>3, <3>5, <4>1, CommitGrows
    <3>12. LogEntry'[n + 1] = body BY <3>4, <3>11
    <3>13. body.kind = "retention_pruned" /\ body.last_seq = last BY DEF RetentionPruned
    <3>14. LogGone < LogGone' /\ LogGone' < LogSize
      BY <3>1, <3>7, <3>8, <3>10 DEF LogSize
    <3>15. LogSize = n BY DEF LogSize
    <3> HIDE DEF body
    <3> QED BY <3>10, <3>11, <3>12, <3>13, <3>14, <3>15
            DEF Log!Prune, Log!Grow, LogSize, LogEntry, LogGone
  <2>6. ASSUME NEW s, NEW t, Cut(s) \/ Remove(s) \/ Edit(s, t) PROVE FALSE
    BY <2>6 DEF Cut, Remove, Edit
  <2>7. ASSUME NEW m, NEW n, Restore(m, n) PROVE FALSE BY <2>7 DEF Restore
  <2> QED
    BY <1>2, <2>1, <2>2, <2>3, <2>4, <2>5, <2>6, <2>7 DEF Next, Writer, Environment, Log!LogNext
<1> QED BY <1>1, <1>2, Invariance, PTL DEF Spec, ImplementsLog, Log!LogSpec
-------------------------------------------------------------------------------
\* The record noted down is the newest of the table it was noted with.
AnchorInv ==
    anchor.seq # 0 =>
        /\ DOMAIN anchor.rows \subseteq 1 .. anchor.seq
        /\ anchor.seq \in DOMAIN anchor.rows
        /\ anchor.hash = anchor.rows[anchor.seq].hash
        /\ \A s \in DOMAIN anchor.rows : RowShape(anchor.rows[s])

\* Only noting a record down changes the anchor.
LEMMA AnchorSteps ==
    ASSUME [Next]_vars
    PROVE  Note \/ UNCHANGED anchor
<1>1. ASSUME NEW t, Open(t) \/ Insert(t) PROVE UNCHANGED anchor
  BY <1>1 DEF Open, Insert
<1>2. CASE Begin \/ Commit \/ Rollback \/ Close
  BY <1>2 DEF Begin, Commit, Rollback, Close
<1>3. ASSUME NEW cutoff, NEW now, prune_before(cutoff, now) PROVE UNCHANGED anchor
  BY <1>3 DEF prune_before
<1>4. ASSUME NEW s, NEW t, Cut(s) \/ Remove(s) \/ Edit(s, t) PROVE UNCHANGED anchor
  BY <1>4 DEF Cut, Remove, Edit, Tamper
<1>5. ASSUME NEW m, NEW n, Restore(m, n) PROVE UNCHANGED anchor
  BY <1>5 DEF Restore, Tamper
<1>6. CASE UNCHANGED vars BY <1>6 DEF vars
<1> QED BY <1>1, <1>2, <1>3, <1>4, <1>5, <1>6 DEF Next, Writer, Environment

\* The anchor's invariant holds of every reachable state.
LEMMA AnchorInvariance == Spec => []AnchorInv
<1>1. Init => AnchorInv BY DEF Init, AnchorInv
<1>2. ASSUME IInv, AnchorInv, [Next]_vars PROVE AnchorInv'
  <2>1. CASE UNCHANGED anchor BY <1>2, <2>1 DEF AnchorInv
  <2>2. CASE Note
    <3>1. DOMAIN audit # {} /\ anchor' = [seq |-> head_seq, hash |-> audit[head_seq].hash, rows |-> audit]
      BY <2>2 DEF Note
    <3>2. /\ head_seq \in DOMAIN audit /\ head_seq = Max(DOMAIN audit)
          /\ chain_head.seq \in Nat /\ DOMAIN audit \subseteq 1 .. chain_head.seq
      BY <1>2, <3>1, HeadSeq, StoreAssumption DEF IInv, TypeOK, NumbersInv, StoreAssumption
    <3>3. DOMAIN audit \in SUBSET (0 .. chain_head.seq) BY <3>2
    <3>4. \A y \in DOMAIN audit : y <= head_seq BY <3>1, <3>2, <3>3, MaxNat
    <3>5. DOMAIN audit \subseteq 1 .. head_seq BY <3>2, <3>4
    <3>6. \A s \in DOMAIN audit : RowShape(audit[s]) BY <1>2 DEF IInv, HashesInv
    <3>7. /\ anchor'.seq = head_seq /\ anchor'.rows = audit
          /\ anchor'.hash = audit[head_seq].hash
      BY <3>1
    <3> QED BY <3>2, <3>5, <3>6, <3>7 DEF AnchorInv
  <2> QED BY <1>2, <2>1, <2>2, AnchorSteps
<1> QED BY <1>1, <1>2, Invariance, PTL DEF Spec

\* Two rows that verify under their number and have one hash are one row, and
\* follow a row of one hash.
LEMMA HashIsRow ==
    ASSUME NEW T, NEW U, NEW s, s \in DOMAIN T, s \in DOMAIN U,
           Unmodified(T), Unmodified(U), RowShape(T[s]), RowShape(U[s]),
           T[s].hash = U[s].hash
    PROVE  T[s] = U[s]
<1>1. /\ record_hash(T[s].prev_hash, s, T[s].body) = T[s].hash
      /\ columns(T[s].body) = T[s].cols
      /\ record_hash(U[s].prev_hash, s, U[s].body) = U[s].hash
      /\ columns(U[s].body) = U[s].cols
  BY DEF Unmodified
<1>2. T[s].prev_hash = U[s].prev_hash /\ T[s].body = U[s].body
  BY <1>1 DEF record_hash
<1>3. T[s].cols = U[s].cols BY <1>1, <1>2
<1> QED BY <1>2, <1>3 DEF RowShape

\* A table that verifies holds every number from its first to its last.
LEMMA LinkedHasNext ==
    ASSUME NEW T, NEW n \in Nat, DOMAIN T \subseteq 1 .. n, n \in DOMAIN T, Linked(T),
           NEW s \in DOMAIN T, s < n
    PROVE  s + 1 \in DOMAIN T /\ T[s + 1].prev_hash = T[s].hash
<1> DEFINE S == {k \in DOMAIN T : k > s}
<1>1. S \in SUBSET Nat /\ n \in S OBVIOUS
<1>2. PICK k \in S : \A y \in S : k <= y BY <1>1, LeastNat
<1>3. DOMAIN T \in SUBSET Nat /\ DOMAIN T # {} OBVIOUS
<1>4. Min(DOMAIN T) <= s BY <1>3, MinNat
<1>5. Min(DOMAIN T) \in Nat BY <1>3, MinNat
<1>6. k # Min(DOMAIN T) /\ k \in DOMAIN T /\ k \in Nat /\ s \in Nat /\ k > s BY <1>1, <1>4, <1>5
<1>7. k - 1 \in DOMAIN T /\ T[k].prev_hash = T[k - 1].hash BY <1>6 DEF Linked
<1>8. k - 1 = s
  <2>1. ~(k - 1 > s) BY <1>2, <1>6, <1>7
  <2> QED BY <1>6, <2>1
<1>9. k = s + 1 BY <1>6, <1>8
<1> QED BY <1>6, <1>7, <1>8, <1>9

\* A trail that verifies against a record noted down earlier still holds what
\* it held then from its first record on: going back from the noted record,
\* each row's hash fixes the row before it.
THEOREM AnchorFixesHistory == Spec => []AnchorProvesHistory
<1>1. ASSUME IInv, AnchorInv PROVE AnchorProvesHistory
  <2> SUFFICES ASSUME anchor.seq # 0, verify_chain(anchor.rows),
                      verify_against(audit, anchor.seq, anchor.hash),
                      NEW s \in DOMAIN anchor.rows, s >= Min(DOMAIN audit),
                      ~(s \in DOMAIN audit /\ audit[s] = anchor.rows[s])
               PROVE  FALSE
    BY DEF AnchorProvesHistory
  <2> DEFINE n == anchor.seq
             R == anchor.rows
             first == Min(DOMAIN audit)
             bad == {k \in DOMAIN R : k >= first /\ ~(k \in DOMAIN audit /\ audit[k] = R[k])}
  <2>1. /\ n \in Nat /\ DOMAIN R \subseteq 1 .. n /\ n \in DOMAIN R
        /\ anchor.hash = R[n].hash /\ \A k \in DOMAIN R : RowShape(R[k])
    BY <1>1, StoreAssumption DEF AnchorInv, IInv, TypeOK, StoreAssumption
  <2>2. Linked(R) /\ Unmodified(R) BY <2>1 DEF verify_chain
  <2>3. /\ DOMAIN audit # {} /\ Linked(audit) /\ Unmodified(audit)
        /\ n <= Max(DOMAIN audit)
        /\ n >= first => audit[n].hash = anchor.hash
    BY DEF verify_against, verify_chain
  <2>4. chain_head.seq \in Nat /\ DOMAIN audit \subseteq 1 .. chain_head.seq
    BY <1>1, StoreAssumption DEF IInv, TypeOK, NumbersInv, StoreAssumption
  <2>5. DOMAIN audit \in SUBSET Nat /\ DOMAIN audit \in SUBSET (0 .. chain_head.seq) BY <2>4
  <2>6. first \in DOMAIN audit /\ first \in Nat BY <2>3, <2>5, MinNat
  <2>7. /\ Max(DOMAIN audit) \in DOMAIN audit /\ Max(DOMAIN audit) \in Nat
        /\ \A y \in DOMAIN audit : y <= Max(DOMAIN audit)
    BY <2>3, <2>4, <2>5, MaxNat
  <2>8. \A k \in DOMAIN audit : RowShape(audit[k]) BY <1>1 DEF IInv, HashesInv
  <2>9. ASSUME NEW k \in Nat, k >= first, k <= Max(DOMAIN audit) PROVE k \in DOMAIN audit
    <3> DEFINE S == {y \in DOMAIN audit : y >= k}
    <3>1. S \in SUBSET Nat /\ S # {} BY <2>5, <2>7, <2>9
    <3>2. PICK y \in S : \A z \in S : y <= z BY <3>1, LeastNat
    <3>3. CASE y = first BY <2>6, <2>9, <3>2, <3>3
    <3>4. CASE y # first
      <4>1. y - 1 \in DOMAIN audit BY <2>3, <3>2, <3>4 DEF Linked
      <4>2. ~(y - 1 >= k) BY <2>5, <2>9, <3>1, <3>2, <4>1
      <4>3. y = k BY <2>5, <2>9, <3>1, <3>2, <4>2
      <4> QED BY <3>2, <4>3
    <3> QED BY <3>3, <3>4
  <2>10. s \in bad /\ bad \in SUBSET (0 .. n) BY <2>1
  <2> DEFINE m == Max(bad)
  <2>11. m \in bad /\ \A y \in bad : y <= m BY <2>1, <2>10, MaxNat
  <2>12. m \in DOMAIN R /\ m \in Nat /\ m >= first /\ m <= n BY <2>1, <2>11
  <2> HIDE DEF m
  <2>13. m \in DOMAIN audit
    <3>1. m <= Max(DOMAIN audit) BY <2>1, <2>3, <2>7, <2>12
    <3> QED BY <2>9, <2>12, <3>1
  <2>14. audit[m].hash = R[m].hash
    <3>1. CASE m = n BY <2>1, <2>3, <2>12, <3>1
    <3>2. CASE m # n
      <4>1. m < n BY <2>1, <2>12, <3>2
      <4>2. m + 1 \in DOMAIN R /\ R[m + 1].prev_hash = R[m].hash
        <5> HIDE DEF R
        <5> QED BY <2>1, <2>2, <2>12, <4>1, LinkedHasNext
      <4>3. m + 1 \notin bad BY <2>11, <2>12
      <4>4. m + 1 \in DOMAIN audit /\ audit[m + 1] = R[m + 1]
        BY <2>6, <2>12, <4>2, <4>3
      <4>5. audit[m + 1].prev_hash = audit[m].hash
        <5>1. m + 1 # first BY <2>6, <2>12
        <5>2. (m + 1) - 1 = m BY <2>12
        <5> QED BY <2>3, <4>4, <5>1, <5>2 DEF Linked
      <4> QED BY <4>2, <4>4, <4>5
    <3> QED BY <3>1, <3>2
  <2>15. audit[m] = R[m]
    <3> HIDE DEF R
    <3> QED BY <2>1, <2>2, <2>3, <2>8, <2>12, <2>13, <2>14, HashIsRow
  <2> QED BY <2>11, <2>13, <2>15
<1> QED BY <1>1, Invariance, AnchorInvariance, PTL
-------------------------------------------------------------------------------
\* A database whose newest rows were cut off is not passed over in silence:
\* when the writer reopens it, the record it appends says so, and the gap (or
\* the missing start) makes verify_chain reject the trail.
THEOREM CutTrailIsEvident == Spec => CutIsEvident
<1> USE StoreAssumption DEF StoreAssumption
<1>1. ASSUME IInv, [Next]_vars, open', ~open, Truncated
      PROVE  ~verify_chain(audit') /\ audit'[last_seq'].body.kind = "trail_truncated"
  <2>1. PICK t \in Times : Open(t)
    <3>1. ASSUME NEW t \in Times, Insert(t) PROVE FALSE
      BY <1>1, <3>1 DEF Insert
    <3>2. CASE Begin \/ Commit \/ Rollback \/ Close
      BY <1>1, <3>2 DEF Begin, Commit, Rollback, Close
    <3>3. ASSUME NEW cutoff, NEW now, prune_before(cutoff, now) PROVE FALSE
      BY <1>1, <3>3 DEF prune_before
    <3>4. ASSUME NEW s, NEW u, Cut(s) \/ Remove(s) \/ Edit(s, u) PROVE FALSE
      BY <1>1, <3>4 DEF Cut, Remove, Edit, Tamper, writer
    <3>5. ASSUME NEW m, NEW n, Restore(m, n) PROVE FALSE
      BY <1>1, <3>5 DEF Restore, Tamper, writer
    <3>6. CASE UNCHANGED vars \/ Note BY <1>1, <3>6 DEF vars, writer, Note
    <3> QED BY <1>1, <3>1, <3>2, <3>3, <3>4, <3>5, <3>6 DEF Next, Writer, Environment
  <2> DEFINE n == chain_head.seq
             body == TrailTruncated(t, n, head_seq)
             new == OneRow(n + 1, body, chain_head.hash)
  <2>2. InsertOne(audit, n, chain_head.hash, body) BY <1>1, <2>1 DEF Open
  <2>3. audit' = Over(new, audit) /\ last_seq' = n + 1 BY <2>2 DEF InsertOne, Committed
  <2>4. DOMAIN new = {n + 1} /\ new[n + 1].body = body BY DEF OneRow, Row
  <2>5. body.kind = "trail_truncated" BY DEF TrailTruncated
  <2> HIDE DEF new, body
  <2>6. /\ DOMAIN audit' = {n + 1} \cup DOMAIN audit
        /\ audit'[n + 1].body = body
    BY <2>3, <2>4 DEF Over
  <2>7. /\ n \in Nat /\ DOMAIN audit \subseteq 1 .. n
        /\ head_seq \in Nat /\ head_seq < n
    BY <1>1, HeadSeq DEF IInv, TypeOK, NumbersInv, Truncated
  <2>8. DOMAIN audit' \in SUBSET Nat /\ DOMAIN audit' # {} BY <2>6, <2>7
  <2>9. Min(DOMAIN audit') \in DOMAIN audit' /\ \A y \in DOMAIN audit' : Min(DOMAIN audit') <= y
    BY <2>8, MinNat
  <2>10. CASE DOMAIN audit = {}
    <3>1. DOMAIN audit' = {n + 1} /\ Min(DOMAIN audit') = n + 1 /\ n + 1 # 1
      BY <2>6, <2>7, <2>9, <2>10
    <3>2. ~Vouched(audit') BY <2>5, <2>6, <3>1 DEF Vouched
    <3> QED BY <2>3, <2>5, <2>6, <2>8, <3>2 DEF verify_chain
  <2>11. CASE DOMAIN audit # {}
    <3>1. n \notin DOMAIN audit
      <4>1. DOMAIN audit \in SUBSET (0 .. n) BY <2>7
      <4>2. \A y \in DOMAIN audit : y <= head_seq BY <1>1, <2>7, <2>11, <4>1, HeadSeq, MaxNat
      <4> QED BY <2>7, <4>2
    <3>2. PICK y \in DOMAIN audit : TRUE BY <2>11
    <3>3. Min(DOMAIN audit') # n + 1 BY <2>6, <2>7, <2>9, <3>2
    <3>4. n + 1 \in DOMAIN audit' /\ (n + 1) - 1 \notin DOMAIN audit' BY <2>6, <2>7, <3>1
    <3>5. ~Linked(audit') BY <3>3, <3>4 DEF Linked
    <3> QED BY <2>3, <2>5, <2>6, <2>8, <3>5 DEF verify_chain
  <2> QED BY <2>10, <2>11
<1> QED BY <1>1, Invariance, PTL DEF Spec, CutIsEvident
-------------------------------------------------------------------------------
\* The time columns of a table are clock readings.
Stamped(T) == \A s \in DOMAIN T : T[s].cols.ts \in Times

\* They are in the table, in the history and in an open transaction.
StampInv == Stamped(audit) /\ Stamped(written) /\ Stamped(tx.rows)

\* A row inserted with a body of a clock reading has it as its time column.
LEMMA OneRowStamped ==
    ASSUME NEW s, NEW b, NEW p, b.ts \in Times
    PROVE  Stamped(OneRow(s, b, p))
  BY DEF Stamped, OneRow, Row, columns

\* Adding stamped rows to stamped rows, and keeping some of them.
LEMMA OverStamped ==
    ASSUME NEW f, NEW g, Stamped(f), Stamped(g)
    PROVE  Stamped(Over(f, g))
  BY DEF Stamped, Over

\* Rows that stay in the table keep their time column.
LEMMA KeepStamped ==
    ASSUME NEW f, NEW S, Stamped(f)
    PROVE  Stamped(Keep(f, S))
  BY DEF Stamped, Keep

\* A transaction of one row keeps the time columns.
LEMMA InsertOneStamped ==
    ASSUME StampInv, NEW rows, NEW seq, NEW hash, NEW body,
           Stamped(rows), body.ts \in Times, InsertOne(rows, seq, hash, body)
    PROVE  Stamped(audit') /\ Stamped(written')
<1> DEFINE new == OneRow(seq + 1, body, hash)
<1>1. audit' = Over(new, rows) /\ written' = Over(new, written)
  BY DEF InsertOne, Committed
<1>2. Stamped(new) BY OneRowStamped
<1> HIDE DEF new
<1> QED BY <1>1, <1>2, OverStamped DEF StampInv

\* An edited row has a clock reading in its time column.
LEMMA ForgedStamped ==
    ASSUME IInv, StampInv, NEW s \in DOMAIN audit, NEW t \in Times, NEW row \in Forgeries(s, t)
    PROVE  row.cols.ts \in Times
<1>1. RowShape(audit[s]) BY DEF IInv, HashesInv
<1>2. /\ Event(t).ts = t
      /\ columns(Event(t)).ts = t
  BY DEF Event, columns
<1>3. CASE row = [audit[s] EXCEPT !.body = Event(t), !.cols = columns(Event(t))]
  <2>1. row.cols = columns(Event(t)) BY <1>1, <1>3 DEF RowShape
  <2> QED BY <1>2, <2>1
<1>4. CASE row = [audit[s] EXCEPT !.cols = [ts |-> t, kind |-> audit[s].cols.kind]]
  <2>1. row.cols = [ts |-> t, kind |-> audit[s].cols.kind] BY <1>1, <1>4 DEF RowShape
  <2> QED BY <2>1
<1>5. CASE row \in {audit[r] : r \in DOMAIN audit} BY <1>5 DEF StampInv, Stamped
<1> QED BY <1>3, <1>4, <1>5 DEF Forgeries

\* The invariant of the time columns holds of every reachable state.
LEMMA StampInvariance == Spec => []StampInv
<1>0. Stamped(NoRows) BY DEF Stamped, NoRows
<1>1. Init => StampInv BY <1>0 DEF Init, StampInv, NoTx
<1>2. ASSUME IInv, StampInv, [Next]_vars PROVE StampInv'
  <2>1. ASSUME NEW t \in Times, Open(t) PROVE StampInv'
    <3>1. CASE Truncated
      <4>1. TrailTruncated(t, chain_head.seq, head_seq).ts \in Times BY DEF TrailTruncated
      <4>2. Stamped(audit') /\ Stamped(written')
        BY <1>2, <2>1, <3>1, <4>1, InsertOneStamped DEF Open, StampInv
      <4> QED BY <1>2, <2>1, <4>2 DEF Open, StampInv, Stamped
    <3>2. CASE ~Truncated BY <1>2, <2>1, <3>2 DEF Open, StampInv, Stamped, database
    <3> QED BY <3>1, <3>2
  <2>2. ASSUME NEW t \in Times, Insert(t) PROVE StampInv'
    <3> DEFINE new == OneRow(tx.seq + 1, Event(t), tx.hash)
    <3>1. /\ tx'.rows = Over(new, tx.rows) /\ UNCHANGED <<audit, written>>
      BY <2>2 DEF Insert, database
    <3>2. Stamped(new) BY OneRowStamped DEF Event
    <3> HIDE DEF new
    <3>3. Stamped(tx'.rows) BY <1>2, <3>1, <3>2, OverStamped DEF StampInv
    <3> QED BY <1>2, <3>1, <3>3 DEF StampInv, Stamped
  <2>3. CASE Begin \/ Rollback \/ Close
    <3>1. UNCHANGED <<audit, written>> /\ tx'.rows = NoRows
      BY <2>3 DEF Begin, Rollback, Close, database, NoTx
    <3> QED BY <1>0, <1>2, <3>1 DEF StampInv, Stamped
  <2>4. CASE Commit
    <3>1. /\ audit' = Over(tx.rows, audit) /\ written' = Over(tx.rows, written)
          /\ tx'.rows = NoRows
      BY <2>4 DEF Commit, Committed, NoTx
    <3> QED BY <1>0, <1>2, <3>1, OverStamped DEF StampInv
  <2>5. ASSUME NEW cutoff \in Times, NEW now \in Times, prune_before(cutoff, now)
        PROVE  StampInv'
    <3> DEFINE last == prune_last(cutoff)
               gone == {s \in DOMAIN audit : s <= last}
               body == RetentionPruned(now, Cardinality(gone), last, audit[last].hash)
               kept == Keep(audit, DOMAIN audit \ gone)
    <3>1. InsertOne(kept, last_seq, last_hash, body) /\ UNCHANGED tx
      BY <2>5 DEF prune_before
    <3>2. body.ts \in Times BY DEF RetentionPruned
    <3>3. Stamped(kept) BY <1>2, KeepStamped DEF StampInv
    <3> HIDE DEF kept, body
    <3>4. Stamped(audit') /\ Stamped(written') BY <1>2, <3>1, <3>2, <3>3, InsertOneStamped
    <3> QED BY <1>2, <3>1, <3>4 DEF StampInv, Stamped
  <2>6. ASSUME NEW rows, Tamper(rows), Stamped(rows) PROVE StampInv'
    BY <1>2, <2>6 DEF Tamper, writer, StampInv, Stamped
  <2>7. ASSUME NEW n, Cut(n) \/ Remove(n) PROVE StampInv'
    <3>1. PICK S : Tamper(Keep(audit, S)) BY <2>7 DEF Cut, Remove
    <3> QED BY <1>2, <2>6, <3>1, KeepStamped DEF StampInv
  <2>8. ASSUME NEW m, NEW n, Restore(m, n) PROVE StampInv'
    <3>1. Tamper(Keep(written, m .. n)) BY <2>8 DEF Restore
    <3> QED BY <1>2, <2>6, <3>1, KeepStamped DEF StampInv
  <2>9. ASSUME NEW s, NEW t \in Times, Edit(s, t) PROVE StampInv'
    <3>1. PICK row \in Forgeries(s, t) : Tamper(Over([x \in {s} |-> row], audit))
      BY <2>9 DEF Edit
    <3>2. row.cols.ts \in Times BY <1>2, <2>9, ForgedStamped DEF Edit
    <3>3. Stamped([x \in {s} |-> row]) BY <3>2 DEF Stamped
    <3> QED BY <1>2, <2>6, <3>1, <3>3, OverStamped DEF StampInv
  <2>10. CASE Note \/ UNCHANGED vars
    BY <1>2, <2>10 DEF Note, vars, writer, database, StampInv, Stamped
  <2> QED
    BY <1>2, <2>1, <2>2, <2>3, <2>4, <2>5, <2>7, <2>8, <2>9, <2>10 DEF Next, Writer, Environment
<1> QED BY <1>1, <1>2, Invariance, PTL DEF Spec

\* Nothing the retention run passes over is younger than its cutoff, and what
\* it passes over fits its bound (prune_before's choice of `last`).
LEMMA PruneLastOld ==
    ASSUME IInv, StampInv, DOMAIN audit # {}, NEW cutoff \in Times
    PROVE  /\ prune_last(cutoff) \in Int
           /\ prune_last(cutoff) <= Min(DOMAIN audit) + MaxPrune - 1
           /\ \A s \in DOMAIN audit : s <= prune_last(cutoff) => audit[s].cols.ts < cutoff
<1> USE StoreAssumption DEF StoreAssumption
<1> DEFINE head == Max(DOMAIN audit)
           kept == {s \in DOMAIN audit : audit[s].cols.ts >= cutoff}
           first_kept == IF kept = {} THEN head ELSE Min(kept)
           cap == Min(DOMAIN audit) + MaxPrune - 1
           before == Min({first_kept, head}) - 1
<1>1. chain_head.seq \in Nat /\ DOMAIN audit \in SUBSET (1 .. chain_head.seq)
  BY DEF IInv, TypeOK, NumbersInv
<1>2. DOMAIN audit \in SUBSET Nat /\ DOMAIN audit \in SUBSET (0 .. chain_head.seq) BY <1>1
<1>3. head \in Nat /\ \A y \in DOMAIN audit : y <= head BY <1>1, <1>2, MaxNat
<1>4. Min(DOMAIN audit) \in Nat BY <1>2, MinNat
<1>5. kept \in SUBSET Nat BY <1>2
<1>6. first_kept \in Nat /\ \A s \in kept : first_kept <= s
  <2>1. CASE kept = {} BY <1>3, <2>1
  <2>2. CASE kept # {}
    <3>1. Min(kept) \in kept /\ \A y \in kept : Min(kept) <= y BY <1>5, <2>2, MinNat
    <3> QED BY <1>5, <2>2, <3>1
  <2> QED BY <2>1, <2>2
<1>7. cap \in Int BY <1>4
<1>8. prune_last(cutoff) = Min({before, cap}) BY DEF prune_last
<1>9. ASSUME NEW s \in DOMAIN audit, s \notin kept PROVE audit[s].cols.ts < cutoff
  <2>1. audit[s].cols.ts \in Nat /\ cutoff \in Nat BY DEF StampInv, Stamped
  <2>2. ~(audit[s].cols.ts >= cutoff) BY <1>9
  <2> QED BY <2>1, <2>2
<1> HIDE DEF first_kept, cap, head, kept
<1>10. before \in Int /\ before < first_kept
  <2>1. /\ Min({first_kept, head}) \in {first_kept, head}
        /\ Min({first_kept, head}) <= first_kept
    BY <1>3, <1>6, MinPair
  <2> QED BY <1>3, <1>6, <2>1
<1> HIDE DEF before
<1>11. /\ Min({before, cap}) \in {before, cap}
       /\ Min({before, cap}) <= before /\ Min({before, cap}) <= cap
  BY <1>7, <1>10, MinPair
<1>12. prune_last(cutoff) \in Int /\ prune_last(cutoff) < first_kept /\ prune_last(cutoff) <= cap
  BY <1>6, <1>7, <1>8, <1>10, <1>11
<1>13. ASSUME NEW s \in DOMAIN audit, s <= prune_last(cutoff) PROVE s \notin kept
  BY <1>2, <1>6, <1>12, <1>13
<1> QED BY <1>9, <1>12, <1>13 DEF cap

\* Retention deletes only rows older than its cutoff, the oldest ones in one
\* piece, at most MaxPrune of them, and never the newest, also in a table that
\* somebody edited, cut or replaced.
THEOREM RetentionIsSafe == Spec => PruneIsSafe
<1> USE StoreAssumption DEF StoreAssumption
<1>1. ASSUME IInv, StampInv, NEW cutoff \in Times, NEW now \in Times, prune_before(cutoff, now)
      PROVE  LET gone == DOMAIN audit \ DOMAIN audit'
             IN  /\ \A s \in gone : audit[s].cols.ts < cutoff
                 /\ \A s \in gone, k \in DOMAIN audit \ gone : s < k
                 /\ Cardinality(gone) <= MaxPrune
                 /\ head_seq \notin gone
  <2> DEFINE last == prune_last(cutoff)
             old == {s \in DOMAIN audit : s <= last}
             body == RetentionPruned(now, Cardinality(old), last, audit[last].hash)
             kept == Keep(audit, DOMAIN audit \ old)
             new == OneRow(last_seq + 1, body, last_hash)
             first == Min(DOMAIN audit)
  <2>1. /\ open /\ DOMAIN audit # {} /\ InsertOne(kept, last_seq, last_hash, body)
        /\ last \in DOMAIN audit
    BY <1>1 DEF prune_before, prune_due
  <2>2. /\ last_seq = chain_head.seq /\ chain_head.seq \in Nat
        /\ DOMAIN audit \subseteq 1 .. chain_head.seq
    BY <1>1, <2>1 DEF IInv, TypeOK, NumbersInv
  <2>3. DOMAIN audit' = {last_seq + 1} \cup (DOMAIN audit \ old)
    <3>1. audit' = Over(new, kept) BY <2>1 DEF InsertOne, Committed
    <3>2. DOMAIN new = {last_seq + 1} BY DEF OneRow
    <3>3. DOMAIN kept = DOMAIN audit \ old BY DEF Keep
    <3> HIDE DEF new, kept
    <3> QED BY <3>1, <3>2, <3>3, OverFacts
  <2>4. DOMAIN audit \ DOMAIN audit' = old BY <2>2, <2>3
  <2>5. /\ last \in Int /\ last <= first + MaxPrune - 1
        /\ \A s \in DOMAIN audit : s <= last => audit[s].cols.ts < cutoff
    BY <1>1, <2>1, PruneLastOld
  <2>6. DOMAIN audit \in SUBSET Nat BY <2>2
  <2>7. first \in Nat /\ \A y \in DOMAIN audit : first <= y BY <2>1, <2>6, MinNat
  <2> HIDE DEF last, first
  <2>8. \A s \in old, k \in DOMAIN audit \ old : s < k BY <2>5, <2>6
  <2>9. Cardinality(old) <= MaxPrune
    <3> DEFINE I == first .. first + MaxPrune - 1
    <3>1. old \in SUBSET I BY <2>5, <2>6, <2>7
    <3>2. first \in Int /\ first + MaxPrune - 1 \in Int /\ ~(first > first + MaxPrune - 1) BY <2>7
    <3>3. IsFiniteSet(I) /\ Cardinality(I) = (first + MaxPrune - 1) - first + 1
      BY <3>2, FS_Interval
    <3>4. Cardinality(I) = MaxPrune BY <2>7, <3>3
    <3> HIDE DEF I, old
    <3>5. Cardinality(old) <= Cardinality(I) BY <3>1, <3>3, FS_Subset
    <3> QED BY <3>4, <3>5
  <2>10. head_seq \notin old
    <3>1. last < Max(DOMAIN audit) BY <1>1, <2>1, PruneLast DEF last
    <3>2. head_seq = Max(DOMAIN audit) /\ head_seq \in DOMAIN audit BY <1>1, <2>1, HeadSeq
    <3> QED BY <2>5, <2>6, <3>1, <3>2
  <2> HIDE DEF old
  <2>11. \A s \in old : audit[s].cols.ts < cutoff BY <2>5 DEF old
  <2> QED BY <2>4, <2>8, <2>9, <2>10, <2>11
<1> DEFINE Safe(cutoff) ==
             LET gone == DOMAIN audit \ DOMAIN audit'
             IN  /\ \A s \in gone : audit[s].cols.ts < cutoff
                 /\ \A s \in gone, k \in DOMAIN audit \ gone : s < k
                 /\ Cardinality(gone) <= MaxPrune
                 /\ head_seq \notin gone
<1>2. IInv /\ StampInv => \A cutoff, now \in Times : prune_before(cutoff, now) => Safe(cutoff)
  BY <1>1
<1> QED BY <1>2, Invariance, StampInvariance, PTL DEF Spec, PruneIsSafe
===============================================================================
