------------------------------- MODULE AuditLog -------------------------------
(***************************************************************************)
(* What the audit store promises the rest of the gateway: a log that only  *)
(* grows, whose records never change, and from which retention hides a     *)
(* growing prefix, each time with a record that says up to where.          *)
(***************************************************************************)
EXTENDS Naturals

VARIABLES
    size,   \* number of records ever written
    entry,  \* the record under each number 1 .. size
    gone    \* records 1 .. gone are pruned

logVars == <<size, entry, gone>>

LogInit ==
    /\ size = 0
    /\ entry = [n \in {} |-> 0]
    /\ gone = 0

\* The log grows at its end.
Grow ==
    /\ size' > size
    /\ DOMAIN entry' = 1 .. size'
    /\ \A n \in 1 .. size : entry'[n] = entry[n]

Extend ==
    /\ Grow
    /\ gone' = gone

\* Retention: the newest record before the run stays.
Prune ==
    /\ Grow
    /\ size' = size + 1
    /\ gone < gone' /\ gone' < size
    /\ entry'[size'].kind = "retention_pruned"
    /\ entry'[size'].last_seq = gone'

LogNext == Extend \/ Prune

LogSpec == LogInit /\ [][LogNext]_logVars
===============================================================================
