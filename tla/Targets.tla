------------------------------- MODULE Targets --------------------------------
(***************************************************************************)
(* The target manager (targets.rs) and the web requests that use it        *)
(* (web/mod.rs, web/settings.rs, and the same changes through web/mcp.rs). *)
(* It keeps three things in step: the configuration file, the              *)
(* configuration in memory and the targets that run.                       *)
(*                                                                         *)
(* A change holds the lock of the configuration from its check to its end. *)
(* It awaits in between (a target stops, a port is bound), binding a port  *)
(* or writing the file may fail, and the HTTP client may leave, which drops*)
(* the change where it stands.  restart_all, which the requests for a new  *)
(* gateway certificate await, takes the locks one after the other; several *)
(* may run at once, and each is dropped with its request.  A target that   *)
(* nobody knows any more may go on listening.                              *)
(***************************************************************************)
EXTENDS Integers, FiniteSets

CONSTANTS
    TgtNames,    \* target names
    Ports,       \* listen addresses
    TgtNodes,    \* nodes that can be summarised
    Restarts,    \* the requests that restart every target, of which several may run
    MaxEdits,    \* bound of the model: changes that are begun
    Failures,    \* bound of the model: ports not bound and files not written
    Drops        \* bound of the model: changes dropped by their client

ASSUME TgtAssumption ==
    TgtNames # {} /\ Ports # {} /\ MaxEdits \in Nat /\ Failures \in Nat /\ Drops \in Nat

VARIABLES
    file,      \* the configuration file: its targets, and a setting
    config,    \* TargetManager.config
    running,   \* TargetManager.running
    op,        \* the change that holds the configuration's lock
    copied,    \* the target that update_target read, before it has the lock
    restart,   \* where each restart_all is
    orphans,   \* ports on which a relay listens that is no longer in running
    edits,     \* history: changes begun
    failed,  \* history: failures so far
    drops,     \* history: changes dropped
    unsettled, \* history: names whose change or restart was dropped, or that did not start
    ahead,     \* history: a change was dropped after it wrote the file
    putBack,   \* history: names put back by a failed change
    stale      \* history: names that restart_all started from an older copy

tgtVars == <<file, config, running, op, copied, restart, orphans, edits, failed, drops, unsettled, ahead, putBack, stale>>

Off == [off |-> TRUE]
Idle == [kind |-> "idle"]
NotRestarting ==
    [kind |-> "idle", mine |-> {}, left |-> {}, targets |-> [n \in TgtNames |-> Off], todo |-> {}]
NoCopy == [name |-> "none", groups |-> {}]
Configs == [port : Ports, groups : SUBSET TgtNodes]

TgtInit ==
        LET t == CHOOSE n \in TgtNames : TRUE
            p == CHOOSE q \in Ports : TRUE
            targets == [n \in TgtNames |-> IF n = t THEN [port |-> p, groups |-> {}] ELSE Off]
        IN /\ config = [targets |-> targets, setting |-> 0]
           /\ file = config
           /\ running = [n \in TgtNames |->
                IF n = t THEN [port |-> p, groups |-> {}, first |-> {}] ELSE Off]
           /\ op = Idle /\ copied = NoCopy
           /\ restart = [h \in Restarts |-> NotRestarting] /\ orphans = {}
           /\ edits = 0 /\ failed = 0 /\ drops = 0
           /\ unsettled = {} /\ ahead = FALSE /\ putBack = {} /\ stale = {}

\* Config::validate: no two targets share a listen address
Valid(targets) ==
    \A n, m \in TgtNames :
        (n # m /\ targets[n] # Off /\ targets[m] # Off) => targets[n].port # targets[m].port

\* start: the relay keeps the target's configuration of this moment, and matches with its groups
Started(t) == [port |-> t.port, groups |-> t.groups, first |-> t.groups]

\* write_targets: the targets of the file, and nothing else of it
WriteTargets(targets) == file' = [file EXCEPT !.targets = targets]

\* the ports on which a relay listens: of a running target, of one that a restart has yet
\* to stop, or of one that nobody stops
Held == {running[n].port : n \in {m \in TgtNames : running[m] # Off}}
            \cup UNION {restart[h].left : h \in Restarts} \cup orphans

\* running.insert: a relay that it replaces is dropped, and goes on listening
Insert(n, t) ==
    /\ running' = [running EXCEPT ![n] = Started(t)]
    /\ orphans' = orphans \cup IF running[n] = Off THEN {} ELSE {running[n].port}

Begin == op = Idle /\ edits < MaxEdits /\ edits' = edits + 1
LockFree == \A h \in Restarts : restart[h].kind # "starting"
Fails == failed < Failures /\ failed' = failed + 1

\* start fails: the port is taken, or it cannot be bound for another reason
CannotStart(t) == Fails \/ (t.port \in Held /\ UNCHANGED failed)
-------------------------------------------------------------------------------
\* update_target keeps the groups that it reads here
UpdateRead ==
    /\ copied = NoCopy /\ op = Idle /\ edits < MaxEdits
    /\ \E n \in TgtNames :
         config.targets[n] # Off /\ copied' = [name |-> n, groups |-> config.targets[n].groups]
    /\ UNCHANGED <<file, config, running, op, restart, orphans, edits, failed, drops, unsettled, ahead, putBack, stale>>

\* upsert takes the lock; a target it replaces stops first, as it may hold the same port
Upsert(old, new, target, replaces) ==
    LET targets == [config.targets EXCEPT ![old] = Off, ![new] = target]
    IN /\ Begin /\ LockFree
       /\ new # old \/ ~replaces => config.targets[new] = Off
       /\ Valid(targets)
       /\ op' = [kind |-> "upsert", old |-> old, new |-> new, targets |-> targets,
                 replaces |-> replaces, was |-> IF replaces THEN running[old] ELSE Off]
       /\ running' = IF replaces THEN [running EXCEPT ![old] = Off] ELSE running
       /\ UNCHANGED <<file, config, restart, orphans, failed, drops, unsettled, ahead, putBack, stale>>

CreateTarget ==
    /\ \E new \in TgtNames, p \in Ports :
         Upsert(new, new, [port |-> p, groups |-> {}], FALSE)
    /\ UNCHANGED copied

UpdateTarget ==
    /\ copied # NoCopy /\ config.targets[copied.name] # Off
    /\ \E new \in TgtNames, p \in Ports :
         Upsert(copied.name, new, [port |-> p, groups |-> copied.groups], TRUE)
    /\ copied' = NoCopy

\* the target is gone, or the change is not valid
UpdateRefused ==
    /\ copied # NoCopy /\ op = Idle
    /\ copied' = NoCopy
    /\ UNCHANGED <<file, config, running, op, restart, orphans, edits, failed, drops, unsettled, ahead, putBack, stale>>

\* the new instance runs and the file is written: the change counts
UpsertCommit ==
    /\ op.kind = "upsert" /\ op.targets[op.new].port \notin Held
    /\ Insert(op.new, op.targets[op.new])
    /\ WriteTargets(op.targets)
    /\ config' = [config EXCEPT !.targets = op.targets]
    /\ op' = Idle
    /\ unsettled' = unsettled \ {op.old, op.new}
    /\ putBack' = putBack \ {op.old, op.new}
    /\ stale' = stale \ {op.old, op.new}
    /\ ahead' = FALSE
    /\ UNCHANGED <<copied, restart, edits, failed, drops>>

\* the port cannot be bound, or the file not written: the target that was stopped is put
\* back, started from the configuration its relay was started with
PutBack(was) == Started([port |-> was.port, groups |-> was.first])

UpsertFails ==
    /\ op.kind = "upsert" /\ CannotStart(op.targets[op.new])
    /\ IF op.was = Off THEN UNCHANGED <<running, putBack>>
       ELSE /\ op.was.port \notin Held
            /\ running' = [running EXCEPT ![op.old] = PutBack(op.was)]
            /\ putBack' = putBack \cup {op.old}
    /\ op' = Idle
    /\ UNCHANGED <<copied, file, config, restart, orphans, edits, drops, unsettled, ahead, stale>>

\* ... and the old target does not start either
UpsertFailsTwice ==
    /\ op.kind = "upsert" /\ op.was # Off /\ Fails
    /\ unsettled' = unsettled \cup {op.old}
    /\ op' = Idle
    /\ UNCHANGED <<copied, file, config, running, restart, orphans, edits, drops, ahead, putBack, stale>>

\* update_summarise, for the requests on summarise groups: the file, the running target,
\* the configuration
SummariseWrite ==
    /\ Begin
    /\ \E n \in TgtNames, groups \in SUBSET TgtNodes :
         /\ config.targets[n] # Off /\ groups # config.targets[n].groups
         /\ WriteTargets([config.targets EXCEPT ![n].groups = groups])
         /\ op' = [kind |-> "summarise", name |-> n, groups |-> groups]
    /\ ahead' = FALSE
    /\ UNCHANGED <<copied, config, running, restart, orphans, failed, drops, unsettled, putBack, stale>>

\* Mutant: the running target is not told.
FileOnly(n, groups) == UNCHANGED running

SetGroups(n, groups) ==
    running' = IF running[n] = Off THEN running ELSE [running EXCEPT ![n].groups = groups]

SummariseApply ==
    /\ op.kind = "summarise" /\ LockFree
    /\ SetGroups(op.name, op.groups)
    /\ config' = [config EXCEPT !.targets[op.name].groups = op.groups]
    /\ op' = Idle
    /\ UNCHANGED <<copied, file, restart, orphans, edits, failed, drops, unsettled, ahead, putBack, stale>>

\* remove, for delete_target: the file first, then the target stops, then the configuration
RemoveWrite ==
    /\ Begin /\ LockFree
    /\ \E n \in TgtNames :
         /\ config.targets[n] # Off
         /\ WriteTargets([config.targets EXCEPT ![n] = Off])
         /\ running' = [running EXCEPT ![n] = Off]
         /\ op' = [kind |-> "remove", name |-> n]
         /\ unsettled' = unsettled \ {n} /\ putBack' = putBack \ {n} /\ stale' = stale \ {n}
    /\ ahead' = FALSE
    /\ UNCHANGED <<copied, config, restart, orphans, failed, drops>>

RemoveEnd ==
    /\ op.kind = "remove"
    /\ config' = [config EXCEPT !.targets[op.name] = Off]
    /\ op' = Idle
    /\ UNCHANGED <<copied, file, running, restart, orphans, edits, failed, drops, unsettled, ahead, putBack, stale>>

\* Mutant: the file is written anew from the settings.
WholeFile(v) == file' = [targets |-> [n \in TgtNames |-> Off], setting |-> v]

\* update_settings, for put_audit, put_export, put_gateway and put_mcp: only its own keys of
\* the file, nothing awaited
WriteSettings(v) == file' = [file EXCEPT !.setting = v]

UpdateSettings ==
    /\ Begin
    /\ \E v \in {1, 2} :
         /\ WriteSettings(v)
         /\ config' = [config EXCEPT !.setting = v]
    /\ UNCHANGED <<copied, running, op, restart, orphans, failed, drops, unsettled, ahead, putBack, stale>>

\* a change whose file cannot be written (or whose result is not valid) changes nothing
WriteFails ==
    /\ Begin /\ Fails
    /\ UNCHANGED <<copied, file, config, running, op, restart, orphans, drops, unsettled, ahead, putBack, stale>>

\* the HTTP client leaves while the change awaits: the rest of it never runs
Drop ==
    /\ op.kind # "idle" /\ drops < Drops
    /\ drops' = drops + 1
    /\ op' = Idle
    /\ unsettled' = unsettled \cup CASE op.kind = "upsert" /\ op.replaces -> {op.old}
                                    [] op.kind = "remove" -> {op.name}
                                    [] OTHER -> {}
    /\ ahead' = (ahead \/ op.kind # "upsert")
    /\ UNCHANGED <<copied, file, config, running, restart, orphans, edits, failed, putBack, stale>>
-------------------------------------------------------------------------------
\* restart_all, after the gateway's certificate changed: stop_all takes every running
\* target, and stops one after the other
RestartTake(h) ==
    /\ restart[h].kind = "idle" /\ op.kind # "upsert" /\ LockFree
    /\ edits < MaxEdits /\ edits' = edits + 1
    /\ LET taken == {n \in TgtNames : running[n] # Off}
       IN restart' = [restart EXCEPT ![h] =
            [NotRestarting EXCEPT !.kind = "stopping", !.mine = taken,
                                  !.left = {running[n].port : n \in taken}]]
    /\ running' = [n \in TgtNames |-> Off]
    /\ UNCHANGED <<copied, file, config, op, orphans, failed, drops, unsettled, ahead, putBack, stale>>

RestartStop(h) ==
    /\ restart[h].kind = "stopping"
    /\ \E p \in restart[h].left : restart' = [restart EXCEPT ![h].left = @ \ {p}]
    /\ UNCHANGED <<copied, file, config, running, op, orphans, edits, failed, drops, unsettled, ahead, putBack, stale>>

\* start_all copies the configuration, and then takes the lock of the running targets
RestartCopy(h) ==
    /\ restart[h].kind = "stopping" /\ restart[h].left = {} /\ op = Idle
    /\ restart' = [restart EXCEPT ![h] =
         [@ EXCEPT !.kind = "copied", !.targets = config.targets,
                   !.todo = {n \in TgtNames : config.targets[n] # Off}]]
    /\ UNCHANGED <<copied, file, config, running, op, orphans, edits, failed, drops, unsettled, ahead, putBack, stale>>

RestartLock(h) ==
    /\ restart[h].kind = "copied" /\ op.kind # "upsert" /\ LockFree
    /\ restart' = [restart EXCEPT ![h].kind = "starting"]
    /\ UNCHANGED <<copied, file, config, running, op, orphans, edits, failed, drops, unsettled, ahead, putBack, stale>>

\* ... and starts what it has copied, one after the other
RestartStart(h) ==
    /\ restart[h].kind = "starting"
    /\ \E n \in restart[h].todo :
         /\ restart[h].targets[n].port \notin Held
         /\ Insert(n, restart[h].targets[n])
         /\ restart' = [restart EXCEPT ![h].todo = @ \ {n}]
         /\ unsettled' = unsettled \ {n} /\ putBack' = putBack \ {n}
         /\ stale' = IF restart[h].targets[n] = config.targets[n] /\ op # [kind |-> "remove", name |-> n]
                     THEN stale \ {n} ELSE stale \cup {n}
    /\ UNCHANGED <<copied, file, config, op, edits, failed, drops, ahead>>

\* a target that cannot be started is skipped
RestartSkip(h) ==
    /\ restart[h].kind = "starting"
    /\ \E n \in restart[h].todo :
         /\ CannotStart(restart[h].targets[n])
         /\ restart' = [restart EXCEPT ![h].todo = @ \ {n}]
         /\ unsettled' = IF running[n] = Off THEN unsettled \cup {n} ELSE unsettled
    /\ UNCHANGED <<copied, file, config, running, op, orphans, edits, drops, ahead, putBack, stale>>

RestartEnd(h) ==
    /\ restart[h].kind = "starting" /\ restart[h].todo = {}
    /\ restart' = [restart EXCEPT ![h] = NotRestarting]
    /\ UNCHANGED <<copied, file, config, running, op, orphans, edits, failed, drops, unsettled, ahead, putBack, stale>>

\* the client of such a request leaves: of the targets taken, the one that is being stopped
\* has its order to stop, the others go on listening, and none is started again
DropRestart(h) ==
    /\ restart[h].kind # "idle" /\ drops < Drops
    /\ drops' = drops + 1
    /\ restart' = [restart EXCEPT ![h] = NotRestarting]
    /\ IF restart[h].left = {} THEN UNCHANGED orphans
       ELSE \E p \in restart[h].left : orphans' = orphans \cup (restart[h].left \ {p})
    /\ unsettled' = unsettled \cup {n \in restart[h].mine : running[n] = Off}
    /\ UNCHANGED <<copied, file, config, running, op, edits, failed, ahead, putBack, stale>>

RestartStep(h) ==
    RestartTake(h) \/ RestartStop(h) \/ RestartCopy(h) \/ RestartLock(h) \/ RestartStart(h)
        \/ RestartSkip(h) \/ RestartEnd(h) \/ DropRestart(h)

\* the process ends, at any point, and starts again from the file
CrashAndStart ==
    /\ edits < MaxEdits /\ edits' = edits + 1
    /\ config' = file
    /\ running' = [n \in TgtNames |->
         IF file.targets[n] = Off THEN Off ELSE Started(file.targets[n])]
    /\ op' = Idle /\ copied' = NoCopy
    /\ restart' = [h \in Restarts |-> NotRestarting] /\ orphans' = {}
    /\ unsettled' = {} /\ ahead' = FALSE /\ putBack' = {} /\ stale' = {}
    /\ UNCHANGED <<file, failed, drops>>

TgtNext ==
    \/ UpdateRead \/ CreateTarget \/ UpdateTarget \/ UpdateRefused
    \/ UpsertCommit \/ UpsertFails \/ UpsertFailsTwice
    \/ SummariseWrite \/ SummariseApply
    \/ RemoveWrite \/ RemoveEnd
    \/ UpdateSettings \/ WriteFails \/ Drop
    \/ \E h \in Restarts : RestartStep(h)
    \/ CrashAndStart
-------------------------------------------------------------------------------
\* The configurations and the running targets are of the shape the code gives them.
TgtTypeOK ==
    /\ \A c \in {file, config} :
         c.setting \in 0..2 /\ \A n \in TgtNames : c.targets[n] \in Configs \cup {Off}
    /\ \A n \in TgtNames : running[n] = Off \/ running[n].groups \subseteq TgtNodes
    /\ copied = NoCopy \/ copied.name \in TgtNames
    /\ op.kind \in {"idle", "upsert", "summarise", "remove"}
    /\ orphans \subseteq Ports
    /\ \A h \in Restarts :
         /\ restart[h].kind \in {"idle", "stopping", "copied", "starting"}
         /\ restart[h].left \subseteq Ports /\ restart[h].mine \cup restart[h].todo \subseteq TgtNames

\* Between changes, what a restart of the process would load is what the gateway works
\* with, for the targets and for the settings, whatever failed and whatever came at once:
\* no change writes over another's part of the file.  (Not after a change that was dropped
\* once it had written the file, until the targets are written again.)
ConfigIsSaved ==
    op = Idle =>
        /\ file.setting = config.setting
        /\ ~ahead => file.targets = config.targets

Quiet == op = Idle /\ \A h \in Restarts : restart[h].kind = "idle"

\* Between changes, the targets that run are the configured ones, with the configured
\* address: a failed change leaves the old target running.  The code does not promise it,
\* and this does not ask it, of a name whose change or restart was dropped (its target may
\* stay stopped, or be listening though nobody knows it), that could not be started, or
\* that restart_all started from an older copy: it may then run though it was removed.
RunningAsConfigured ==
    Quiet => \A n \in TgtNames \ (unsettled \cup stale) :
               IF config.targets[n] = Off THEN running[n] = Off
               ELSE running[n] # Off /\ running[n].port = config.targets[n].port

\* Between changes, a target summarises exactly the nodes it is configured to summarise,
\* so that no other write goes unrecorded.  The same names are left out, and a target that
\* a failed change put back: that one has the groups it was once started with.
SummarisesAsConfigured ==
    Quiet => \A n \in TgtNames \ (unsettled \cup stale \cup putBack) :
               running[n] # Off => running[n].groups = config.targets[n].groups

\* Between changes, what runs is what is configured: the targets, their addresses and the
\* nodes they summarise (but for the names that RunningAsConfigured leaves out).
TargetsAsConfigured == RunningAsConfigured /\ SummarisesAsConfigured

TgtSpec == TgtInit /\ [][TgtNext]_tgtVars
===============================================================================
