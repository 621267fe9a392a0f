------------------------------ MODULE Assistant -------------------------------
(***************************************************************************)
(* The MCP endpoint (web/mcp.rs), and what it shares with the web UI: the  *)
(* alarms and their acknowledgement (web/mod.rs, audit/store.rs) and the   *)
(* audit settings (web/settings.rs).                                       *)
(*                                                                         *)
(* An assistant lists the alarms, shows them to its user, and acknowledges *)
(* up to one it showed; an operator acknowledges in the web UI; more alarms*)
(* are recorded meanwhile.  A tool call awaits between what it reads and   *)
(* what it changes.                                                        *)
(***************************************************************************)
EXTENDS Integers, Sequences, FiniteSets

CONSTANTS
    Calls,        \* requests of assistants and of the web UI, numbered as they begin
    Severities,   \* severities of alarms
    MaxRecords,   \* MAX_RECORDS: most records in one answer
    MarkRows,     \* most acknowledgements that are looked through
    MaxLog        \* bound of the model: records of the trail

ASSUME AssistantAssumption ==
    Calls \subseteq Nat /\ MaxRecords \in Nat \ {0} /\ MarkRows \in Nat \ {0} /\ MaxLog \in Nat

VARIABLES
    log,       \* the audit trail: alarms, acknowledgements, tool calls
    settings,  \* the audit settings: fail mode and retention (0: for ever)
    calls,     \* the requests
    shown,     \* history: per severity, the alarms the assistant's user was shown
    clipped    \* history: an answer left alarms out

astVars == <<log, settings, calls, shown, clipped>>

Modes == {"open", "closed"}
Retentions == {0, 1, 2}
Settings == [mode : Modes, days : Retentions]
Scopes == {"settings", "alarms"}
NotCalled == [at |-> "unused"]
Over == [at |-> "over"]

AstInit ==
    /\ log = <<>> /\ settings = [mode |-> "closed", days |-> 2]
    /\ calls = [c \in Calls |-> NotCalled]
    /\ shown = [s \in Severities |-> {}] /\ clipped = FALSE

Called(c) == calls[c] = NotCalled /\ \A d \in Calls : calls[d] = NotCalled => c <= d
Room == Len(log) < MaxLog
Alarm(s) == [kind |-> "alarm", severity |-> s]
Ack(s, upTo, via) == [kind |-> "ack", severity |-> s, upTo |-> upTo, via |-> via]

\* alarms: the newest acknowledgement of a severity is its mark
Acks == {i \in DOMAIN log : log[i].kind = "ack"}
RecentAcks == {i \in Acks : Cardinality({j \in Acks : j > i}) < MarkRows}
Mark(s) ==
    LET of == {i \in RecentAcks : log[i].severity = s}
    IN IF of = {} THEN 0 ELSE log[CHOOSE i \in of : \A j \in of : j <= i].upTo

Alarms(s, after, upTo) == {i \in DOMAIN log : log[i] = Alarm(s) /\ i > after /\ i <= upTo}

\* query: the newest MAX_RECORDS of them
Newest(seqs) == {i \in seqs : Cardinality({j \in seqs : j > i}) < MaxRecords}
-------------------------------------------------------------------------------
\* something goes wrong in the gateway (a refused token, rejected, is a warning too)
Raise ==
    /\ Room
    /\ \E s \in Severities : log' = Append(log, Alarm(s))
    /\ UNCHANGED <<settings, calls, shown, clipped>>

\* authenticate, post and the tools a caller sees: what the token's scopes and the role that
\* its user has at this moment allow
ScopeRole(scope) == IF scope = "alarms" THEN 2 ELSE 3
Tools(role) == {"list"} \cup {tool \in Scopes : role >= ScopeRole(tool)}

\* record: the tool call is in the trail before it runs; in fail-closed mode it does not
\* run without
BeginTool ==
    \E c \in Calls, tool \in UNION {Tools(role) : role \in 1..3}, stored \in {TRUE, FALSE} :
        /\ Called(c)
        /\ stored => Room
        /\ log' = IF stored THEN Append(log, [kind |-> "query"]) ELSE log
        /\ calls' = [calls EXCEPT ![c] =
             IF ~stored /\ settings.mode = "closed" THEN Over ELSE [at |-> tool]]
        /\ UNCHANGED <<settings, shown, clipped>>

\* unacknowledged: the mark first ...
ReadMark ==
    \E c \in Calls, s \in Severities :
        /\ calls[c].at = "list"
        /\ calls' = [calls EXCEPT ![c] = [at |-> "listing", severity |-> s, mark |-> Mark(s)]]
        /\ UNCHANGED <<log, settings, shown, clipped>>

\* ... then the records after it, which the assistant shows
List ==
    \E c \in Calls :
        /\ calls[c].at = "listing"
        /\ LET all == Alarms(calls[c].severity, calls[c].mark, Len(log))
           IN /\ shown' = [shown EXCEPT ![calls[c].severity] = @ \cup Newest(all)]
              /\ clipped' = (clipped \/ Newest(all) # all)
        /\ calls' = [calls EXCEPT ![c] = Over]
        /\ UNCHANGED <<log, settings>>

\* acknowledge_alarms of an assistant, up to an alarm that was shown
AckReads ==
    \E c \in Calls, s \in Severities :
        /\ calls[c].at = "alarms"
        /\ \E upTo \in shown[s] :
             calls' = [calls EXCEPT ![c] =
                IF Newest(Alarms(s, Mark(s), upTo)) = {} THEN Over
                ELSE [at |-> "acking", severity |-> s, upTo |-> upTo]]
        /\ UNCHANGED <<log, settings, shown, clipped>>

\* Mutant: the head is acknowledged instead of the number given.
UpToNow(call) == Ack(call.severity, Len(log), "mcp")

McpAck(call) == Ack(call.severity, call.upTo, "mcp")

AckRecords ==
    \E c \in Calls :
        /\ calls[c].at = "acking" /\ Room
        /\ log' = Append(log, McpAck(calls[c]))
        /\ calls' = [calls EXCEPT ![c] = Over]
        /\ UNCHANGED <<settings, shown, clipped>>

\* acknowledge_alarms of the web UI: counted, then up to the newest record, then recorded
WebAckCounts ==
    \E c \in Calls, s \in Severities :
        /\ Called(c)
        /\ calls' = [calls EXCEPT ![c] =
             IF Alarms(s, Mark(s), Len(log)) = {} THEN Over ELSE [at |-> "counted", severity |-> s]]
        /\ UNCHANGED <<log, settings, shown, clipped>>

WebAckHead ==
    \E c \in Calls :
        /\ calls[c].at = "counted"
        /\ calls' = [calls EXCEPT ![c] =
             [at |-> "webAcking", severity |-> calls[c].severity, upTo |-> Len(log)]]
        /\ UNCHANGED <<log, settings, shown, clipped>>

WebAckRecords ==
    \E c \in Calls :
        /\ calls[c].at = "webAcking" /\ Room
        /\ log' = Append(log, Ack(calls[c].severity, calls[c].upTo, "web"))
        /\ calls' = [calls EXCEPT ![c] = Over]
        /\ UNCHANGED <<settings, shown, clipped>>
-------------------------------------------------------------------------------
Longer(a, b) == a # b /\ (a = 0 \/ (b # 0 /\ a > b))

\* update_audit_settings: the given settings are compared with the present ones, and put
\* over them; put_audit then writes them all
MayChange(old, days, mode) ==
    /\ \A d \in days : ~Longer(old.days, d)
    /\ ~("open" \in mode /\ old.mode = "closed")

Overlay(old, days, mode) ==
    [mode |-> CHOOSE m \in Modes : IF mode = {} THEN m = old.mode ELSE m \in mode,
     days |-> CHOOSE d \in Retentions : IF days = {} THEN d = old.days ELSE d \in days]

AtMostOne(S) == {{}} \cup {{x} : x \in S}

SettingsRead ==
    \E c \in Calls, days \in AtMostOne(Retentions), mode \in AtMostOne(Modes) :
        /\ calls[c].at = "settings"
        /\ calls' = [calls EXCEPT ![c] =
             IF MayChange(settings, days, mode)
             THEN [at |-> "putting", new |-> Overlay(settings, days, mode)]
             ELSE Over]
        /\ UNCHANGED <<log, settings, shown, clipped>>

SettingsPut ==
    \E c \in Calls :
        /\ calls[c].at = "putting"
        /\ settings' = calls[c].new
        /\ calls' = [calls EXCEPT ![c] = Over]
        /\ UNCHANGED <<log, shown, clipped>>

\* put_audit of an administrator in the web UI
WebPut ==
    \E c \in Calls, new \in Settings :
        /\ Called(c)
        /\ settings' = new
        /\ calls' = [calls EXCEPT ![c] = Over]
        /\ UNCHANGED <<log, shown, clipped>>

AstNext ==
    \/ Raise
    \/ BeginTool \/ ReadMark \/ List \/ AckReads \/ AckRecords
    \/ WebAckCounts \/ WebAckHead \/ WebAckRecords
    \/ SettingsRead \/ SettingsPut \/ WebPut
-------------------------------------------------------------------------------
\* The settings, the calls and what was shown are of the shape the code gives them.
AstTypeOK ==
    /\ settings \in Settings
    /\ \A s \in Severities : shown[s] \subseteq DOMAIN log
    /\ \A c \in Calls : calls[c].at \in {"unused", "over", "list", "listing", "alarms", "acking",
                                          "counted", "webAcking", "settings", "putting"}

\* "records that arrived since are not acknowledged unseen": what an assistant acknowledges
\* was shown to its user, or was acknowledged in the web UI before, however the marks of
\* several acknowledgements at once move.  (Not when an answer left alarms out.)
AcknowledgedWereSeen ==
    ~clipped =>
        \A k \in Acks : log[k].via = "mcp" =>
            \A i \in Alarms(log[k].severity, 0, log[k].upTo) :
                \/ i \in shown[log[k].severity]
                \/ \E j \in Acks : log[j].via = "web" /\ log[j].severity = log[k].severity
                                    /\ i <= log[j].upTo

AstSpec == AstInit /\ [][AstNext]_astVars
===============================================================================
