---------------------------- MODULE ExportSettings -----------------------------
(***************************************************************************)
(* Changing where the trail is exported to (web/settings.rs, put_export):  *)
(* a request reads the present settings for the credentials it keeps,      *)
(* leaves the CA it was given in a file, checks, writes the settings and   *)
(* replaces the exporters (export/mod.rs, Exports::apply).  Only the       *)
(* settings are changed under a lock; the files and the exporters are      *)
(* shared by requests at once.                                             *)
(***************************************************************************)
EXTENDS Integers, FiniteSets

CONSTANTS Servers,     \* scheme, host and port of destinations
          Puts,        \* requests, numbered as they begin (bound of the model)
          MaxPutFaults \* bound of the model: settings not written

ASSUME PutAssumption ==
    Puts \subseteq Nat \ {0} /\ Servers # {} /\ "none" \notin Servers /\ MaxPutFaults \in Nat

VARIABLES
    xsConf,     \* the export settings
    xsPem,      \* questdb-ca.pem.new: the request whose CA it holds, 0: no file
    xsCa,       \* questdb-ca.pem
    xsTasks,    \* the exporters that run
    xsPut,      \* the requests
    xsFaults,   \* history: failures so far
    xsMixed     \* history: two requests were under way at once, or one failed behind its rename

xsVars == <<xsConf, xsPem, xsCa, xsTasks, xsPut, xsFaults, xsMixed>>

NoServer == "none"
NoExport == [server |-> NoServer, secretFor |-> NoServer, ca |-> FALSE]
Exports == [server : Servers, secretFor : Servers \cup {NoServer}, ca : BOOLEAN] \cup {NoExport}
NotPut == [at |-> "unused"]
PutOver == [at |-> "over"]

\* the gateway starts with the settings of its file, and the exporter of them
XsInit ==
    /\ LET s == CHOOSE server \in Servers : TRUE
       IN /\ xsConf = [server |-> s, secretFor |-> s, ca |-> FALSE]
          /\ xsTasks = {[by |-> 0, server |-> s, secretFor |-> s, ca |-> 0]}
    /\ xsPem = 0 /\ xsCa = 0
    /\ xsPut = [p \in Puts |-> NotPut]
    /\ xsFaults = 0 /\ xsMixed = FALSE

\* Mutant: stored credentials are kept whatever the server.
KeepsAnyway(server) == xsConf.secretFor

\* secret, of what same_server leaves: stored credentials only go to the server they were given for
KeptSecret(server) == IF xsConf.server = server THEN xsConf.secretFor ELSE NoServer

\* the exporter of the settings, with the CA it reads; the task of a request is its own
Sinks(p, conf) ==
    IF conf = NoExport THEN {}
    ELSE {[by |-> p, server |-> conf.server, secretFor |-> conf.secretFor,
           ca |-> IF conf.ca THEN xsCa ELSE 0]}

PutTo(p, r) == xsPut' = [xsPut EXCEPT ![p] = r]
UnderWay == {p \in Puts : xsPut[p] \notin {NotPut, PutOver}}
-------------------------------------------------------------------------------
\* put_export reads the settings, and writes down what it will save
PutRead(p) ==
    /\ xsPut[p] = NotPut /\ \A q \in Puts : xsPut[q] = NotPut => p <= q
    /\ \/ PutTo(p, [at |-> "update", new |-> NoExport])
       \/ \E server \in Servers, pem \in BOOLEAN, secret \in {"kept", "removed", "given"} :
            PutTo(p, [at |-> IF pem THEN "pem" ELSE "update",
                      new |-> [server |-> server, ca |-> pem, secretFor |->
                                  CASE secret = "kept" -> KeptSecret(server)
                                    [] secret = "removed" -> NoServer
                                    [] secret = "given" -> server]])
    /\ xsMixed' = (xsMixed \/ UnderWay # {})
    /\ UNCHANGED <<xsConf, xsPem, xsCa, xsTasks, xsFaults>>

\* the given CA, in the file of that name
PutPem(p) ==
    /\ xsPut[p].at = "pem"
    /\ xsPem' = p
    /\ PutTo(p, [xsPut[p] EXCEPT !.at = "rename"])
    /\ UNCHANGED <<xsConf, xsCa, xsTasks, xsFaults, xsMixed>>

\* Exports::check reads it; then it gets its final name
PutRename(p) ==
    /\ xsPut[p].at = "rename"
    /\ IF xsPem = 0 THEN PutTo(p, PutOver) /\ UNCHANGED <<xsPem, xsCa>>
       ELSE /\ xsCa' = xsPem /\ xsPem' = 0
            /\ PutTo(p, [xsPut[p] EXCEPT !.at = "update"])
    /\ UNCHANGED <<xsConf, xsTasks, xsFaults, xsMixed>>

\* update_settings
PutUpdate(p) ==
    /\ xsPut[p].at = "update"
    /\ xsConf' = xsPut[p].new
    /\ PutTo(p, [xsPut[p] EXCEPT !.at = "drain"])
    /\ UNCHANGED <<xsPem, xsCa, xsTasks, xsFaults, xsMixed>>

PutFails(p) ==
    /\ xsPut[p].at = "update" /\ xsFaults < MaxPutFaults
    /\ xsFaults' = xsFaults + 1
    /\ PutTo(p, PutOver)
    /\ xsMixed' = (xsMixed \/ xsPut[p].new.ca)
    /\ UNCHANGED <<xsConf, xsPem, xsCa, xsTasks>>

\* apply: every exporter is stopped, then those of the settings start
\* (the sinks are made before, with the CA as the file is now)
ApplyDrains(p) ==
    /\ xsPut[p].at = "drain"
    /\ xsTasks' = {}
    /\ PutTo(p, [at |-> "start", sinks |-> Sinks(p, xsPut[p].new)])
    /\ UNCHANGED <<xsConf, xsPem, xsCa, xsFaults, xsMixed>>

ApplyStarts(p) ==
    /\ xsPut[p].at = "start"
    /\ xsTasks' = xsTasks \cup xsPut[p].sinks
    /\ PutTo(p, PutOver)
    /\ UNCHANGED <<xsConf, xsPem, xsCa, xsFaults, xsMixed>>

XsNext ==
    \E p \in Puts :
        \/ PutRead(p) \/ PutPem(p) \/ PutRename(p) \/ PutUpdate(p) \/ PutFails(p)
        \/ ApplyDrains(p) \/ ApplyStarts(p)
-------------------------------------------------------------------------------
\* The settings, the files and the exporters are of the shape the code gives them.
XsTypeOK ==
    /\ xsConf \in Exports
    /\ xsPem \in Puts \cup {0} /\ xsCa \in Puts \cup {0}
    /\ \A t \in xsTasks : t.by \in Puts \cup {0} /\ t.server \in Servers /\ t.ca \in Puts \cup {0}
    /\ \A p \in Puts :
         xsPut[p].at \in {"unused", "over", "pem", "rename", "update", "drain", "start"}
    /\ xsFaults \in 0 .. MaxPutFaults /\ xsMixed \in BOOLEAN

\* "Stored credentials only go to the server they were given for": neither the settings
\* nor an exporter that runs pairs a server with the credentials of another, whatever the
\* settings became between a request's read and its write.
CredentialsStay ==
    /\ xsConf.secretFor \in {NoServer, xsConf.server}
    /\ \A t \in xsTasks : t.secretFor \in {NoServer, t.server}

\* Between requests exactly the exporter of the settings runs, and it trusts the CA that
\* was given with them.  (Not after two requests at once, which share the files and may
\* start an exporter each, nor after one that failed behind the rename of its CA.)
ExportsAsConfigured ==
    (UnderWay = {} /\ ~xsMixed) =>
        IF xsConf = NoExport THEN xsTasks = {}
        ELSE \E p \in Puts \cup {0} :
               xsTasks = {[by |-> p, server |-> xsConf.server, secretFor |-> xsConf.secretFor,
                           ca |-> IF xsConf.ca THEN p ELSE 0]}

\* The export goes where it was told to go: no credentials to another server, and between
\* requests by exactly the configured exporter.
ExportsAsGiven == CredentialsStay /\ ExportsAsConfigured

XsSpec == XsInit /\ [][XsNext]_xsVars
================================================================================
