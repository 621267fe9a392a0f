----------------------------- MODULE ConfigProofs ------------------------------
(***************************************************************************)
(* Proofs about the configuration: the settings of the export (module      *)
(* ExportSettings) and the targets (module Targets).                       *)
(***************************************************************************)
EXTENDS Targets, ExportSettings, TLAPS

-------------------------------------------------------------------------------
(***************************************************************************)
(* The settings of the export                                              *)
(***************************************************************************)
Exporters == [by : Puts \cup {0}, server : Servers, secretFor : Servers \cup {NoServer},
              ca : Puts \cup {0}]
PutSteps == [at : {"pem", "rename", "update", "drain"}, new : Exports]
PutStarts == [at : {"start"}, sinks : SUBSET Exporters]

XsTyped ==
    /\ xsConf \in Exports
    /\ xsPem \in Puts \cup {0} /\ xsCa \in Puts \cup {0}
    /\ xsTasks \subseteq Exporters
    /\ xsPut \in [Puts -> {NotPut, PutOver} \cup PutSteps \cup PutStarts]
    /\ xsMixed \in BOOLEAN

\* the credentials are those of the server they are kept with
OwnSecret(e) == e.secretFor \in {NoServer, e.server}

SecretsOwn ==
    /\ OwnSecret(xsConf)
    /\ \A t \in xsTasks : OwnSecret(t)
    /\ \A p \in Puts :
         /\ xsPut[p] \in PutSteps => OwnSecret(xsPut[p].new)
         /\ xsPut[p] \in PutStarts => \A t \in xsPut[p].sinks : OwnSecret(t)

\* the exporters of the settings conf, when request p gave them their CA
ExportersOf(p, conf) ==
    IF conf = NoExport THEN {}
    ELSE {[by |-> p, server |-> conf.server, secretFor |-> conf.secretFor,
           ca |-> IF conf.ca THEN p ELSE 0]}

Ended == {NotPut, PutOver}
PutEarly == {r \in PutSteps : r.at # "drain"}

\* what request p has brought about at the stage where it is
PutProgress(p) ==
    /\ xsPut[p] \in PutSteps =>
         /\ xsPut[p].at \in {"pem", "rename"} => xsPut[p].new.ca
         /\ xsPut[p].at = "rename" => xsPem = p
         /\ xsPut[p].at \in {"update", "drain"} => (xsPut[p].new.ca => xsCa = p)
         /\ xsPut[p].at = "drain" => xsConf = xsPut[p].new
    /\ xsPut[p] \in PutStarts => xsTasks = {} /\ xsPut[p].sinks = ExportersOf(p, xsConf)

\* one request at a time: the exporters are those of the settings, except while the
\* request that has replaced the settings replaces the exporters
XsOrderly ==
    /\ \A p, q \in Puts : p # q => xsPut[p] \in Ended \/ xsPut[q] \in Ended
    /\ (\A p \in Puts : xsPut[p] \in Ended \cup PutEarly) =>
         \E p \in Puts \cup {0} : xsTasks = ExportersOf(p, xsConf)
    /\ \A p \in Puts : PutProgress(p)

XsInv == XsTyped /\ SecretsOwn /\ (~xsMixed => XsOrderly)

\* A request is at one stage.
LEMMA Stages ==
    ASSUME NEW r, r \in Ended \cup PutSteps \cup PutStarts
    PROVE  /\ r \in Ended <=> r.at \in {"unused", "over"}
           /\ r \in PutSteps <=> r.at \in {"pem", "rename", "update", "drain"}
           /\ r \in PutEarly <=> r.at \in {"pem", "rename", "update"}
           /\ r \in PutStarts <=> r.at = "start"
BY DEF Ended, PutSteps, PutStarts, PutEarly, NotPut, PutOver

\* What put_export writes down goes to the server that was given, with its credentials.
LEMMA ReadsOwnSecret ==
    ASSUME XsTyped, SecretsOwn, NEW server \in Servers
    PROVE  KeptSecret(server) \in {NoServer, server}
BY DEF XsTyped, SecretsOwn, OwnSecret, KeptSecret

LEMMA XsInitially == XsInit => XsInv
<1> SUFFICES ASSUME XsInit PROVE XsInv
  OBVIOUS
<1> PICK s : s = CHOOSE server \in Servers : TRUE
  OBVIOUS
<1>1. s \in Servers
  BY PutAssumption
<1>2. /\ xsConf = [server |-> s, secretFor |-> s, ca |-> FALSE]
      /\ xsTasks = {[by |-> 0, server |-> s, secretFor |-> s, ca |-> 0]}
      /\ xsPem = 0 /\ xsCa = 0 /\ xsMixed = FALSE
      /\ xsPut = [p \in Puts |-> NotPut]
  BY DEF XsInit
<1>3. XsTyped
  <2>1. xsConf \in Exports
    BY <1>1, <1>2 DEF Exports
  <2>2. xsTasks \subseteq Exporters
    BY <1>1, <1>2 DEF Exporters
  <2>3. xsPut \in [Puts -> {NotPut, PutOver} \cup PutSteps \cup PutStarts]
    BY <1>2
  <2> QED
    BY <1>2, <2>1, <2>2, <2>3 DEF XsTyped
<1>4. \A p \in Puts : xsPut[p] \in Ended /\ xsPut[p] \notin PutSteps /\ xsPut[p] \notin PutStarts
  BY <1>2 DEF Ended, NotPut, PutSteps, PutStarts
<1>5. SecretsOwn
  BY <1>2, <1>4 DEF SecretsOwn, OwnSecret
<1>6. xsTasks = ExportersOf(0, xsConf)
  BY <1>1, <1>2, PutAssumption DEF ExportersOf, NoExport, NoServer
<1>7. XsOrderly
  BY <1>4, <1>6 DEF XsOrderly, PutProgress
<1> QED
  BY <1>3, <1>5, <1>7 DEF XsInv

\* A step of request p leaves the others where they are.
LEMMA OnlyPut ==
    ASSUME XsTyped, NEW p \in Puts, NEW r \in {NotPut, PutOver} \cup PutSteps \cup PutStarts,
           xsPut' = [xsPut EXCEPT ![p] = r]
    PROVE  /\ xsPut' \in [Puts -> {NotPut, PutOver} \cup PutSteps \cup PutStarts]
           /\ xsPut'[p] = r
           /\ \A q \in Puts : q # p => xsPut'[q] = xsPut[q]
BY DEF XsTyped

\* The credentials stay with their server when those of the step do.
LEMMA OnlyOwnSecrets ==
    ASSUME XsTyped, SecretsOwn, NEW p \in Puts,
           NEW r \in {NotPut, PutOver} \cup PutSteps \cup PutStarts,
           xsPut' = [xsPut EXCEPT ![p] = r],
           r \in PutSteps => OwnSecret(r.new),
           r \in PutStarts => \A t \in r.sinks : OwnSecret(t),
           OwnSecret(xsConf'), \A t \in xsTasks' : OwnSecret(t)
    PROVE  SecretsOwn'
<1>1. /\ xsPut'[p] = r
      /\ \A q \in Puts : q # p => xsPut'[q] = xsPut[q]
  BY OnlyPut
<1>2. ASSUME NEW q \in Puts
      PROVE  /\ xsPut'[q] \in PutSteps => OwnSecret(xsPut'[q].new)
             /\ xsPut'[q] \in PutStarts => \A t \in xsPut'[q].sinks : OwnSecret(t)
  <2>1. CASE q = p
    BY <1>1, <2>1
  <2>2. CASE q # p
    BY <1>1, <2>2 DEF SecretsOwn
  <2> QED
    BY <2>1, <2>2
<1> QED
  BY <1>2 DEF SecretsOwn, OwnSecret

\* When the request that steps is the only one, what it has brought about is all there is to show.
LEMMA OnlyOrderly ==
    ASSUME XsTyped, XsOrderly, NEW p \in Puts,
           NEW r \in {NotPut, PutOver} \cup PutSteps \cup PutStarts,
           xsPut' = [xsPut EXCEPT ![p] = r],
           \A q \in Puts : q # p => xsPut[q] \in Ended,
           r \in Ended \cup PutEarly =>
               \E q \in Puts \cup {0} : xsTasks' = ExportersOf(q, xsConf'),
           PutProgress(p)'
    PROVE  XsOrderly'
<1>1. /\ xsPut'[p] = r
      /\ \A q \in Puts : q # p => xsPut'[q] = xsPut[q]
  BY OnlyPut
<1>2. \A q \in Puts : q # p => xsPut'[q] \in Ended
  BY <1>1
<1>3. \A q \in Puts : q # p => PutProgress(q)'
  BY <1>2 DEF PutProgress, Ended, NotPut, PutOver, PutSteps, PutStarts
<1>4. \A q \in Puts : PutProgress(q)'
  <2> TAKE q \in Puts
  <2>1. CASE q = p
    BY <2>1
  <2>2. CASE q # p
    BY <2>2, <1>3
  <2> QED
    BY <2>1, <2>2
<1>5. \A q, s \in Puts : q # s => xsPut'[q] \in Ended \/ xsPut'[s] \in Ended
  BY <1>2
<1>6. (\A q \in Puts : xsPut'[q] \in Ended \cup PutEarly) =>
         \E q \in Puts \cup {0} : xsTasks' = ExportersOf(q, xsConf')
  BY <1>1
<1>7. (\E q \in Puts \cup {0} : xsTasks' = ExportersOf(q, xsConf'))
         <=> (\E q \in Puts \cup {0} : xsTasks = ExportersOf(q, xsConf))'
  BY DEF ExportersOf
<1> QED
  BY <1>4, <1>5, <1>6, <1>7 DEF XsOrderly

\* A request that is under way is the only one.
LEMMA AloneOrMixed ==
    ASSUME XsTyped, XsOrderly, NEW p \in Puts, xsPut[p] \notin Ended
    PROVE  \A q \in Puts : q # p => xsPut[q] \in Ended
BY DEF XsOrderly

\* put_export's read of the settings.
LEMMA PutReadKeeps ==
    ASSUME XsInv, NEW p \in Puts, PutRead(p)
    PROVE  XsInv'
<1>1. PICK r : xsPut' = [xsPut EXCEPT ![p] = r] /\ r \in PutSteps /\ OwnSecret(r.new)
               /\ r.at \in {"pem", "update"} /\ (r.at = "pem" <=> r.new.ca)
  <2>1. CASE PutTo(p, [at |-> "update", new |-> NoExport])
    <3>1. PICK r : r = [at |-> "update", new |-> NoExport]
      OBVIOUS
    <3>2. r \in PutSteps /\ r.new = NoExport /\ r.at = "update"
      BY <3>1 DEF PutSteps, Exports
    <3>3. OwnSecret(NoExport) /\ ~NoExport.ca
      BY DEF OwnSecret, NoExport
    <3>4. xsPut' = [xsPut EXCEPT ![p] = r]
      BY <2>1, <3>1 DEF PutTo
    <3> QED
      BY <3>2, <3>3, <3>4
  <2>2. ASSUME NEW server \in Servers, NEW pem \in BOOLEAN,
               NEW secret \in {"kept", "removed", "given"},
               PutTo(p, [at |-> IF pem THEN "pem" ELSE "update",
                      new |-> [server |-> server, ca |-> pem, secretFor |->
                                  CASE secret = "kept" -> KeptSecret(server)
                                    [] secret = "removed" -> NoServer
                                    [] secret = "given" -> server]])
        PROVE \E r : xsPut' = [xsPut EXCEPT ![p] = r] /\ r \in PutSteps /\ OwnSecret(r.new)
               /\ r.at \in {"pem", "update"} /\ (r.at = "pem" <=> r.new.ca)
    <3>1. PICK s : s = CASE secret = "kept" -> KeptSecret(server)
                         [] secret = "removed" -> NoServer
                         [] secret = "given" -> server
      OBVIOUS
    <3>2. s \in {NoServer, server}
      BY <3>1, ReadsOwnSecret DEF XsInv
    <3>3. PICK new : new = [server |-> server, ca |-> pem, secretFor |-> s]
      OBVIOUS
    <3>4. new \in Exports /\ OwnSecret(new) /\ new.ca = pem
      BY <3>2, <3>3 DEF Exports, OwnSecret
    <3>5. PICK at : at = IF pem THEN "pem" ELSE "update"
      OBVIOUS
    <3>6. PICK r : r = [at |-> at, new |-> new]
      OBVIOUS
    <3>7. r \in PutSteps /\ r.new = new /\ r.at = at
      BY <3>4, <3>5, <3>6 DEF PutSteps
    <3>8. xsPut' = [xsPut EXCEPT ![p] = r]
      BY <2>2, <3>1, <3>3, <3>5, <3>6 DEF PutTo
    <3> QED
      BY <3>4, <3>5, <3>7, <3>8
  <2> QED
    BY <2>1, <2>2 DEF PutRead
<1>2. /\ xsPut[p] = NotPut
      /\ xsMixed' = (xsMixed \/ UnderWay # {})
      /\ UNCHANGED <<xsConf, xsPem, xsCa, xsTasks, xsFaults>>
  BY DEF PutRead
<1>3. XsTyped /\ SecretsOwn
  BY DEF XsInv
<1>4. /\ xsPut' \in [Puts -> {NotPut, PutOver} \cup PutSteps \cup PutStarts]
      /\ xsPut'[p] = r
  BY <1>1, <1>3, OnlyPut
<1>5. XsTyped'
  BY <1>2, <1>3, <1>4 DEF XsTyped
<1>6. SecretsOwn'
  <2>1. r \notin PutStarts
    BY <1>1 DEF PutStarts
  <2>2. OwnSecret(xsConf') /\ \A t \in xsTasks' : OwnSecret(t)
    BY <1>2, <1>3 DEF SecretsOwn
  <2> QED
    BY <1>1, <1>3, <2>1, <2>2, OnlyOwnSecrets
<1>7. ASSUME ~xsMixed'
      PROVE  XsOrderly'
  <2>1. ~xsMixed /\ UnderWay = {}
    BY <1>2, <1>7
  <2>2. XsOrderly
    BY <2>1 DEF XsInv
  <2>3. \A q \in Puts : xsPut[q] \in Ended
    BY <2>1 DEF UnderWay, Ended
  <2>4. \E q \in Puts \cup {0} : xsTasks' = ExportersOf(q, xsConf')
    BY <1>2, <2>2, <2>3 DEF XsOrderly
  <2>5. PutProgress(p)'
    BY <1>1, <1>4 DEF PutProgress, PutStarts
  <2> QED
    BY <1>1, <1>3, <2>2, <2>3, <2>4, <2>5, OnlyOrderly
<1> QED
  BY <1>5, <1>6, <1>7 DEF XsInv

\* A step of one request that leaves the settings and the exporters alone.
LEMMA EarlyKeeps ==
    ASSUME XsInv, NEW p \in Puts, PutPem(p) \/ PutRename(p) \/ PutFails(p)
    PROVE  XsInv'
<1> DEFINE old == xsPut[p]
<1>0. XsTyped /\ SecretsOwn /\ (~xsMixed => XsOrderly)
  BY DEF XsInv
<1>1. /\ old \in PutEarly /\ old \in PutSteps /\ old \notin Ended
      /\ UNCHANGED <<xsConf, xsTasks>>
  <2>1. old.at \in {"pem", "rename", "update"} /\ UNCHANGED <<xsConf, xsTasks>>
    BY DEF PutPem, PutRename, PutFails
  <2>2. old \in Ended \cup PutSteps \cup PutStarts
    BY <1>0 DEF XsTyped, Ended
  <2> QED
    BY <2>1, <2>2, Stages
<1>2. PICK r \in {PutOver} \cup PutSteps :
          /\ xsPut' = [xsPut EXCEPT ![p] = r]
          /\ r \in Ended \cup PutEarly
          /\ r # PutOver => r.new = old.new
          /\ \/ r = PutOver
             \/ PutPem(p) /\ r.at = "rename"
             \/ PutRename(p) /\ r.at = "update" /\ xsCa' = xsPem
  <2>1. ASSUME NEW at \in {"rename", "update"}
        PROVE  /\ [old EXCEPT !.at = at] \in PutEarly
               /\ [old EXCEPT !.at = at] \in PutSteps
               /\ [old EXCEPT !.at = at].new = old.new
               /\ [old EXCEPT !.at = at].at = at
    BY <1>1 DEF PutEarly, PutSteps
  <2>2. CASE PutPem(p)
    BY <2>1, <2>2 DEF PutPem, PutTo
  <2>3. CASE PutRename(p)
    BY <2>1, <2>3 DEF PutRename, PutTo, Ended
  <2>4. CASE PutFails(p)
    BY <2>4 DEF PutFails, PutTo, Ended
  <2> QED
    BY <2>2, <2>3, <2>4
<1>3. /\ xsPut' \in [Puts -> {NotPut, PutOver} \cup PutSteps \cup PutStarts]
      /\ xsPut'[p] = r
  BY <1>0, <1>2, OnlyPut
<1>4. XsTyped'
  <2>1. xsPem' \in Puts \cup {0} /\ xsCa' \in Puts \cup {0}
    BY <1>0 DEF PutPem, PutRename, PutFails, XsTyped
  <2>2. xsMixed' \in BOOLEAN
    BY <1>0, Zenon DEF PutPem, PutRename, PutFails, XsTyped
  <2> QED
    BY <1>0, <1>1, <1>3, <2>1, <2>2 DEF XsTyped
<1>5. r \notin PutStarts
  BY <1>2 DEF PutStarts, PutSteps, PutOver
<1>6. SecretsOwn'
  <2>1. OwnSecret(xsConf') /\ \A t \in xsTasks' : OwnSecret(t)
    BY <1>0, <1>1 DEF SecretsOwn
  <2>2. r \in PutSteps => OwnSecret(r.new)
    <3>1. PutOver \notin PutSteps
      BY DEF PutOver, PutSteps
    <3>2. OwnSecret(old.new)
      BY <1>0, <1>1 DEF SecretsOwn
    <3> QED
      BY <1>2, <3>1, <3>2
  <2> QED
    BY <1>0, <1>2, <1>5, <2>1, <2>2, OnlyOwnSecrets
<1>7. ASSUME ~xsMixed'
      PROVE  XsOrderly'
  <2>1. ~xsMixed
    BY <1>7 DEF PutPem, PutRename, PutFails
  <2>2. XsOrderly
    BY <1>0, <2>1
  <2>3. \A q \in Puts : q # p => xsPut[q] \in Ended
    BY <1>0, <1>1, <2>2, AloneOrMixed
  <2>4. \A q \in Puts : xsPut[q] \in Ended \cup PutEarly
    BY <1>1, <2>3
  <2>5. \E q \in Puts \cup {0} : xsTasks' = ExportersOf(q, xsConf')
    BY <1>1, <2>2, <2>4 DEF XsOrderly
  <2>6. PutProgress(p)
    BY <2>2 DEF XsOrderly
  <2>7. PutProgress(p)'
    <3>1. CASE r = PutOver
      BY <1>3, <1>5, <3>1 DEF PutProgress, PutOver, PutSteps
    <3>2. CASE PutPem(p) /\ r.at = "rename" /\ r # PutOver
      BY <1>1, <1>2, <1>3, <1>5, <2>6, <3>2 DEF PutProgress, PutPem
    <3>3. CASE PutRename(p) /\ r.at = "update" /\ xsCa' = xsPem /\ r # PutOver
      BY <1>1, <1>2, <1>3, <1>5, <2>6, <3>3 DEF PutProgress, PutRename
    <3> QED
      BY <1>2, <3>1, <3>2, <3>3
  <2> QED
    BY <1>0, <1>2, <2>2, <2>3, <2>5, <2>7, OnlyOrderly
<1> QED
  BY <1>4, <1>6, <1>7 DEF XsInv

\* The settings are written.
LEMMA PutUpdateKeeps ==
    ASSUME XsInv, NEW p \in Puts, PutUpdate(p)
    PROVE  XsInv'
<1> DEFINE old == xsPut[p]
<1>0. XsTyped /\ SecretsOwn /\ (~xsMixed => XsOrderly)
  BY DEF XsInv
<1>1. /\ old \in PutSteps /\ old \notin Ended /\ old.at = "update"
      /\ xsConf' = old.new
      /\ UNCHANGED <<xsPem, xsCa, xsTasks, xsMixed>>
  <2>1. old \in Ended \cup PutSteps \cup PutStarts
    BY <1>0 DEF XsTyped, Ended
  <2> QED
    BY <2>1, Stages DEF PutUpdate
<1>2. PICK r : r = [old EXCEPT !.at = "drain"]
  OBVIOUS
<1>3. r \in PutSteps /\ r.at = "drain" /\ r.new = old.new
  BY <1>1, <1>2 DEF PutSteps
<1>4. xsPut' = [xsPut EXCEPT ![p] = r]
  BY <1>2 DEF PutUpdate, PutTo
<1>5. /\ xsPut' \in [Puts -> {NotPut, PutOver} \cup PutSteps \cup PutStarts]
      /\ xsPut'[p] = r
  BY <1>0, <1>3, <1>4, OnlyPut
<1>6. XsTyped'
  <2>1. old.new \in Exports
    BY <1>1 DEF PutSteps
  <2> QED
    BY <1>0, <1>1, <1>5, <2>1 DEF XsTyped
<1>7. r \notin PutStarts /\ r \notin Ended /\ r \notin PutEarly
  BY <1>3 DEF PutStarts, Ended, NotPut, PutOver, PutEarly
<1>8. SecretsOwn'
  <2>1. OwnSecret(old.new)
    BY <1>0, <1>1 DEF SecretsOwn
  <2>2. \A t \in xsTasks' : OwnSecret(t)
    BY <1>0, <1>1 DEF SecretsOwn
  <2>3. OwnSecret(xsConf') /\ OwnSecret(r.new)
    BY <1>1, <1>3, <2>1
  <2> QED
    BY <1>0, <1>3, <1>4, <1>7, <2>2, <2>3, OnlyOwnSecrets
<1>9. ASSUME ~xsMixed'
      PROVE  XsOrderly'
  <2>1. XsOrderly
    BY <1>0, <1>1, <1>9
  <2>2. \A q \in Puts : q # p => xsPut[q] \in Ended
    BY <1>0, <1>1, <2>1, AloneOrMixed
  <2>3. PutProgress(p)
    BY <2>1 DEF XsOrderly
  <2>4. PutProgress(p)'
    BY <1>1, <1>3, <1>5, <1>7, <2>3 DEF PutProgress
  <2> QED
    BY <1>0, <1>3, <1>4, <1>7, <2>1, <2>2, <2>4, OnlyOrderly
<1> QED
  BY <1>6, <1>8, <1>9 DEF XsInv

\* The exporters stop, and those of the settings are made.
LEMMA ApplyDrainsKeeps ==
    ASSUME XsInv, NEW p \in Puts, ApplyDrains(p)
    PROVE  XsInv'
<1> DEFINE old == xsPut[p]
<1>0. XsTyped /\ SecretsOwn /\ (~xsMixed => XsOrderly)
  BY DEF XsInv
<1>1. /\ old \in PutSteps /\ old \notin Ended /\ old.at = "drain"
      /\ xsTasks' = {}
      /\ UNCHANGED <<xsConf, xsPem, xsCa, xsMixed>>
  <2>1. old \in Ended \cup PutSteps \cup PutStarts
    BY <1>0 DEF XsTyped, Ended
  <2> QED
    BY <2>1, Stages DEF ApplyDrains
<1>2. PICK sinks : sinks = Sinks(p, old.new)
  OBVIOUS
<1>3. sinks \in SUBSET Exporters /\ \A t \in sinks : OwnSecret(t)
  <2>1. old.new \in Exports /\ OwnSecret(old.new)
    BY <1>0, <1>1 DEF PutSteps, SecretsOwn
  <2>2. CASE old.new = NoExport
    BY <1>2, <2>2 DEF Sinks
  <2>3. CASE old.new # NoExport
    <3>1. old.new \in [server : Servers, secretFor : Servers \cup {NoServer}, ca : BOOLEAN]
      BY <2>1, <2>3 DEF Exports
    <3>2. PICK ca : ca = IF old.new.ca THEN xsCa ELSE 0
      OBVIOUS
    <3>3. ca \in Puts \cup {0}
      BY <1>0, <3>2 DEF XsTyped
    <3>4. PICK t : t = [by |-> p, server |-> old.new.server, secretFor |-> old.new.secretFor,
                        ca |-> ca]
      OBVIOUS
    <3>5. t \in Exporters /\ OwnSecret(t)
      BY <2>1, <3>1, <3>3, <3>4 DEF Exporters, OwnSecret
    <3>6. sinks = {t}
      BY <1>2, <2>3, <3>2, <3>4 DEF Sinks
    <3> QED
      BY <3>5, <3>6
  <2> QED
    BY <2>2, <2>3
<1>4. PICK r : r = [at |-> "start", sinks |-> sinks]
  OBVIOUS
<1>5. r \in PutStarts /\ r.sinks = sinks /\ r \notin PutSteps /\ r \notin Ended /\ r \notin PutEarly
  BY <1>3, <1>4 DEF PutStarts, PutSteps, Ended, NotPut, PutOver, PutEarly
<1>6. xsPut' = [xsPut EXCEPT ![p] = r]
  BY <1>2, <1>4 DEF ApplyDrains, PutTo
<1>7. /\ xsPut' \in [Puts -> {NotPut, PutOver} \cup PutSteps \cup PutStarts]
      /\ xsPut'[p] = r
  BY <1>0, <1>5, <1>6, OnlyPut
<1>8. XsTyped'
  BY <1>0, <1>1, <1>7 DEF XsTyped
<1>9. SecretsOwn'
  <2>1. OwnSecret(xsConf')
    BY <1>0, <1>1 DEF SecretsOwn
  <2>2. \A t \in xsTasks' : OwnSecret(t)
    BY <1>1
  <2> QED
    BY <1>0, <1>3, <1>5, <1>6, <2>1, <2>2, OnlyOwnSecrets
<1>10. ASSUME ~xsMixed'
       PROVE  XsOrderly'
  <2>1. XsOrderly
    BY <1>0, <1>1, <1>10
  <2>2. \A q \in Puts : q # p => xsPut[q] \in Ended
    BY <1>0, <1>1, <2>1, AloneOrMixed
  <2>3. PutProgress(p)
    BY <2>1 DEF XsOrderly
  <2>4. xsConf = old.new /\ (old.new.ca => xsCa = p)
    BY <1>1, <2>3 DEF PutProgress
  <2>5. sinks = ExportersOf(p, xsConf)
    BY <1>2, <2>4 DEF Sinks, ExportersOf
  <2>6. PutProgress(p)'
    BY <1>1, <1>5, <1>7, <2>5 DEF PutProgress, ExportersOf
  <2> QED
    BY <1>0, <1>5, <1>6, <2>1, <2>2, <2>6, OnlyOrderly
<1> QED
  BY <1>8, <1>9, <1>10 DEF XsInv

\* The exporters of the settings start.
LEMMA ApplyStartsKeeps ==
    ASSUME XsInv, NEW p \in Puts, ApplyStarts(p)
    PROVE  XsInv'
<1> DEFINE old == xsPut[p]
<1>0. XsTyped /\ SecretsOwn /\ (~xsMixed => XsOrderly)
  BY DEF XsInv
<1>1. /\ old \in PutStarts /\ old \notin Ended
      /\ xsTasks' = xsTasks \cup old.sinks
      /\ xsPut' = [xsPut EXCEPT ![p] = PutOver]
      /\ UNCHANGED <<xsConf, xsPem, xsCa, xsMixed>>
  <2>1. old \in Ended \cup PutSteps \cup PutStarts
    BY <1>0 DEF XsTyped, Ended
  <2> QED
    BY <2>1, Stages DEF ApplyStarts, PutTo
<1>2. PutOver \notin PutSteps /\ PutOver \notin PutStarts
  BY DEF PutOver, PutSteps, PutStarts
<1>3. /\ xsPut' \in [Puts -> {NotPut, PutOver} \cup PutSteps \cup PutStarts]
      /\ xsPut'[p] = PutOver
  BY <1>0, <1>1, OnlyPut
<1>4. XsTyped'
  BY <1>0, <1>1, <1>3 DEF XsTyped, PutStarts
<1>5. SecretsOwn'
  <2>1. OwnSecret(xsConf') /\ \A t \in xsTasks' : OwnSecret(t)
    BY <1>0, <1>1 DEF SecretsOwn
  <2> QED
    BY <1>0, <1>1, <1>2, <2>1, OnlyOwnSecrets
<1>6. ASSUME ~xsMixed'
      PROVE  XsOrderly'
  <2>1. XsOrderly
    BY <1>0, <1>1, <1>6
  <2>2. \A q \in Puts : q # p => xsPut[q] \in Ended
    BY <1>0, <1>1, <2>1, AloneOrMixed
  <2>3. PutProgress(p)
    BY <2>1 DEF XsOrderly
  <2>4. xsTasks' = ExportersOf(p, xsConf')
    BY <1>1, <2>3 DEF PutProgress
  <2>5. PutProgress(p)'
    BY <1>2, <1>3 DEF PutProgress
  <2> QED
    BY <1>0, <1>1, <2>1, <2>2, <2>4, <2>5, OnlyOrderly
<1> QED
  BY <1>4, <1>5, <1>6 DEF XsInv

LEMMA XsInvariance == XsSpec => []XsInv
<1>1. XsInv /\ [XsNext]_xsVars => XsInv'
  <2> SUFFICES ASSUME XsInv, [XsNext]_xsVars PROVE XsInv'
    OBVIOUS
  <2>1. CASE UNCHANGED xsVars
    BY <2>1 DEF xsVars, XsInv, XsTyped, SecretsOwn, XsOrderly, PutProgress
  <2>2. ASSUME NEW p \in Puts,
               \/ PutRead(p) \/ PutPem(p) \/ PutRename(p) \/ PutUpdate(p) \/ PutFails(p)
               \/ ApplyDrains(p) \/ ApplyStarts(p)
        PROVE  XsInv'
    BY <2>2, PutReadKeeps, EarlyKeeps, PutUpdateKeeps, ApplyDrainsKeeps, ApplyStartsKeeps
  <2> QED
    BY <2>1, <2>2 DEF XsNext
<1> QED
  BY <1>1, XsInitially, PTL DEF XsSpec

(***************************************************************************)
(* Stored credentials only go to the server they were given for, and       *)
(* between requests exactly the exporter of the settings runs, with the CA *)
(* that was given with them (put_export, Exports::apply).                  *)
(***************************************************************************)
THEOREM ExportsGoWhereTold == XsSpec => []ExportsAsGiven
<1>1. XsInv => ExportsAsGiven
  <2> SUFFICES ASSUME XsInv PROVE ExportsAsGiven
    OBVIOUS
  <2>1. CredentialsStay
    BY DEF XsInv, SecretsOwn, OwnSecret, CredentialsStay
  <2>2. ASSUME UnderWay = {}, ~xsMixed
        PROVE  \E p \in Puts \cup {0} : xsTasks = ExportersOf(p, xsConf)
    BY <2>2 DEF XsInv, XsOrderly, UnderWay, Ended
  <2>3. ExportsAsConfigured
    BY <2>2 DEF ExportsAsConfigured, ExportersOf
  <2> QED
    BY <2>1, <2>3 DEF ExportsAsGiven
<1> QED
  BY <1>1, XsInvariance, PTL

(***************************************************************************)
(* Type correctness of the settings of the export, its files and the       *)
(* exporters that run: at any time they are of servers and requests that   *)
(* exist (put_export, Exports::apply).                                     *)
(***************************************************************************)
THEOREM SettingsTyped == XsSpec => []XsTypeOK
<1> DEFINE Counted == xsFaults \in 0 .. MaxPutFaults
<1>1. XsInit => Counted
  BY PutAssumption DEF PutAssumption, XsInit
<1>2. Counted /\ [XsNext]_xsVars => Counted'
  <2> SUFFICES ASSUME Counted, [XsNext]_xsVars PROVE Counted'
    OBVIOUS
  <2>1. UNCHANGED xsFaults \/ (xsFaults < MaxPutFaults /\ xsFaults' = xsFaults + 1)
    BY Zenon DEF XsNext, PutRead, PutPem, PutRename, PutUpdate, PutFails, ApplyDrains, ApplyStarts, xsVars
  <2> QED
    BY <2>1, PutAssumption DEF PutAssumption
<1>3. XsInv /\ Counted => XsTypeOK
  <2> SUFFICES ASSUME XsInv, Counted PROVE XsTypeOK
    OBVIOUS
  <2>1. \A p \in Puts : xsPut[p].at \in {"unused", "over", "pem", "rename", "update", "drain", "start"}
    BY DEF XsInv, XsTyped, PutSteps, PutStarts, NotPut, PutOver
  <2> QED
    BY <2>1 DEF XsInv, XsTyped, XsTypeOK, Exporters
<1> QED
  BY <1>1, <1>2, <1>3, XsInvariance, PTL DEF XsSpec

-------------------------------------------------------------------------------
(***************************************************************************)
(* The targets                                                             *)
(***************************************************************************)
TgtConfigs == [TgtNames -> Configs \cup {Off}]
Saved == [targets : TgtConfigs, setting : 0..2]
Relays == [port : Ports, groups : SUBSET TgtNodes, first : SUBSET TgtNodes]
Upserts == [kind : {"upsert"}, old : TgtNames, new : TgtNames, targets : TgtConfigs,
            replaces : BOOLEAN, was : Relays \cup {Off}]
Summarises == [kind : {"summarise"}, name : TgtNames, groups : SUBSET TgtNodes]
Removes == [kind : {"remove"}, name : TgtNames]
Changes == {Idle} \cup Upserts \cup Summarises \cup Removes
RestartStates == [kind : {"idle", "stopping", "copied", "starting"}, mine : SUBSET TgtNames,
                  left : SUBSET Ports, targets : TgtConfigs, todo : SUBSET TgtNames]

TgtTyped ==
    /\ file \in Saved /\ config \in Saved
    /\ running \in [TgtNames -> Relays \cup {Off}]
    /\ op \in Changes
    /\ copied \in {NoCopy} \cup [name : TgtNames, groups : SUBSET TgtNodes]
    /\ restart \in [Restarts -> RestartStates]
    /\ orphans \subseteq Ports
    /\ ahead \in BOOLEAN

\* restart_all starts what was configured when it copied, and not during an upsert
RestartOK ==
    /\ \A h \in Restarts : \A n \in restart[h].todo : restart[h].targets[n] # Off
    /\ \A h \in Restarts : restart[h].kind = "idle" => restart[h].todo = {}
    /\ op \in Upserts => \A h \in Restarts : restart[h].kind # "starting"

\* the change under way is of a target that is configured, and of nothing else
ChangeOK ==
    /\ op \in Upserts =>
         /\ IF op.replaces THEN config.targets[op.old] # Off ELSE op.old = op.new
         /\ op.targets[op.new] # Off
         /\ op.was # Off => op.replaces
         /\ op.new # op.old => op.targets[op.old] = Off
         /\ \A n \in TgtNames \ {op.old, op.new} : op.targets[n] = config.targets[n]
    /\ op \in Summarises \cup Removes => config.targets[op.name] # Off

\* the file is the configuration, up to the change that has written it
FileOK ==
    /\ file.setting = config.setting
    /\ op \in {Idle} \cup Upserts => (~ahead => file.targets = config.targets)
    /\ op \in Summarises =>
         ~ahead /\ file.targets = [config.targets EXCEPT ![op.name].groups = op.groups]
    /\ op \in Removes => ~ahead /\ file.targets = [config.targets EXCEPT ![op.name] = Off]

\* the target a change has stopped
Stopped == IF op \in Upserts /\ op.replaces THEN {op.old}
           ELSE IF op \in Removes THEN {op.name} ELSE {}

RunsAsConfigured(n) ==
    IF config.targets[n] = Off THEN running[n] = Off
    ELSE /\ running[n] # Off /\ running[n].port = config.targets[n].port
         /\ n \notin putBack => running[n].groups = config.targets[n].groups

\* a restart will start the target
Awaited(n) ==
    /\ config.targets[n] # Off /\ running[n] = Off
    /\ \E h \in Restarts :
         n \in restart[h].mine /\ (restart[h].kind = "stopping" \/ n \in restart[h].todo)

Kept(n) == RunsAsConfigured(n) \/ Awaited(n)

\* what runs is what is configured, except what a change or a restart has stopped
RunningOK ==
    /\ \A n \in TgtNames \ (unsettled \cup stale \cup Stopped) : Kept(n)
    /\ op \in Upserts /\ op.replaces =>
         /\ running[op.old] = Off
         /\ op.old \notin unsettled \cup stale =>
              IF op.was = Off THEN Awaited(op.old) ELSE op.was.port = config.targets[op.old].port
    /\ op \in Removes /\ op.name \notin stale => running[op.name] = Off

TgtInv == TgtTyped /\ ChangeOK /\ FileOK /\ RestartOK /\ RunningOK

\* The changes are told apart by their kind.
LEMMA Kinds ==
    /\ \A o \in Changes :
         /\ o = Idle <=> o.kind = "idle"
         /\ o \in Upserts <=> o.kind = "upsert"
         /\ o \in Summarises <=> o.kind = "summarise"
         /\ o \in Removes <=> o.kind = "remove"
<1>1. \A o \in Changes : o = Idle <=> o.kind = "idle"
  BY DEF Changes, Idle, Upserts, Summarises, Removes
<1>2. \A o \in Changes : o \in Upserts <=> o.kind = "upsert"
  BY DEF Changes, Idle, Upserts, Summarises, Removes
<1>3. \A o \in Changes : o \in Summarises <=> o.kind = "summarise"
  BY DEF Changes, Idle, Upserts, Summarises, Removes
<1>4. \A o \in Changes : o \in Removes <=> o.kind = "remove"
  BY DEF Changes, Idle, Upserts, Summarises, Removes
<1> QED
  BY <1>1, <1>2, <1>3, <1>4

\* A target is started with the address and the groups of its configuration.
LEMMA StartedAs ==
    /\ \A t \in Configs : /\ Started(t) \in Relays /\ Started(t) # Off
                          /\ Started(t).port = t.port /\ Started(t).groups = t.groups
    /\ \A w \in Relays : /\ PutBack(w) \in Relays /\ PutBack(w) # Off
                         /\ PutBack(w).port = w.port
    /\ Off \notin Configs /\ Off \notin Relays
<1>1. Off \notin Configs /\ Off \notin Relays
  BY DEF Off, Configs, Relays
<1>2. \A t \in Configs : /\ Started(t) \in Relays
                         /\ Started(t).port = t.port /\ Started(t).groups = t.groups
  BY DEF Started, Relays, Configs
<1>3. \A w \in Relays : PutBack(w) \in Relays /\ PutBack(w).port = w.port
  BY <1>1 DEF PutBack, Started, Relays
<1> QED
  BY <1>1, <1>2, <1>3

\* A target whose configuration and relay stay is kept as it was.
LEMMA KeptFrame ==
    ASSUME NEW n \in TgtNames, Kept(n),
           config'.targets[n] = config.targets[n], running'[n] = running[n],
           n \in putBack => n \in putBack',
           \A h \in Restarts : n \in restart[h].mine /\ (restart[h].kind = "stopping" \/ n \in restart[h].todo)
             => n \in restart'[h].mine /\ (restart'[h].kind = "stopping" \/ n \in restart'[h].todo)
    PROVE  Kept(n)'
<1>1. CASE RunsAsConfigured(n)
  BY <1>1 DEF Kept, RunsAsConfigured
<1>2. CASE Awaited(n)
  BY <1>2 DEF Kept, Awaited
<1> QED
  BY <1>1, <1>2 DEF Kept

\* running.insert starts a target, and keeps the others.
LEMMA Inserted ==
    ASSUME running \in [TgtNames -> Relays \cup {Off}], orphans \subseteq Ports,
           NEW n \in TgtNames, NEW t \in Configs, Insert(n, t)
    PROVE  /\ running' \in [TgtNames -> Relays \cup {Off}] /\ running'[n] = Started(t)
           /\ \A m \in TgtNames : m # n => running'[m] = running[m]
           /\ orphans' \subseteq Ports
<1>1. Started(t) \in Relays
  BY StartedAs
<1>2. running' = [running EXCEPT ![n] = Started(t)]
  BY DEF Insert
<1>3. running[n] # Off => running[n].port \in Ports
  BY DEF Relays
<1>4. orphans' \subseteq Ports
  BY <1>3 DEF Insert
<1> QED
  BY <1>1, <1>2, <1>4

\* A step that changes none of the state that the invariant is about.
LEMMA TgtFrame ==
    ASSUME TgtInv,
           UNCHANGED <<file, config, running, op, restart, orphans, unsettled, ahead, putBack, stale>>,
           copied' \in {NoCopy} \cup [name : TgtNames, groups : SUBSET TgtNodes]
    PROVE  TgtInv'
<1>1. TgtTyped'
  BY DEF TgtInv, TgtTyped
<1>2. ChangeOK' /\ FileOK' /\ RestartOK'
  BY DEF TgtInv, ChangeOK, FileOK, RestartOK
<1>3. RunningOK'
  BY DEF TgtInv, RunningOK, Kept, Awaited, RunsAsConfigured, Stopped
<1> QED
  BY <1>1, <1>2, <1>3 DEF TgtInv

LEMMA NoRestart == NotRestarting \in RestartStates /\ NotRestarting.todo = {} /\ NotRestarting.kind = "idle"
  BY DEF NotRestarting, RestartStates, TgtConfigs

LEMMA TgtInitially == TgtInit => TgtInv
<1> SUFFICES ASSUME TgtInit PROVE TgtInv
  OBVIOUS
<1>1. PICK t, p : t = (CHOOSE n \in TgtNames : TRUE) /\ p = (CHOOSE q \in Ports : TRUE)
  OBVIOUS
<1>2. t \in TgtNames /\ p \in Ports
  BY <1>1, TgtAssumption
<1>3. PICK targets : targets = [n \in TgtNames |-> IF n = t THEN [port |-> p, groups |-> {}] ELSE Off]
  OBVIOUS
<1>4. /\ config = [targets |-> targets, setting |-> 0] /\ file = config
      /\ running = [n \in TgtNames |->
                IF n = t THEN [port |-> p, groups |-> {}, first |-> {}] ELSE Off]
      /\ op = Idle /\ copied = NoCopy /\ restart = [h \in Restarts |-> NotRestarting] /\ orphans = {}
      /\ unsettled = {} /\ ahead = FALSE /\ putBack = {} /\ stale = {}
  BY <1>1, <1>3 DEF TgtInit
<1>5. [port |-> p, groups |-> {}] \in Configs /\ [port |-> p, groups |-> {}, first |-> {}] \in Relays
  BY <1>2 DEF Configs, Relays
<1>6. targets \in TgtConfigs /\ running \in [TgtNames -> Relays \cup {Off}]
  BY <1>3, <1>4, <1>5 DEF TgtConfigs
<1>7. config \in Saved /\ config.targets = targets
  BY <1>4, <1>6 DEF Saved
<1>8. TgtTyped
  BY <1>4, <1>6, <1>7, NoRestart DEF TgtTyped, Changes
<1>9. op \notin Upserts /\ op \notin Summarises /\ op \notin Removes
  BY <1>4 DEF Idle, Upserts, Summarises, Removes
<1>10. ChangeOK /\ FileOK /\ RestartOK
  BY <1>4, <1>9, NoRestart DEF ChangeOK, FileOK, RestartOK
<1>11. \A n \in TgtNames : RunsAsConfigured(n)
  <2> TAKE n \in TgtNames
  <2>1. CASE n = t
    <3>1. config.targets[n] = [port |-> p, groups |-> {}] /\ running[n] = [port |-> p, groups |-> {}, first |-> {}]
      BY <1>3, <1>4, <1>7, <2>1
    <3>2. config.targets[n] # Off /\ running[n] # Off
      BY <3>1, <1>5, StartedAs
    <3> QED
      BY <3>1, <3>2 DEF RunsAsConfigured
  <2>2. CASE n # t
    BY <1>3, <1>4, <1>7, <2>2 DEF RunsAsConfigured
  <2> QED
    BY <2>1, <2>2
<1>12. RunningOK
  BY <1>4, <1>9, <1>11 DEF RunningOK, Kept
<1> QED
  BY <1>8, <1>10, <1>12 DEF TgtInv

\* upsert takes the lock and stops the target that it replaces.
LEMMA UpsertKeeps ==
    ASSUME TgtInv, NEW old \in TgtNames, NEW new \in TgtNames, NEW target \in Configs,
           NEW replaces \in BOOLEAN, Upsert(old, new, target, replaces),
           IF replaces THEN config.targets[old] # Off ELSE old = new,
           copied' \in {NoCopy} \cup [name : TgtNames, groups : SUBSET TgtNodes]
    PROVE  TgtInv'
<1>0. TgtTyped /\ ChangeOK /\ FileOK /\ RestartOK /\ RunningOK
  BY DEF TgtInv
<1>1. PICK targets : targets = [config.targets EXCEPT ![old] = Off, ![new] = target]
  OBVIOUS
<1>2. config.targets \in TgtConfigs /\ running[old] \in Relays \cup {Off}
  BY <1>0 DEF TgtTyped, Saved
<1>3. /\ targets \in TgtConfigs /\ targets[new] = target
      /\ new # old => targets[old] = Off
      /\ \A n \in TgtNames \ {old, new} : targets[n] = config.targets[n]
  BY <1>1, <1>2 DEF TgtConfigs
<1>4. PICK o : o = [kind |-> "upsert", old |-> old, new |-> new, targets |-> targets,
                    replaces |-> replaces, was |-> IF replaces THEN running[old] ELSE Off]
  OBVIOUS
<1>5. o \in Upserts
  BY <1>2, <1>3, <1>4 DEF Upserts
<1>6. /\ o.old = old /\ o.new = new /\ o.targets = targets /\ o.was = IF replaces THEN running[old] ELSE Off
      /\ o.kind = "upsert"
  BY <1>4
<1>7. o.replaces = replaces
  BY <1>4
<1>8. /\ op = Idle /\ op' = o
      /\ running' = IF replaces THEN [running EXCEPT ![old] = Off] ELSE running
      /\ UNCHANGED <<file, config, restart, orphans, unsettled, ahead, putBack, stale>>
      /\ \A h \in Restarts : restart[h].kind # "starting"
  BY <1>1, <1>4 DEF Upsert, Begin, LockFree
<1>9. /\ op \notin Upserts /\ op \notin Summarises /\ op \notin Removes
      /\ o \notin Summarises /\ o \notin Removes /\ o # Idle
  BY <1>6, <1>8 DEF Idle, Upserts, Summarises, Removes
<1>10. TgtTyped'
  BY <1>0, <1>5, <1>8 DEF TgtTyped, Changes
<1>11. ChangeOK'
  BY <1>3, <1>5, <1>6, <1>7, <1>8, <1>9, StartedAs DEF ChangeOK
<1>12. FileOK' /\ RestartOK'
  BY <1>0, <1>5, <1>8, <1>9 DEF FileOK, RestartOK
<1>13. RunningOK'
  <2>1. Stopped = {} /\ Stopped' = IF replaces THEN {old} ELSE {}
    BY <1>5, <1>6, <1>7, <1>8, <1>9 DEF Stopped
  <2>2. \A n \in TgtNames : n \notin Stopped' => running'[n] = running[n]
    BY <1>0, <1>8, <2>1 DEF TgtTyped
  <2>3. replaces => running'[old] = Off
    BY <1>0, <1>8 DEF TgtTyped
  <2>4. ASSUME NEW n \in TgtNames, n \notin unsettled', n \notin stale', n \notin Stopped'
        PROVE  Kept(n)'
    <3>1. Kept(n)
      BY <1>0, <1>8, <2>1, <2>4 DEF RunningOK
    <3> QED
      BY <1>8, <2>2, <2>4, <3>1, KeptFrame
  <2>5. ASSUME replaces, old \notin unsettled', old \notin stale'
        PROVE  (IF op.was = Off THEN Awaited(op.old) ELSE op.was.port = config.targets[op.old].port)'
    <3>1. Kept(old) /\ config.targets[old] # Off
      BY <1>0, <1>8, <2>1, <2>5 DEF RunningOK
    <3>2. CASE running[old] = Off
      <4>1. Awaited(old)
        BY <3>1, <3>2 DEF Kept, RunsAsConfigured
      <4>2. Awaited(old)'
        BY <1>8, <2>3, <2>5, <4>1 DEF Awaited
      <4> QED
        BY <1>6, <1>8, <2>5, <3>2, <4>2
    <3>3. CASE running[old] # Off
      <4>1. running[old].port = config.targets[old].port
        BY <3>1, <3>3 DEF Kept, RunsAsConfigured, Awaited
      <4> QED
        BY <1>6, <1>8, <2>5, <3>3, <4>1
    <3> QED
      BY <3>2, <3>3
  <2> QED
    BY <1>6, <1>7, <1>8, <1>9, <2>3, <2>4, <2>5 DEF RunningOK
<1> QED
  BY <1>10, <1>11, <1>12, <1>13 DEF TgtInv

LEMMA UpsertBegins ==
    ASSUME TgtInv, CreateTarget \/ UpdateTarget
    PROVE  TgtInv'
<1>1. TgtTyped
  BY DEF TgtInv
<1>2. CASE CreateTarget
  <2>1. PICK new \in TgtNames, p \in Ports :
          Upsert(new, new, [port |-> p, groups |-> {}], FALSE)
    BY <1>2 DEF CreateTarget
  <2>2. [port |-> p, groups |-> {}] \in Configs
    BY DEF Configs
  <2>3. copied' \in {NoCopy} \cup [name : TgtNames, groups : SUBSET TgtNodes]
    BY <1>1, <1>2 DEF CreateTarget, TgtTyped
  <2> QED
    BY <2>1, <2>2, <2>3, UpsertKeeps
<1>3. CASE UpdateTarget
  <2>1. PICK new \in TgtNames, p \in Ports :
          Upsert(copied.name, new, [port |-> p, groups |-> copied.groups], TRUE)
    BY <1>3 DEF UpdateTarget
  <2>2. copied.name \in TgtNames /\ copied.groups \in SUBSET TgtNodes
    BY <1>1, <1>3 DEF UpdateTarget, TgtTyped
  <2>3. [port |-> p, groups |-> copied.groups] \in Configs
    BY <2>2 DEF Configs
  <2>4. config.targets[copied.name] # Off /\ copied' = NoCopy
    BY <1>3 DEF UpdateTarget
  <2> QED
    BY <2>1, <2>2, <2>3, <2>4, UpsertKeeps
<1> QED
  BY <1>2, <1>3

\* upsert ends, with its change in force.
LEMMA UpsertCommitKeeps ==
    ASSUME TgtInv, UpsertCommit
    PROVE  TgtInv'
<1>0. TgtTyped /\ ChangeOK /\ FileOK /\ RestartOK /\ RunningOK
  BY DEF TgtInv
<1>1. op \in Upserts /\ op \notin Removes
  BY <1>0, Kinds DEF UpsertCommit, TgtTyped
<1>2. PICK old, new, targets : old = op.old /\ new = op.new /\ targets = op.targets
  OBVIOUS
<1>3. old \in TgtNames /\ new \in TgtNames /\ targets \in TgtConfigs /\ op.replaces \in BOOLEAN
  BY <1>1, <1>2 DEF Upserts
<1>4. targets[new] \in Configs
  BY <1>0, <1>1, <1>2, <1>3 DEF ChangeOK, TgtConfigs
<1>5. /\ Insert(new, targets[new])
      /\ file' = [file EXCEPT !.targets = targets]
      /\ config' = [config EXCEPT !.targets = targets]
      /\ op' = Idle /\ ahead' = FALSE
      /\ unsettled' = unsettled \ {old, new}
      /\ putBack' = putBack \ {old, new}
      /\ stale' = stale \ {old, new}
      /\ UNCHANGED <<copied, restart>>
  BY <1>2 DEF UpsertCommit, WriteTargets
<1>6. /\ file' \in Saved /\ config' \in Saved
      /\ file'.targets = targets /\ config'.targets = targets
      /\ file'.setting = file.setting /\ config'.setting = config.setting
  BY <1>0, <1>3, <1>5 DEF TgtTyped, Saved
<1>8. /\ running' \in [TgtNames -> Relays \cup {Off}]
      /\ running'[new] = Started(targets[new])
      /\ \A n \in TgtNames : n # new => running'[n] = running[n]
      /\ orphans' \subseteq Ports
  BY <1>0, <1>3, <1>4, <1>5, Inserted DEF TgtTyped
<1>10. TgtTyped'
  BY <1>0, <1>5, <1>6, <1>8 DEF TgtTyped, Changes
<1>11. op' \notin Upserts /\ op' \notin Summarises /\ op' \notin Removes
  BY <1>5 DEF Idle, Upserts, Summarises, Removes
<1>12. ChangeOK' /\ FileOK' /\ RestartOK'
  BY <1>0, <1>5, <1>6, <1>11 DEF ChangeOK, FileOK, RestartOK
<1>13. RunningOK'
  <2>2. Stopped' = {} /\ Stopped \subseteq {old}
    BY <1>1, <1>2, <1>11 DEF Stopped
  <2>3. ASSUME NEW n \in TgtNames, n \notin unsettled', n \notin stale'
        PROVE  Kept(n)'
    <3>1. CASE n = new
      <4>1. config'.targets[n] = targets[new] /\ running'[n] = Started(targets[new])
        BY <1>6, <1>8, <3>1
      <4>2. RunsAsConfigured(n)'
        BY <1>4, <4>1, StartedAs DEF RunsAsConfigured
      <4> QED
        BY <4>2 DEF Kept
    <3>2. CASE n # new /\ n = old
      <4>1. config'.targets[n] = Off /\ running'[n] = running[n]
        BY <1>0, <1>1, <1>2, <1>6, <1>8, <3>2 DEF ChangeOK
      <4>2. op.replaces
        BY <1>0, <1>1, <1>2, <3>2 DEF ChangeOK
      <4>3. running[n] = Off
        BY <1>0, <1>1, <1>2, <3>2, <4>2 DEF RunningOK
      <4> QED
        BY <4>1, <4>3 DEF Kept, RunsAsConfigured
    <3>3. CASE n # new /\ n # old
      <4>1. n \notin unsettled /\ n \notin stale /\ n \notin Stopped /\ (n \in putBack => n \in putBack')
        BY <1>5, <2>2, <2>3, <3>3
      <4>2. Kept(n)
        BY <1>0, <4>1 DEF RunningOK
      <4>3. config'.targets[n] = config.targets[n] /\ running'[n] = running[n] /\ restart' = restart
        BY <1>0, <1>1, <1>2, <1>5, <1>6, <1>8, <3>3 DEF ChangeOK
      <4> QED
        BY <4>1, <4>2, <4>3, KeptFrame
    <3> QED
      BY <3>1, <3>2, <3>3
  <2> QED
    BY <1>11, <2>2, <2>3 DEF RunningOK
<1> QED
  BY <1>10, <1>12, <1>13 DEF TgtInv

\* upsert ends with an error: the old target is put back, or could not be.
LEMMA UpsertFailsKeeps ==
    ASSUME TgtInv, UpsertFails \/ UpsertFailsTwice
    PROVE  TgtInv'
<1>0. TgtTyped /\ ChangeOK /\ FileOK /\ RestartOK /\ RunningOK
  BY DEF TgtInv
<1>1. op \in Upserts /\ op \notin Removes
  BY <1>0, Kinds DEF UpsertFails, UpsertFailsTwice, TgtTyped
<1>2. PICK old, was : old = op.old /\ was = op.was
  OBVIOUS
<1>3. old \in TgtNames /\ was \in Relays \cup {Off} /\ op.replaces \in BOOLEAN
  BY <1>1, <1>2 DEF Upserts
<1>4. op' = Idle /\ UNCHANGED <<copied, file, config, restart, orphans, ahead, stale>>
  BY DEF UpsertFails, UpsertFailsTwice
<1>5. was # Off => PutBack(was) \in Relays
  BY <1>3, StartedAs
<1>6. /\ running' \in [TgtNames -> Relays \cup {Off}]
      /\ \A n \in TgtNames : n # old => running'[n] = running[n]
  <2>1. CASE UpsertFails
    BY <1>0, <1>2, <1>3, <1>5, <2>1 DEF UpsertFails, TgtTyped
  <2>2. CASE UpsertFailsTwice
    BY <1>0, <2>2 DEF UpsertFailsTwice, TgtTyped
  <2> QED
    BY <2>1, <2>2
<1>8. TgtTyped'
  BY <1>0, <1>4, <1>6 DEF TgtTyped, Changes
<1>9. op' \notin Upserts /\ op' \notin Summarises /\ op' \notin Removes
  BY <1>4 DEF Idle, Upserts, Summarises, Removes
<1>10. ChangeOK' /\ FileOK' /\ RestartOK'
  BY <1>0, <1>1, <1>4, <1>9 DEF ChangeOK, FileOK, RestartOK
<1>11. RunningOK'
  <2>1. Stopped' = {} /\ Stopped = IF op.replaces THEN {old} ELSE {}
    BY <1>1, <1>2, <1>9 DEF Stopped
  <2>2. unsettled \subseteq unsettled' /\ putBack \subseteq putBack'
    BY DEF UpsertFails, UpsertFailsTwice
  <2>3. op.replaces \/ was = Off
    BY <1>0, <1>1, <1>2 DEF ChangeOK
  <2>4. was = Off => UNCHANGED running
    BY <1>2 DEF UpsertFails, UpsertFailsTwice
  <2>5. ASSUME NEW n \in TgtNames, n \notin unsettled', n \notin stale'
        PROVE  Kept(n)'
    <3>1. CASE n \notin Stopped
      <4>1. Kept(n)
        BY <1>0, <1>4, <2>2, <2>5, <3>1 DEF RunningOK
      <4>2. running'[n] = running[n]
        BY <1>6, <2>1, <2>3, <2>4, <3>1
      <4> QED
        BY <1>4, <2>2, <4>1, <4>2, KeptFrame
    <3>2. CASE n \in Stopped
      <4>1. op.replaces /\ n = old /\ config.targets[n] # Off
        BY <1>0, <1>1, <1>2, <2>1, <3>2 DEF ChangeOK
      <4>2. IF was = Off THEN Awaited(n) ELSE was.port = config.targets[n].port
        BY <1>0, <1>1, <1>2, <1>4, <2>2, <2>5, <4>1 DEF RunningOK
      <4>3. CASE was = Off
        BY <1>4, <2>2, <2>4, <4>2, <4>3, KeptFrame DEF Kept
      <4>4. CASE was # Off
        <5>1. UpsertFails
          BY <1>2, <2>5, <4>1 DEF UpsertFailsTwice
        <5>2. running' = [running EXCEPT ![old] = PutBack(was)] /\ n \in putBack'
          BY <1>2, <4>1, <4>4, <5>1 DEF UpsertFails
        <5>3. running'[n] = PutBack(was)
          BY <1>0, <1>3, <4>1, <5>2 DEF TgtTyped
        <5>4. RunsAsConfigured(n)'
          BY <1>3, <1>4, <4>1, <4>2, <4>4, <5>2, <5>3, StartedAs DEF RunsAsConfigured
        <5> QED
          BY <5>4 DEF Kept
      <4> QED
        BY <4>3, <4>4
    <3> QED
      BY <3>1, <3>2
  <2> QED
    BY <1>9, <2>1, <2>5 DEF RunningOK
<1> QED
  BY <1>8, <1>10, <1>11 DEF TgtInv

\* The client of a change leaves.
LEMMA DropKeeps ==
    ASSUME TgtInv, Drop
    PROVE  TgtInv'
<1>0. TgtTyped /\ ChangeOK /\ FileOK /\ RestartOK /\ RunningOK
  BY DEF TgtInv
<1>1. /\ op' = Idle /\ op # Idle
      /\ ahead' = (ahead \/ op.kind # "upsert")
      /\ UNCHANGED <<copied, file, config, running, restart, orphans, putBack, stale>>
  BY DEF Drop, Idle
<1>2. Stopped \subseteq unsettled' /\ unsettled \subseteq unsettled'
  <2>1. CASE op \in Upserts
    <3>1. op.kind = "upsert" /\ op \notin Removes
      BY <2>1 DEF Upserts, Removes
    <3> QED
      BY <2>1, <3>1 DEF Drop, Stopped
  <2>2. CASE op \notin Upserts
    <3>1. op.kind # "upsert"
      BY <1>0, <2>2, Kinds DEF TgtTyped
    <3> QED
      BY <1>0, <2>2, <3>1, Kinds DEF Drop, Stopped, TgtTyped
  <2> QED
    BY <2>1, <2>2
<1>3. ahead' \in BOOLEAN
  BY <1>1, Zenon
<1>4. TgtTyped'
  BY <1>0, <1>1, <1>3 DEF TgtTyped, Changes
<1>5. op' \notin Upserts /\ op' \notin Summarises /\ op' \notin Removes
  BY <1>1 DEF Idle, Upserts, Summarises, Removes
<1>6. ChangeOK' /\ RestartOK'
  BY <1>0, <1>1, <1>5 DEF ChangeOK, RestartOK
<1>7. FileOK'
  <2>1. ~ahead' => op \in Upserts /\ ~ahead
    BY <1>0, <1>1, Kinds DEF TgtTyped
  <2> QED
    BY <1>0, <1>1, <1>5, <2>1 DEF FileOK
<1>8. RunningOK'
  <2>1. Stopped' = {}
    BY <1>5 DEF Stopped
  <2>2. ASSUME NEW n \in TgtNames, n \notin unsettled', n \notin stale'
        PROVE  Kept(n)'
    <3>1. Kept(n)
      BY <1>0, <1>1, <1>2, <2>2 DEF RunningOK
    <3> QED
      BY <1>1, <3>1, KeptFrame
  <2> QED
    BY <1>5, <2>1, <2>2 DEF RunningOK
<1> QED
  BY <1>4, <1>6, <1>7, <1>8 DEF TgtInv

\* update_summarise has written the file.
LEMMA SummariseWriteKeeps ==
    ASSUME TgtInv, SummariseWrite
    PROVE  TgtInv'
<1>0. TgtTyped /\ ChangeOK /\ FileOK /\ RestartOK /\ RunningOK
  BY DEF TgtInv
<1>1. PICK n \in TgtNames, groups \in SUBSET TgtNodes :
          /\ config.targets[n] # Off
          /\ file' = [file EXCEPT !.targets = [config.targets EXCEPT ![n].groups = groups]]
          /\ op' = [kind |-> "summarise", name |-> n, groups |-> groups]
  BY DEF SummariseWrite, WriteTargets
<1>2. /\ op = Idle /\ ahead' = FALSE
      /\ UNCHANGED <<copied, config, running, restart, orphans, unsettled, putBack, stale>>
  BY DEF SummariseWrite, Begin
<1>3. PICK targets : targets = [config.targets EXCEPT ![n].groups = groups]
  OBVIOUS
<1>4. config.targets \in TgtConfigs /\ config.targets[n] \in Configs
  BY <1>0, <1>1 DEF TgtTyped, Saved, TgtConfigs
<1>5. PICK t : t = [config.targets[n] EXCEPT !.groups = groups]
  OBVIOUS
<1>6. t \in Configs
  BY <1>4, <1>5 DEF Configs
<1>7. targets = [config.targets EXCEPT ![n] = t]
  BY <1>3, <1>5
<1>8. targets \in TgtConfigs
  BY <1>4, <1>6, <1>7 DEF TgtConfigs
<1>9. file' \in Saved /\ file'.targets = targets /\ file'.setting = file.setting
  BY <1>0, <1>1, <1>3, <1>8 DEF TgtTyped, Saved
<1>10. /\ op' \in Summarises /\ op'.name = n /\ op'.groups = groups
       /\ op' \notin Upserts /\ op' \notin Removes /\ op' # Idle
       /\ op \notin Upserts /\ op \notin Removes
  BY <1>1, <1>2 DEF Summarises, Upserts, Removes, Idle
<1>11. TgtTyped'
  BY <1>0, <1>2, <1>9, <1>10 DEF TgtTyped, Changes
<1>12. ChangeOK'
  BY <1>1, <1>2, <1>10 DEF ChangeOK
<1>13. FileOK' /\ RestartOK'
  BY <1>0, <1>2, <1>3, <1>9, <1>10 DEF FileOK, RestartOK
<1>14. RunningOK'
  <2>1. Stopped = {} /\ Stopped' = {}
    BY <1>10 DEF Stopped
  <2>2. \A m \in TgtNames : Kept(m) => Kept(m)'
    BY <1>2, KeptFrame
  <2> QED
    BY <1>0, <1>2, <1>10, <2>1, <2>2 DEF RunningOK
<1> QED
  BY <1>11, <1>12, <1>13, <1>14 DEF TgtInv

\* update_summarise ends: the running target and the configuration follow the file.
LEMMA SummariseApplyKeeps ==
    ASSUME TgtInv, SummariseApply
    PROVE  TgtInv'
<1>0. TgtTyped /\ ChangeOK /\ FileOK /\ RestartOK /\ RunningOK
  BY DEF TgtInv
<1>1. op \in Summarises /\ op \notin Upserts /\ op \notin Removes
  BY <1>0, Kinds DEF SummariseApply, TgtTyped
<1>2. PICK n, groups : n = op.name /\ groups = op.groups
  OBVIOUS
<1>3. n \in TgtNames /\ groups \in SUBSET TgtNodes /\ config.targets[n] # Off
  BY <1>0, <1>1, <1>2 DEF Summarises, ChangeOK
<1>4. /\ op' = Idle
      /\ running' = IF running[n] = Off THEN running ELSE [running EXCEPT ![n].groups = groups]
      /\ config' = [config EXCEPT !.targets[n].groups = groups]
      /\ UNCHANGED <<copied, file, restart, orphans, unsettled, ahead, putBack, stale>>
  BY <1>2 DEF SummariseApply, SetGroups
<1>5. config.targets \in TgtConfigs /\ config.targets[n] \in Configs
  BY <1>0, <1>3 DEF TgtTyped, Saved, TgtConfigs
<1>6. PICK t : t = [config.targets[n] EXCEPT !.groups = groups]
  OBVIOUS
<1>7. t \in Configs /\ t.port = config.targets[n].port /\ t.groups = groups /\ t # Off
  BY <1>3, <1>5, <1>6, StartedAs DEF Configs
<1>8. PICK targets : targets = [config.targets EXCEPT ![n] = t]
  OBVIOUS
<1>9. targets \in TgtConfigs /\ targets[n] = t /\ \A m \in TgtNames : m # n => targets[m] = config.targets[m]
  BY <1>3, <1>5, <1>7, <1>8 DEF TgtConfigs
<1>10. config' = [config EXCEPT !.targets = targets]
  BY <1>4, <1>6, <1>8
<1>11. config' \in Saved /\ config'.targets = targets /\ config'.setting = config.setting
  BY <1>0, <1>9, <1>10 DEF TgtTyped, Saved
<1>12. file.targets = targets /\ ~ahead
  BY <1>0, <1>1, <1>2, <1>6, <1>8 DEF FileOK
<1>13. /\ running' \in [TgtNames -> Relays \cup {Off}]
       /\ \A m \in TgtNames : m # n => running'[m] = running[m]
       /\ running[n] = Off => running'[n] = Off
       /\ running[n] # Off => /\ running'[n] # Off
                              /\ running'[n].port = running[n].port
                              /\ running'[n].groups = groups
  <2>1. CASE running[n] = Off
    BY <1>0, <1>4, <2>1 DEF TgtTyped
  <2>2. CASE running[n] # Off
    <3>1. running[n] \in Relays
      BY <1>0, <1>3, <2>2 DEF TgtTyped
    <3>2. PICK w : w = [running[n] EXCEPT !.groups = groups]
      OBVIOUS
    <3>3. w \in Relays /\ w.port = running[n].port /\ w.groups = groups
      BY <1>3, <3>1, <3>2 DEF Relays
    <3>4. running' = [running EXCEPT ![n] = w]
      BY <1>4, <2>2, <3>2
    <3> QED
      BY <1>0, <1>3, <2>2, <3>3, <3>4, StartedAs DEF TgtTyped
  <2> QED
    BY <2>1, <2>2
<1>15. TgtTyped'
  BY <1>0, <1>4, <1>11, <1>13 DEF TgtTyped, Changes
<1>16. op' \notin Upserts /\ op' \notin Summarises /\ op' \notin Removes
  BY <1>4 DEF Idle, Upserts, Summarises, Removes
<1>17. ChangeOK' /\ FileOK' /\ RestartOK'
  BY <1>0, <1>4, <1>11, <1>12, <1>16 DEF ChangeOK, FileOK, RestartOK
<1>18. RunningOK'
  <2>1. Stopped = {} /\ Stopped' = {}
    BY <1>1, <1>16 DEF Stopped
  <2>2. ASSUME NEW m \in TgtNames, m \notin unsettled', m \notin stale'
        PROVE  Kept(m)'
    <3>1. Kept(m)
      BY <1>0, <1>4, <2>1, <2>2 DEF RunningOK
    <3>2. CASE m = n
      <4>1. config'.targets[m] = t /\ config.targets[m] # Off
        BY <1>3, <1>9, <1>11, <3>2
      <4>2. CASE running[m] = Off
        <5>1. Awaited(m)
          BY <3>1, <4>1, <4>2 DEF Kept, RunsAsConfigured
        <5>2. Awaited(m)'
          BY <1>4, <1>7, <1>13, <3>2, <4>1, <4>2, <5>1 DEF Awaited
        <5> QED
          BY <5>2 DEF Kept
      <4>3. CASE running[m] # Off
        <5>1. running[m].port = config.targets[m].port
          BY <3>1, <4>1, <4>3 DEF Kept, RunsAsConfigured, Awaited
        <5>2. RunsAsConfigured(m)'
          BY <1>7, <1>13, <3>2, <4>1, <4>3, <5>1 DEF RunsAsConfigured
        <5> QED
          BY <5>2 DEF Kept
      <4> QED
        BY <4>2, <4>3
    <3>3. CASE m # n
      BY <1>4, <1>9, <1>11, <1>13, <3>1, <3>3, KeptFrame
    <3> QED
      BY <3>2, <3>3
  <2> QED
    BY <1>16, <2>1, <2>2 DEF RunningOK
<1> QED
  BY <1>15, <1>17, <1>18 DEF TgtInv

\* remove has written the file and stopped the target.
LEMMA RemoveWriteKeeps ==
    ASSUME TgtInv, RemoveWrite
    PROVE  TgtInv'
<1>0. TgtTyped /\ ChangeOK /\ FileOK /\ RestartOK /\ RunningOK
  BY DEF TgtInv
<1>1. PICK n \in TgtNames :
          /\ config.targets[n] # Off
          /\ file' = [file EXCEPT !.targets = [config.targets EXCEPT ![n] = Off]]
          /\ running' = [running EXCEPT ![n] = Off]
          /\ op' = [kind |-> "remove", name |-> n]
          /\ unsettled' = unsettled \ {n} /\ putBack' = putBack \ {n} /\ stale' = stale \ {n}
  BY DEF RemoveWrite, WriteTargets
<1>2. /\ op = Idle /\ ahead' = FALSE
      /\ UNCHANGED <<copied, config, restart, orphans>>
  BY DEF RemoveWrite, Begin
<1>3. PICK targets : targets = [config.targets EXCEPT ![n] = Off]
  OBVIOUS
<1>4. targets \in TgtConfigs
  BY <1>0, <1>3 DEF TgtTyped, Saved, TgtConfigs
<1>5. file' \in Saved /\ file'.targets = targets /\ file'.setting = file.setting
  BY <1>0, <1>1, <1>3, <1>4 DEF TgtTyped, Saved
<1>6. /\ op' \in Removes /\ op'.name = n
      /\ op' \notin Upserts /\ op' \notin Summarises /\ op' # Idle
      /\ op \notin Upserts /\ op \notin Removes
  BY <1>1, <1>2 DEF Summarises, Upserts, Removes, Idle
<1>7. /\ running' \in [TgtNames -> Relays \cup {Off}]
      /\ running'[n] = Off
      /\ \A m \in TgtNames : m # n => running'[m] = running[m]
  BY <1>0, <1>1 DEF TgtTyped
<1>8. TgtTyped'
  BY <1>0, <1>2, <1>5, <1>6, <1>7 DEF TgtTyped, Changes
<1>9. ChangeOK'
  BY <1>1, <1>2, <1>6 DEF ChangeOK
<1>10. FileOK' /\ RestartOK'
  BY <1>0, <1>2, <1>3, <1>5, <1>6 DEF FileOK, RestartOK
<1>11. RunningOK'
  <2>1. Stopped = {} /\ Stopped' = {n}
    BY <1>6 DEF Stopped
  <2>2. ASSUME NEW m \in TgtNames, m \notin unsettled', m \notin stale', m # n
        PROVE  Kept(m)'
    <3>1. Kept(m)
      BY <1>0, <1>1, <2>1, <2>2 DEF RunningOK
    <3> QED
      BY <1>1, <1>2, <1>7, <2>2, <3>1, KeptFrame
  <2> QED
    BY <1>6, <1>7, <2>1, <2>2 DEF RunningOK
<1> QED
  BY <1>8, <1>9, <1>10, <1>11 DEF TgtInv

\* remove ends.
LEMMA RemoveEndKeeps ==
    ASSUME TgtInv, RemoveEnd
    PROVE  TgtInv'
<1>0. TgtTyped /\ ChangeOK /\ FileOK /\ RestartOK /\ RunningOK
  BY DEF TgtInv
<1>1. op \in Removes /\ op \notin Upserts
  BY <1>0, Kinds DEF RemoveEnd, TgtTyped
<1>2. PICK n : n = op.name
  OBVIOUS
<1>3. n \in TgtNames
  BY <1>1, <1>2 DEF Removes
<1>4. /\ op' = Idle
      /\ config' = [config EXCEPT !.targets[n] = Off]
      /\ UNCHANGED <<copied, file, running, restart, orphans, unsettled, ahead, putBack, stale>>
  BY <1>2 DEF RemoveEnd
<1>5. PICK targets : targets = [config.targets EXCEPT ![n] = Off]
  OBVIOUS
<1>6. targets \in TgtConfigs /\ targets[n] = Off /\ \A m \in TgtNames : m # n => targets[m] = config.targets[m]
  BY <1>0, <1>3, <1>5 DEF TgtTyped, Saved, TgtConfigs
<1>7. config' = [config EXCEPT !.targets = targets]
  BY <1>4, <1>5
<1>8. config' \in Saved /\ config'.targets = targets /\ config'.setting = config.setting
  BY <1>0, <1>6, <1>7 DEF TgtTyped, Saved
<1>10. TgtTyped'
  BY <1>0, <1>4, <1>8 DEF TgtTyped, Changes
<1>11. op' \notin Upserts /\ op' \notin Summarises /\ op' \notin Removes
  BY <1>4 DEF Idle, Upserts, Summarises, Removes
<1>12. ChangeOK' /\ FileOK' /\ RestartOK'
  BY <1>0, <1>1, <1>2, <1>4, <1>5, <1>8, <1>11 DEF ChangeOK, FileOK, RestartOK
<1>13. RunningOK'
  <2>1. Stopped = {n} /\ Stopped' = {}
    BY <1>1, <1>2, <1>11 DEF Stopped
  <2>2. ASSUME NEW m \in TgtNames, m \notin unsettled', m \notin stale'
        PROVE  Kept(m)'
    <3>1. CASE m = n
      <4>1. config'.targets[m] = Off /\ running'[m] = Off
        BY <1>0, <1>1, <1>2, <1>4, <1>6, <1>8, <2>2, <3>1 DEF RunningOK
      <4> QED
        BY <4>1 DEF Kept, RunsAsConfigured
    <3>2. CASE m # n
      <4>1. Kept(m)
        BY <1>0, <1>4, <2>1, <2>2, <3>2 DEF RunningOK
      <4> QED
        BY <1>4, <1>6, <1>8, <3>2, <4>1, KeptFrame
    <3> QED
      BY <3>1, <3>2
  <2> QED
    BY <1>11, <2>1, <2>2 DEF RunningOK
<1> QED
  BY <1>10, <1>12, <1>13 DEF TgtInv

\* update_settings changes its own keys, of the file and of the configuration.
LEMMA UpdateSettingsKeeps ==
    ASSUME TgtInv, UpdateSettings
    PROVE  TgtInv'
<1>0. TgtTyped /\ ChangeOK /\ FileOK /\ RestartOK /\ RunningOK
  BY DEF TgtInv
<1>1. PICK v \in {1, 2} : file' = [file EXCEPT !.setting = v] /\ config' = [config EXCEPT !.setting = v]
  BY DEF UpdateSettings, WriteSettings
<1>2. /\ op = Idle
      /\ UNCHANGED <<copied, running, op, restart, orphans, unsettled, ahead, putBack, stale>>
  BY DEF UpdateSettings, Begin
<1>3. /\ file' \in Saved /\ config' \in Saved
      /\ file'.targets = file.targets /\ config'.targets = config.targets
      /\ file'.setting = v /\ config'.setting = v
  BY <1>0, <1>1 DEF TgtTyped, Saved
<1>4. TgtTyped'
  BY <1>0, <1>2, <1>3 DEF TgtTyped
<1>5. ChangeOK' /\ FileOK' /\ RestartOK'
  BY <1>0, <1>2, <1>3 DEF ChangeOK, FileOK, RestartOK
<1>6. RunningOK'
  BY <1>0, <1>2, <1>3 DEF RunningOK, Kept, Awaited, RunsAsConfigured, Stopped
<1> QED
  BY <1>4, <1>5, <1>6 DEF TgtInv

\* A step of restart_all that leaves the running targets and the configuration.
LEMMA RestartMoves ==
    ASSUME TgtInv, NEW h \in Restarts, NEW r \in RestartStates,
           restart' = [restart EXCEPT ![h] = r],
           \A n \in r.todo : r.targets[n] # Off,
           r.kind = "idle" => r.todo = {},
           r.kind = "starting" => restart[h].kind = "starting" \/ op \notin Upserts,
           UNCHANGED <<copied, file, config, running, op, ahead, putBack, stale>>,
           orphans' \subseteq Ports, unsettled \subseteq unsettled',
           \A n \in restart[h].mine :
             /\ config.targets[n] # Off /\ running[n] = Off
             /\ restart[h].kind = "stopping" \/ n \in restart[h].todo
             => n \in unsettled' \/ (n \in r.mine /\ (r.kind = "stopping" \/ n \in r.todo))
    PROVE  TgtInv'
<1>0. TgtTyped /\ ChangeOK /\ FileOK /\ RestartOK /\ RunningOK
  BY DEF TgtInv
<1>1. /\ restart' \in [Restarts -> RestartStates] /\ restart'[h] = r
      /\ \A g \in Restarts : g # h => restart'[g] = restart[g]
  BY <1>0 DEF TgtTyped
<1>2. TgtTyped'
  BY <1>0, <1>1 DEF TgtTyped
<1>3. ChangeOK' /\ FileOK' /\ Stopped' = Stopped
  BY <1>0 DEF ChangeOK, FileOK, Stopped
<1>4. RestartOK'
  <2>1. \A g \in Restarts : \A n \in restart'[g].todo : restart'[g].targets[n] # Off
    BY <1>0, <1>1 DEF RestartOK
  <2>2. \A g \in Restarts : restart'[g].kind = "idle" => restart'[g].todo = {}
    BY <1>0, <1>1 DEF RestartOK
  <2>3. op \in Upserts => \A g \in Restarts : restart'[g].kind # "starting"
    BY <1>0, <1>1 DEF RestartOK
  <2> QED
    BY <2>1, <2>2, <2>3 DEF RestartOK
<1>5. ASSUME NEW n \in TgtNames, Awaited(n), n \notin unsettled'
      PROVE  Awaited(n)'
  <2>1. PICK g \in Restarts :
          n \in restart[g].mine /\ (restart[g].kind = "stopping" \/ n \in restart[g].todo)
    BY <1>5 DEF Awaited
  <2>2. config.targets[n] # Off /\ running[n] = Off
    BY <1>5 DEF Awaited
  <2>3. n \in restart'[g].mine /\ (restart'[g].kind = "stopping" \/ n \in restart'[g].todo)
    BY <1>1, <1>5, <2>1, <2>2
  <2> QED
    BY <2>2, <2>3 DEF Awaited
<1>6. \A n \in TgtNames : RunsAsConfigured(n) => RunsAsConfigured(n)'
  BY DEF RunsAsConfigured
<1>7. \A n \in TgtNames : Kept(n) /\ n \notin unsettled' => Kept(n)'
  BY <1>5, <1>6 DEF Kept
<1>8. op \in Upserts => op.old \in TgtNames
  BY DEF Upserts
<1>9. RunningOK'
  <2>1. \A n \in TgtNames \ (unsettled' \cup stale' \cup Stopped') : Kept(n)'
    BY <1>0, <1>3, <1>7 DEF RunningOK
  <2>2. op \in Upserts /\ op.replaces =>
         /\ running[op.old] = Off
         /\ op.old \notin unsettled' \cup stale =>
              IF op.was = Off THEN Awaited(op.old)' ELSE op.was.port = config.targets[op.old].port
    BY <1>0, <1>5, <1>8 DEF RunningOK
  <2>3. op \in Removes /\ op.name \notin stale => running[op.name] = Off
    BY <1>0 DEF RunningOK
  <2> QED
    BY <2>1, <2>2, <2>3 DEF RunningOK, Awaited
<1> QED
  BY <1>2, <1>3, <1>4, <1>9 DEF TgtInv

\* restart_all takes every running target.
LEMMA RestartTakeKeeps ==
    ASSUME TgtInv, NEW h \in Restarts, RestartTake(h)
    PROVE  TgtInv'
<1>0. TgtTyped /\ ChangeOK /\ FileOK /\ RestartOK /\ RunningOK
  BY DEF TgtInv
<1>1. PICK taken : taken = {n \in TgtNames : running[n] # Off}
  OBVIOUS
<1>2. PICK r : r = [NotRestarting EXCEPT !.kind = "stopping", !.mine = taken,
                                         !.left = {running[n].port : n \in taken}]
  OBVIOUS
<1>3. /\ restart' = [restart EXCEPT ![h] = r] /\ restart[h].kind = "idle"
      /\ running' = [n \in TgtNames |-> Off]
      /\ UNCHANGED <<copied, file, config, op, orphans, unsettled, ahead, putBack, stale>>
  BY <1>1, <1>2 DEF RestartTake
<1>4. {running[n].port : n \in taken} \subseteq Ports
  BY <1>0, <1>1 DEF TgtTyped, Relays
<1>5. r \in RestartStates /\ r.kind = "stopping" /\ r.mine = taken /\ r.todo = {}
  BY <1>1, <1>2, <1>4, NoRestart DEF RestartStates
<1>6. /\ restart' \in [Restarts -> RestartStates] /\ restart'[h] = r
      /\ \A g \in Restarts : g # h => restart'[g] = restart[g]
  BY <1>0, <1>3, <1>5 DEF TgtTyped
<1>7. op \notin Upserts
  BY DEF RestartTake, Upserts
<1>8. TgtTyped'
  <2>1. running' \in [TgtNames -> Relays \cup {Off}]
    BY <1>3
  <2> QED
    BY <1>0, <1>3, <1>6, <2>1 DEF TgtTyped
<1>9. ChangeOK' /\ FileOK' /\ Stopped' = Stopped
  BY <1>0, <1>3 DEF ChangeOK, FileOK, Stopped
<1>10. RestartOK'
  <2>1. \A g \in Restarts : \A n \in restart'[g].todo : restart'[g].targets[n] # Off
    BY <1>0, <1>5, <1>6 DEF RestartOK
  <2>2. \A g \in Restarts : restart'[g].kind = "idle" => restart'[g].todo = {}
    BY <1>0, <1>5, <1>6 DEF RestartOK
  <2> QED
    BY <1>3, <1>7, <2>1, <2>2 DEF RestartOK
<1>11. RunningOK'
  <2>1. ASSUME NEW n \in TgtNames, n \notin unsettled', n \notin stale', n \notin Stopped'
        PROVE  Kept(n)'
    <3>1. Kept(n)
      BY <1>0, <1>3, <1>9, <2>1 DEF RunningOK
    <3>2. CASE config.targets[n] = Off
      BY <1>3, <3>2 DEF Kept, RunsAsConfigured
    <3>3. CASE config.targets[n] # Off /\ running[n] # Off
      <4>1. Awaited(n)'
        BY <1>1, <1>3, <1>5, <1>6, <3>3 DEF Awaited
      <4> QED
        BY <4>1 DEF Kept
    <3>4. CASE config.targets[n] # Off /\ running[n] = Off
      <4>1. Awaited(n)
        BY <3>1, <3>4 DEF Kept, RunsAsConfigured
      <4>2. PICK g \in Restarts :
              n \in restart[g].mine /\ (restart[g].kind = "stopping" \/ n \in restart[g].todo)
        BY <4>1 DEF Awaited
      <4>3. g # h
        BY <1>0, <1>3, <4>2 DEF RestartOK
      <4>4. Awaited(n)'
        BY <1>3, <1>6, <3>4, <4>2, <4>3 DEF Awaited
      <4> QED
        BY <4>4 DEF Kept
    <3> QED
      BY <3>2, <3>3, <3>4
  <2>2. op' \in Removes => op'.name \in TgtNames
    BY DEF Removes
  <2> QED
    BY <1>3, <1>7, <2>1, <2>2 DEF RunningOK
<1> QED
  BY <1>8, <1>9, <1>10, <1>11 DEF TgtInv

\* restart_all starts one of the targets that it has copied.
LEMMA RestartStartKeeps ==
    ASSUME TgtInv, NEW h \in Restarts, RestartStart(h)
    PROVE  TgtInv'
<1>0. TgtTyped /\ ChangeOK /\ FileOK /\ RestartOK /\ RunningOK
  BY DEF TgtInv
<1>1. PICK n \in restart[h].todo :
         /\ Insert(n, restart[h].targets[n])
         /\ restart' = [restart EXCEPT ![h].todo = @ \ {n}]
         /\ unsettled' = unsettled \ {n} /\ putBack' = putBack \ {n}
         /\ stale' = IF restart[h].targets[n] = config.targets[n] /\ op # [kind |-> "remove", name |-> n]
                     THEN stale \ {n} ELSE stale \cup {n}
  BY DEF RestartStart
<1>2. UNCHANGED <<copied, file, config, op, ahead>> /\ restart[h].kind = "starting"
  BY DEF RestartStart
<1>3. restart[h] \in RestartStates
  BY <1>0 DEF TgtTyped
<1>4. PICK t : t = restart[h].targets[n]
  OBVIOUS
<1>5. n \in TgtNames /\ t \in Configs
  BY <1>0, <1>1, <1>3, <1>4 DEF RestartStates, TgtConfigs, RestartOK
<1>6. /\ running' \in [TgtNames -> Relays \cup {Off}] /\ running'[n] = Started(t)
      /\ \A m \in TgtNames : m # n => running'[m] = running[m]
      /\ orphans' \subseteq Ports
  BY <1>0, <1>1, <1>4, <1>5, Inserted DEF TgtTyped
<1>7. PICK r : r = [restart[h] EXCEPT !.todo = @ \ {n}]
  OBVIOUS
<1>8. /\ r \in RestartStates /\ r.kind = "starting" /\ r.mine = restart[h].mine
      /\ r.targets = restart[h].targets /\ r.todo = restart[h].todo \ {n}
  BY <1>2, <1>3, <1>7 DEF RestartStates
<1>9. restart' = [restart EXCEPT ![h] = r]
  BY <1>1, <1>7
<1>10. /\ restart' \in [Restarts -> RestartStates] /\ restart'[h] = r
       /\ \A g \in Restarts : g # h => restart'[g] = restart[g]
  BY <1>0, <1>8, <1>9 DEF TgtTyped
<1>11. TgtTyped'
  BY <1>0, <1>2, <1>6, <1>10 DEF TgtTyped
<1>12. ChangeOK' /\ FileOK' /\ Stopped' = Stopped
  BY <1>0, <1>2 DEF ChangeOK, FileOK, Stopped
<1>13. op \notin Upserts
  BY <1>0, <1>2 DEF RestartOK
<1>14. RestartOK'
  <2>1. \A g \in Restarts : \A m \in restart'[g].todo : restart'[g].targets[m] # Off
    BY <1>0, <1>8, <1>10 DEF RestartOK
  <2>2. \A g \in Restarts : restart'[g].kind = "idle" => restart'[g].todo = {}
    BY <1>0, <1>8, <1>10 DEF RestartOK
  <2> QED
    BY <1>2, <1>13, <2>1, <2>2 DEF RestartOK
<1>15. ASSUME NEW m \in TgtNames, m \notin unsettled', m \notin stale', m \notin Stopped'
       PROVE  Kept(m)'
  <2>1. CASE m = n
    <3>1. config'.targets[m] = t
      BY <1>1, <1>2, <1>4, <1>15, <2>1
    <3>2. RunsAsConfigured(m)'
      BY <1>5, <1>6, <2>1, <3>1, StartedAs DEF RunsAsConfigured
    <3> QED
      BY <3>2 DEF Kept
  <2>2. CASE m # n
    <3>1. m \notin unsettled /\ m \notin stale /\ (m \in putBack => m \in putBack')
      BY <1>1, <1>15, <2>2
    <3>2. Kept(m)
      BY <1>0, <1>12, <1>15, <3>1 DEF RunningOK
    <3>3. \A g \in Restarts :
            m \in restart[g].mine /\ (restart[g].kind = "stopping" \/ m \in restart[g].todo)
              => m \in restart'[g].mine /\ (restart'[g].kind = "stopping" \/ m \in restart'[g].todo)
      BY <1>2, <1>8, <1>10, <2>2
    <3>4. config'.targets[m] = config.targets[m] /\ running'[m] = running[m]
      BY <1>2, <1>6, <2>2
    <3> QED
      BY <3>1, <3>2, <3>3, <3>4, KeptFrame
  <2> QED
    BY <2>1, <2>2
<1>16. ASSUME op \in Removes, op.name \notin stale' PROVE running'[op.name] = Off
  <2>1. op = [kind |-> "remove", name |-> op.name] /\ op.name \in TgtNames
    BY <1>16 DEF Removes
  <2>2. op.name # n
    <3> SUFFICES ASSUME op.name = n PROVE FALSE
      OBVIOUS
    <3>1. n \in stale'
      BY <1>1, <2>1
    <3> QED
      BY <1>16, <3>1
  <2>3. op.name \notin stale
    BY <1>1, <1>16, <2>2
  <2> QED
    BY <1>0, <1>6, <1>16, <2>1, <2>2, <2>3 DEF RunningOK
<1>17. RunningOK'
  BY <1>2, <1>13, <1>15, <1>16 DEF RunningOK
<1> QED
  BY <1>11, <1>12, <1>14, <1>17 DEF TgtInv

LEMMA RestartKeeps ==
    ASSUME TgtInv, NEW h \in Restarts, RestartStep(h)
    PROVE  TgtInv'
<1>0. TgtTyped /\ RestartOK
  BY DEF TgtInv
<1>1. restart[h] \in RestartStates
  BY <1>0 DEF TgtTyped
<1>2. CASE RestartStop(h)
  <2>1. PICK p \in restart[h].left : restart' = [restart EXCEPT ![h].left = @ \ {p}]
    BY <1>2 DEF RestartStop
  <2>2. PICK r : r = [restart[h] EXCEPT !.left = @ \ {p}]
    OBVIOUS
  <2>3. /\ r \in RestartStates /\ r.kind = restart[h].kind /\ r.mine = restart[h].mine
        /\ r.targets = restart[h].targets /\ r.todo = restart[h].todo
    BY <1>1, <2>2 DEF RestartStates
  <2>4. restart' = [restart EXCEPT ![h] = r] /\ orphans' = orphans
    BY <1>2, <2>1, <2>2 DEF RestartStop
  <2>5. UNCHANGED <<copied, file, config, running, op, orphans, ahead, putBack, stale, unsettled>>
    BY <1>2 DEF RestartStop
  <2>6. \A n \in r.todo : r.targets[n] # Off
    BY <1>0, <2>3 DEF RestartOK
  <2>7. (r.kind = "idle" => r.todo = {}) /\ orphans' \subseteq Ports
    BY <1>0, <2>3, <2>5 DEF RestartOK, TgtTyped
  <2>8. \A n \in restart[h].mine :
          /\ config.targets[n] # Off /\ running[n] = Off
          /\ restart[h].kind = "stopping" \/ n \in restart[h].todo
          => n \in unsettled' \/ (n \in r.mine /\ (r.kind = "stopping" \/ n \in r.todo))
    BY <2>3
  <2> QED
    BY <2>3, <2>4, <2>5, <2>6, <2>7, <2>8, RestartMoves
<1>3. CASE RestartCopy(h)
  <2>1. PICK r : r = [restart[h] EXCEPT !.kind = "copied", !.targets = config.targets,
                                        !.todo = {n \in TgtNames : config.targets[n] # Off}]
    OBVIOUS
  <2>2. restart' = [restart EXCEPT ![h] = r]
    BY <1>3, <2>1 DEF RestartCopy
  <2>3. config.targets \in TgtConfigs
    BY <1>0 DEF TgtTyped, Saved
  <2>4. /\ r \in RestartStates /\ r.kind = "copied" /\ r.mine = restart[h].mine
        /\ r.targets = config.targets /\ r.todo = {n \in TgtNames : config.targets[n] # Off}
    BY <1>1, <2>1, <2>3 DEF RestartStates
  <2>5. UNCHANGED <<copied, file, config, running, op, orphans, ahead, putBack, stale, unsettled>>
    BY <1>3 DEF RestartCopy
  <2>6. restart[h].mine \subseteq TgtNames
    BY <1>1 DEF RestartStates
  <2> QED
    BY <1>0, <2>2, <2>4, <2>5, <2>6, RestartMoves DEF TgtTyped
<1>4. CASE RestartLock(h)
  <2>1. PICK r : r = [restart[h] EXCEPT !.kind = "starting"]
    OBVIOUS
  <2>2. restart' = [restart EXCEPT ![h] = r] /\ op.kind # "upsert" /\ restart[h].kind = "copied"
    BY <1>4, <2>1 DEF RestartLock
  <2>3. /\ r \in RestartStates /\ r.kind = "starting" /\ r.mine = restart[h].mine
        /\ r.targets = restart[h].targets /\ r.todo = restart[h].todo
    BY <1>1, <2>1 DEF RestartStates
  <2>4. UNCHANGED <<copied, file, config, running, op, orphans, ahead, putBack, stale, unsettled>>
    BY <1>4 DEF RestartLock
  <2>5. op \notin Upserts
    BY <2>2 DEF Upserts
  <2>6. \A n \in r.todo : r.targets[n] # Off
    BY <1>0, <2>3 DEF RestartOK
  <2>7. orphans' \subseteq Ports
    BY <1>0, <2>4 DEF TgtTyped
  <2>8. \A n \in restart[h].mine :
          /\ config.targets[n] # Off /\ running[n] = Off
          /\ restart[h].kind = "stopping" \/ n \in restart[h].todo
          => n \in unsettled' \/ (n \in r.mine /\ (r.kind = "stopping" \/ n \in r.todo))
    BY <2>2, <2>3
  <2> QED
    BY <2>2, <2>3, <2>4, <2>5, <2>6, <2>7, <2>8, RestartMoves
<1>5. CASE RestartSkip(h)
  <2>1. PICK n \in restart[h].todo :
          /\ restart' = [restart EXCEPT ![h].todo = @ \ {n}]
          /\ unsettled' = IF running[n] = Off THEN unsettled \cup {n} ELSE unsettled
    BY <1>5 DEF RestartSkip
  <2>2. PICK r : r = [restart[h] EXCEPT !.todo = @ \ {n}]
    OBVIOUS
  <2>3. restart' = [restart EXCEPT ![h] = r] /\ restart[h].kind = "starting"
    BY <1>5, <2>1, <2>2 DEF RestartSkip
  <2>4. /\ r \in RestartStates /\ r.kind = "starting" /\ r.mine = restart[h].mine
        /\ r.targets = restart[h].targets /\ r.todo = restart[h].todo \ {n}
    BY <1>1, <2>2, <2>3 DEF RestartStates
  <2>5. UNCHANGED <<copied, file, config, running, op, orphans, ahead, putBack, stale>>
    BY <1>5 DEF RestartSkip
  <2>6. unsettled \subseteq unsettled' /\ (running[n] = Off => n \in unsettled')
    BY <2>1
  <2>7. \A m \in r.todo : r.targets[m] # Off
    BY <1>0, <2>4 DEF RestartOK
  <2>8. \A m \in restart[h].mine :
          /\ config.targets[m] # Off /\ running[m] = Off
          /\ restart[h].kind = "stopping" \/ m \in restart[h].todo
          => m \in unsettled' \/ (m \in r.mine /\ (r.kind = "stopping" \/ m \in r.todo))
    BY <2>3, <2>4, <2>6
  <2>9. orphans' \subseteq Ports
    BY <1>0, <2>5 DEF TgtTyped
  <2> QED
    BY <2>3, <2>4, <2>5, <2>6, <2>7, <2>8, <2>9, RestartMoves
<1>6. CASE RestartEnd(h)
  <2>1. /\ restart' = [restart EXCEPT ![h] = NotRestarting]
        /\ restart[h].kind = "starting" /\ restart[h].todo = {}
        /\ UNCHANGED <<copied, file, config, running, op, orphans, ahead, putBack, stale, unsettled>>
    BY <1>6 DEF RestartEnd
  <2>2. orphans' \subseteq Ports
    BY <1>0, <2>1 DEF TgtTyped
  <2> QED
    BY <2>1, <2>2, NoRestart, RestartMoves
<1>7. CASE DropRestart(h)
  <2>1. /\ restart' = [restart EXCEPT ![h] = NotRestarting]
        /\ unsettled' = unsettled \cup {n \in restart[h].mine : running[n] = Off}
        /\ UNCHANGED <<copied, file, config, running, op, ahead, putBack, stale>>
    BY <1>7 DEF DropRestart
  <2>2. restart[h].left \subseteq Ports /\ orphans \subseteq Ports
    BY <1>0, <1>1 DEF RestartStates, TgtTyped
  <2>3. orphans' \subseteq Ports
    BY <1>7, <2>2 DEF DropRestart
  <2> QED
    BY <2>1, <2>3, NoRestart, RestartMoves
<1> QED
  BY <1>2, <1>3, <1>4, <1>5, <1>6, <1>7, RestartTakeKeeps, RestartStartKeeps DEF RestartStep

\* The process starts from the file.
LEMMA CrashAndStartKeeps ==
    ASSUME TgtInv, CrashAndStart
    PROVE  TgtInv'
<1>0. TgtTyped
  BY DEF TgtInv
<1>1. /\ config' = file /\ file' = file
      /\ running' = [n \in TgtNames |->
           IF file.targets[n] = Off THEN Off ELSE Started(file.targets[n])]
      /\ op' = Idle /\ copied' = NoCopy /\ restart' = [h \in Restarts |-> NotRestarting] /\ orphans' = {}
      /\ unsettled' = {} /\ ahead' = FALSE /\ putBack' = {} /\ stale' = {}
  BY DEF CrashAndStart
<1>2. \A n \in TgtNames : file.targets[n] # Off => file.targets[n] \in Configs
  BY <1>0 DEF TgtTyped, Saved, TgtConfigs
<1>3. running' \in [TgtNames -> Relays \cup {Off}]
  BY <1>1, <1>2, StartedAs
<1>4. TgtTyped'
  BY <1>0, <1>1, <1>3, NoRestart DEF TgtTyped, Changes
<1>5. op' \notin Upserts /\ op' \notin Summarises /\ op' \notin Removes
  BY <1>1 DEF Idle, Upserts, Summarises, Removes
<1>6. ChangeOK' /\ FileOK' /\ RestartOK'
  BY <1>1, <1>5, NoRestart DEF ChangeOK, FileOK, RestartOK
<1>7. \A n \in TgtNames : RunsAsConfigured(n)'
  BY <1>1, <1>2, StartedAs DEF RunsAsConfigured
<1>8. RunningOK'
  BY <1>1, <1>5, <1>7 DEF RunningOK, Kept
<1> QED
  BY <1>4, <1>6, <1>8 DEF TgtInv

LEMMA TgtInvariance == TgtSpec => []TgtInv
<1>1. TgtInv /\ [TgtNext]_tgtVars => TgtInv'
  <2> SUFFICES ASSUME TgtInv, [TgtNext]_tgtVars PROVE TgtInv'
    OBVIOUS
  <2>0. TgtTyped
    BY DEF TgtInv
  <2>1. CASE UNCHANGED tgtVars \/ WriteFails
    BY <2>0, <2>1, TgtFrame DEF tgtVars, WriteFails, TgtTyped
  <2>2. CASE UpdateRead
    <3>1. PICK n \in TgtNames :
            config.targets[n] # Off /\ copied' = [name |-> n, groups |-> config.targets[n].groups]
      BY <2>2 DEF UpdateRead
    <3>2. config.targets[n].groups \in SUBSET TgtNodes
      BY <2>0, <3>1 DEF TgtTyped, Saved, TgtConfigs, Configs
    <3> QED
      BY <2>2, <3>1, <3>2, TgtFrame DEF UpdateRead
  <2>3. CASE UpdateRefused
    BY <2>3, TgtFrame DEF UpdateRefused
  <2> QED
    BY <2>1, <2>2, <2>3, UpsertBegins, UpsertCommitKeeps, UpsertFailsKeeps, DropKeeps,
       SummariseWriteKeeps, SummariseApplyKeeps, RemoveWriteKeeps, RemoveEndKeeps,
       UpdateSettingsKeeps, RestartKeeps, CrashAndStartKeeps
    DEF TgtNext
<1> QED
  BY <1>1, TgtInitially, PTL DEF TgtSpec

(***************************************************************************)
(* Between changes the file is what the gateway works with, for the        *)
(* targets and for the settings (TargetManager, update_settings).          *)
(***************************************************************************)
THEOREM ConfigurationIsSaved == TgtSpec => []ConfigIsSaved
<1>1. TgtInv => ConfigIsSaved
  BY DEF TgtInv, FileOK, ConfigIsSaved
<1> QED
  BY <1>1, TgtInvariance, PTL

(***************************************************************************)
(* Between changes what runs is what is configured: the targets, their     *)
(* addresses and the nodes whose writes they summarise (upsert, remove,    *)
(* update_summarise, restart_all), except for the names that the history   *)
(* names: dropped, not started, started from an older copy, or put back.   *)
(***************************************************************************)
THEOREM TargetsRunAsConfigured == TgtSpec => []TargetsAsConfigured
<1>1. TgtInv => TargetsAsConfigured
  <2> SUFFICES ASSUME TgtInv, Quiet, NEW n \in TgtNames, n \notin unsettled, n \notin stale
               PROVE  RunsAsConfigured(n)
    BY DEF TargetsAsConfigured, RunningAsConfigured, SummarisesAsConfigured, RunsAsConfigured
  <2>1. Stopped = {}
    BY DEF Quiet, Stopped, Idle, Upserts, Removes
  <2>2. Kept(n) /\ \A h \in Restarts : restart[h].kind = "idle"
    BY <2>1 DEF TgtInv, RunningOK, Quiet
  <2>3. \A h \in Restarts : restart[h].todo = {}
    BY <2>2 DEF TgtInv, RestartOK
  <2> QED
    BY <2>2, <2>3 DEF Kept, Awaited
<1> QED
  BY <1>1, TgtInvariance, PTL

(***************************************************************************)
(* Type correctness of the configuration, its file, the targets that run   *)
(* and the changes under way.                                              *)
(***************************************************************************)
THEOREM TargetsTyped == TgtSpec => []TgtTypeOK
<1>1. TgtInv => TgtTypeOK
  <2> SUFFICES ASSUME TgtInv PROVE TgtTypeOK
    OBVIOUS
  <2>0. TgtTyped
    BY DEF TgtInv
  <2>1. \A c \in {file, config} :
          c.setting \in 0..2 /\ \A n \in TgtNames : c.targets[n] \in Configs \cup {Off}
    BY <2>0 DEF TgtTyped, Saved, TgtConfigs
  <2>2. \A n \in TgtNames : running[n] = Off \/ running[n].groups \subseteq TgtNodes
    BY <2>0 DEF TgtTyped, Relays
  <2>3. copied = NoCopy \/ copied.name \in TgtNames
    BY <2>0 DEF TgtTyped
  <2>4. op.kind \in {"idle", "upsert", "summarise", "remove"}
    BY <2>0 DEF TgtTyped, Changes, Idle, Upserts, Summarises, Removes
  <2>5. \A h \in Restarts :
          /\ restart[h].kind \in {"idle", "stopping", "copied", "starting"}
          /\ restart[h].left \subseteq Ports /\ restart[h].mine \cup restart[h].todo \subseteq TgtNames
    BY <2>0 DEF TgtTyped, RestartStates
  <2> QED
    BY <2>0, <2>1, <2>2, <2>3, <2>4, <2>5 DEF TgtTypeOK, TgtTyped
<1> QED
  BY <1>1, TgtInvariance, PTL
===============================================================================
