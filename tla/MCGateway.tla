------------------------------- MODULE MCGateway ------------------------------
(***************************************************************************)
(* The parts of the gateway that share no state the properties are about,  *)
(* checked in one run: a behaviour is one of the part in focus, while the  *)
(* others stay as they begin.                                              *)
(***************************************************************************)
EXTENDS WebAccess, LoginLimit, Browser, RelaySessions, Connections, Targets,
        Export, Assistant, Summarise, Pki, ExportSettings

VARIABLE focus

gwVars == <<focus, webVars, limVars, brVars, sesVars, conVars, tgtVars, expVars, astVars, sumVars, pkVars, xsVars>>

\* channels: without a certificate, signed, and signed and encrypted
CertOf == [c \in Chans |-> IF c = "c0" THEN "none" ELSE "k"]
RankOf == [c \in Chans |-> CASE c = "c0" -> 0 [] c = "c1" -> 1 [] c = "c2" -> 2]

\* a node with two spellings, and two clients with the same application URI
ParseOf == [t \in Texts |-> IF t = "b" THEN 2 ELSE 1]
ClientsOf == {{"ip1", "uri"}, {"ip2", "uri"}}

CONSTANT Parts   \* the parts that are checked

GatewayInit ==
    /\ focus \in Parts
    /\ WebInit /\ LimInit /\ BrInit /\ SesInit /\ ConInit /\ TgtInit /\ ExpInit /\ AstInit /\ SumInit
    /\ PkInit /\ XsInit
    /\ focus # "export" => saved["kind"].hash = NoHash   \* one beginning for each other part

GatewayNext ==
    \/ /\ focus = "web" /\ WebNext
       /\ UNCHANGED <<focus, limVars, brVars, sesVars, conVars, tgtVars, expVars, astVars, sumVars, pkVars, xsVars>>
    \/ /\ focus = "login" /\ LimNext
       /\ UNCHANGED <<focus, webVars, brVars, sesVars, conVars, tgtVars, expVars, astVars, sumVars, pkVars, xsVars>>
    \/ /\ focus = "browser" /\ BrNext
       /\ UNCHANGED <<focus, webVars, limVars, sesVars, conVars, tgtVars, expVars, astVars, sumVars, pkVars, xsVars>>
    \/ /\ focus = "sessions" /\ SesNext
       /\ UNCHANGED <<focus, webVars, limVars, brVars, conVars, tgtVars, expVars, astVars, sumVars, pkVars, xsVars>>
    \/ /\ focus = "connections" /\ ConNext
       /\ UNCHANGED <<focus, webVars, limVars, brVars, sesVars, tgtVars, expVars, astVars, sumVars, pkVars, xsVars>>
    \/ /\ focus = "targets" /\ TgtNext
       /\ UNCHANGED <<focus, webVars, limVars, brVars, sesVars, conVars, expVars, astVars, sumVars, pkVars, xsVars>>
    \/ /\ focus = "export" /\ ExpNext
       /\ UNCHANGED <<focus, webVars, limVars, brVars, sesVars, conVars, tgtVars, astVars, sumVars, pkVars, xsVars>>
    \/ /\ focus = "assistant" /\ AstNext
       /\ UNCHANGED <<focus, webVars, limVars, brVars, sesVars, conVars, tgtVars, expVars, sumVars, pkVars, xsVars>>
    \/ /\ focus = "summarise" /\ SumNext
       /\ UNCHANGED <<focus, webVars, limVars, brVars, sesVars, conVars, tgtVars, expVars, astVars, pkVars, xsVars>>
    \/ /\ focus = "pki" /\ PkNext
       /\ UNCHANGED <<focus, webVars, limVars, brVars, sesVars, conVars, tgtVars, expVars, astVars, sumVars, xsVars>>
    \/ /\ focus = "put_export" /\ XsNext
       /\ UNCHANGED <<focus, webVars, limVars, brVars, sesVars, conVars, tgtVars, expVars, astVars, sumVars, pkVars>>

GatewaySpec == GatewayInit /\ [][GatewayNext]_gwVars
===============================================================================
