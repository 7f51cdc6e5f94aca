------------------------------ MODULE MCServer -------------------------------
(***************************************************************************)
(* The parts of the server that admit, refuse and record, for TLC. They    *)
(* share no state (each has a listener, or a time, of its own), so that    *)
(* every behaviour of the process is one of each of them side by side, and *)
(* in a behaviour of this module only one of them moves: `part` says which *)
(* one, and the others stay where they begin.                              *)
(***************************************************************************)
EXTENDS AuthGuard, HttpServer, TftpServe, Startup

VARIABLE part

vars == <<guardVars, httpVars, serveVars, startVars, part>>

Parts == {"guard", "http", "tftp", "startup"}

(* Every choice of tokens, and captures where none is set.                 *)
MCConfigs == [answer : BOOLEAN, installed : BOOLEAN, capture : {FALSE}]
             \cup {[answer |-> FALSE, installed |-> FALSE, capture |-> TRUE]}

Init ==
    /\ part \in Parts
    /\ GuardInit /\ HttpInit /\ ServeInit /\ StartInit
    /\ part # "http" => cfg = CHOOSE c \in Configs : TRUE
    /\ part # "startup" => asked.command = "help"

Next ==
    \/ /\ part = "guard" /\ GuardNext
       /\ UNCHANGED <<httpVars, serveVars, startVars, part>>
    \/ /\ part = "http" /\ HttpNext
       /\ UNCHANGED <<guardVars, serveVars, startVars, part>>
    \/ /\ part = "tftp" /\ ServeNext
       /\ UNCHANGED <<guardVars, httpVars, startVars, part>>
    \/ /\ part = "startup" /\ StartNext
       /\ UNCHANGED <<guardVars, httpVars, serveVars, part>>

Spec == Init /\ [][Next]_vars /\ HttpFairness /\ ServeFairness

TypeOK == GuardTypeOK /\ HttpTypeOK /\ ServeTypeOK /\ StartTypeOK

=============================================================================
