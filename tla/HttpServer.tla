----------------------------- MODULE HttpServer ------------------------------
(***************************************************************************)
(* The answer listener (src/main.rs): `serve` admits a connection with     *)
(* a permit or sheds it, `connection` gives it a deadline, `handle` decides*)
(* what a request is and sends its work to the blocking pool, `installed`  *)
(* does so for the webhook. The work goes on when the deadline has dropped *)
(* the future that waits for it, and with the future its permit.           *)
(*                                                                         *)
(* One request a connection: every response says `Connection: close`.      *)
(***************************************************************************)
EXTENDS Capture

CONSTANTS MaxConnections,  \* cfg.max_connections
          Configs          \* which tokens are set and whether requests are captured

ASSUME HttpConstants ==
    /\ MaxConnections \in Nat \ {0}
    /\ Configs \subseteq [answer : BOOLEAN, installed : BOOLEAN, capture : BOOLEAN]

VARIABLES cfg,     \* one of Configs
          conn,    \* each connection: where it is, and its request
          shed,    \* whether a connection without a permit is being turned away
          adrift,  \* whether blocking work outlives its connection
          process  \* "up", "stopping" after a signal, or "down"

httpVars == <<captureVars, cfg, conn, shed, adrift, process>>

-----------------------------------------------------------------------------
(* A request as `handle` tells them apart. `bearer` and `inBody` say which *)
(* token it carries in its header and in its body.                         *)
Requests ==
    [kind : {"health", "answer", "other"}, bearer : {"none", "answer"},
     inBody : {FALSE}]
    \cup [kind : {"installed"}, bearer : {"none", "answer", "installed"},
          inBody : BOOLEAN]

NoRequest == [kind |-> "none", bearer |-> "none", inBody |-> FALSE]
At(at) == [at |-> at, req |-> NoRequest]
Closed == At("closed")

(* POST /installed is the webhook only where its token is configured.      *)
IsWebhook(req) == req.kind = "installed" /\ cfg.installed

(* A change of Routes: the answer token guards the webhook as well.        *)
RoutesGuardFirst(req) ==
    IF req.kind = "health" THEN {200}
    ELSE IF cfg.answer /\ req.bearer # "answer" THEN {401}
    ELSE IF IsWebhook(req) THEN {0}
    ELSE IF req.kind = "other" THEN {405}
    ELSE {0, 413}

(* What `handle` makes of the headers: a status, or 0 to read the body;    *)
(* 413 is a declared length past MAX_BODY.                                 *)
Routes(req) ==
    IF req.kind = "health" THEN {200}
    ELSE IF IsWebhook(req) THEN {0}
    ELSE IF cfg.answer /\ req.bearer # "answer" THEN {401}
    ELSE IF req.kind = "other" THEN {405}
    ELSE {0, 413}

Holding == {c \in Conn : conn[c] # Closed}
Working == {c \in Conn : conn[c].at \in {"resolve", "disarm"}}

Step(c, at) == conn' = [conn EXCEPT ![c] = At(at)]

(* What a response says is not kept, except that a 401 is one and for whom.*)
Reply(c, status) == status # 401 /\ Step(c, "reply")
Refuse(c, req) ==
    conn' = [conn EXCEPT ![c] = [at |-> "refused", req |-> req]]

-----------------------------------------------------------------------------
HttpInit ==
    /\ CaptureInit
    /\ cfg \in Configs
    /\ conn = [c \in Conn |-> Closed]
    /\ shed = FALSE /\ adrift = FALSE
    /\ process = "up"

Accept(c) ==
    /\ process = "up" /\ conn[c] = Closed
    /\ Cardinality(Holding) < MaxConnections
    /\ Step(c, "headers")
    /\ UNCHANGED <<captureVars, cfg, shed, adrift, process>>

Shed ==
    /\ process = "up" /\ Cardinality(Holding) >= MaxConnections
    /\ shed' = TRUE
    /\ UNCHANGED <<captureVars, cfg, conn, adrift, process>>

(* `shed`: the 503, what the client still sends for SHED_DRAIN, the close. *)
ShedEnds ==
    /\ shed /\ shed' = FALSE
    /\ UNCHANGED <<captureVars, cfg, conn, adrift, process>>

(* The headers are in; a request that is read further is one for an answer *)
(* ("body") or the webhook, whose token may be in the body ("hook").       *)
Handle(c) ==
    /\ conn[c].at = "headers"
    /\ \E req \in Requests : \E status \in Routes(req) :
          CASE status = 401 -> Refuse(c, req)
            [] status = 0 /\ IsWebhook(req) ->
                  conn' = [conn EXCEPT ![c] = [At("hook") EXCEPT !.req = req]]
            [] status = 0 /\ ~IsWebhook(req) -> Step(c, "body")
            [] status \notin {0, 401} -> Reply(c, status)
    /\ UNCHANGED <<captureVars, cfg, shed, adrift, process>>

(* The body is in, or is more than MAX_BODY or broken.                     *)
Body(c) ==
    /\ conn[c].at = "body"
    /\ Step(c, "resolve") \/ \E status \in {400, 413} : Reply(c, status)
    /\ UNCHANGED <<captureVars, cfg, shed, adrift, process>>

(* The webhook's body; only now its token is compared.                     *)
HookBody(c) ==
    LET req == conn[c].req
    IN  /\ conn[c].at = "hook"
        /\ \/ Reply(c, 400)
           \/ IF req.bearer = "installed" \/ req.inBody
              THEN Step(c, "disarm")
              ELSE Refuse(c, req)
        /\ UNCHANGED <<captureVars, cfg, shed, adrift, process>>

(* spawn_blocking has ended: an answer, none, or an error; all three are   *)
(* recorded first where requests are captured. Which of them it was only   *)
(* shows in the reply.                                                     *)
Resolved(c) ==
    /\ conn[c].at = "resolve"
    /\ IF cfg.capture
       THEN Step(c, "record") /\ Record(c)
       ELSE /\ \E status \in {200, 404, 500} : Reply(c, status)
            /\ UNCHANGED captureVars
    /\ UNCHANGED <<cfg, shed, adrift, process>>

Recorded(c) ==
    /\ conn[c].at = "record" /\ recording[c] = Off
    /\ \E status \in {200, 404, 500} : Reply(c, status)
    /\ UNCHANGED <<captureVars, cfg, shed, adrift, process>>

(* The lookup panicked, or the webhook's work is done in whatever way:     *)
(* neither is recorded.                                                    *)
WorkEnds(c) ==
    /\ \/ conn[c].at = "resolve" /\ Reply(c, 500)
       \/ conn[c].at = "disarm" /\ \E status \in {200, 500} : Reply(c, status)
    /\ UNCHANGED <<captureVars, cfg, shed, adrift, process>>

(* The response is written, or the client hung up.                         *)
Ends(c) ==
    /\ conn[c].at \in {"reply", "refused"}
    /\ conn' = [conn EXCEPT ![c] = Closed]
    /\ UNCHANGED <<captureVars, cfg, shed, adrift, process>>

(* A change of Dropped: only the headers have a deadline.                  *)
DroppedAtHeaders(c) ==
    /\ conn[c].at = "headers"
    /\ conn' = [conn EXCEPT ![c] = Closed]
    /\ UNCHANGED <<captureVars, cfg, shed, adrift, process>>

(* The client hung up earlier, or the whole-connection deadline ran out:   *)
(* at any await, and the one of the blocking work leaves the work behind.  *)
Dropped(c) ==
    /\ conn[c].at \notin {"closed", "record"}
    /\ adrift' = (adrift \/ c \in Working)
    /\ conn' = [conn EXCEPT ![c] = Closed]
    /\ UNCHANGED <<captureVars, cfg, shed, process>>

(* The last of the work that was left behind is done.                      *)
AdriftEnds ==
    /\ adrift /\ adrift' = FALSE
    /\ UNCHANGED <<captureVars, cfg, conn, shed, process>>

(* SIGTERM: `serve` returns and the runtime is dropped, with every         *)
(* connection at its next await; blocking work that runs is waited for.    *)
Stop ==
    /\ process = "up" /\ Recording = {} /\ life < LastLife
    /\ process' = "stopping"
    /\ adrift' = (adrift \/ Working # {})
    /\ conn' = [c \in Conn |-> Closed] /\ shed' = FALSE
    /\ UNCHANGED <<captureVars, cfg>>

(* The process ends: waited for, or killed where it stands.                *)
Exit ==
    /\ life < LastLife
    /\ process = "up" \/ (process = "stopping" /\ ~adrift)
    /\ process' = "down" /\ adrift' = FALSE
    /\ conn' = [c \in Conn |-> Closed] /\ shed' = FALSE
    /\ recording' = [c \in Conn |-> Off]
    /\ UNCHANGED <<second, life, started, seq, written, bodies, metas,
                   missed, cfg>>

Restart ==
    /\ process = "down" /\ process' = "up"
    /\ CaptureRestart
    /\ UNCHANGED <<cfg, conn, shed, adrift>>

RecordOn(c) == RecordStep(c) /\ UNCHANGED <<cfg, conn, shed, adrift, process>>

(* Only a capture's name has the time in it, and so has the start of a     *)
(* process that names some: the clock moves where it is about to be read.  *)
HttpTick ==
    /\ cfg.capture
    /\ process = "down" \/ \E c \in Conn : recording[c].at = "name"
    /\ CaptureTick
    /\ UNCHANGED <<cfg, conn, shed, adrift, process>>

HttpNext ==
    \/ \E c \in Conn :
          \/ Accept(c) \/ Handle(c) \/ Body(c) \/ HookBody(c)
          \/ Resolved(c) \/ WorkEnds(c)
          \/ RecordOn(c) \/ Recorded(c) \/ Ends(c) \/ Dropped(c)
    \/ Shed \/ ShedEnds \/ AdriftEnds \/ Stop \/ Exit \/ Restart \/ HttpTick

(* Only the timers of `connection` and `shed` are counted on, and that a   *)
(* thread in `record` gets its turn: clients may be silent for ever, and   *)
(* blocking work may hang.                                                 *)
HttpFairness ==
    /\ WF_httpVars(ShedEnds)
    /\ \A c \in Conn : WF_httpVars(Dropped(c) \/ RecordOn(c) \/ Recorded(c))

HttpSpec == HttpInit /\ [][HttpNext]_httpVars /\ HttpFairness

-----------------------------------------------------------------------------
HttpTypeOK ==
    /\ CaptureTypeOK
    /\ Cardinality(Holding) <= MaxConnections
    /\ {shed, adrift} \subseteq BOOLEAN /\ process \in {"up", "stopping", "down"}
    /\ \A c \in Conn :
          /\ conn[c].req \in Requests \cup {NoRequest}
          /\ recording[c] # Off => conn[c].at = "record"

(* A permit always comes back: whatever a client sends or leaves out, and  *)
(* though its work hangs for ever, its connection ends (the two timeouts   *)
(* of `connection`, and that a shed connection has one of its own).        *)
EveryConnectionEnds ==
    /\ \A c \in Conn : conn[c] # Closed ~> conn[c] = Closed
    /\ shed ~> ~shed

(* Nobody with the credential of the path is turned away for the lack of   *)
(* the other one: the answer token guards neither /health nor the webhook, *)
(* and the webhook's does not guard answers (`handle`'s order).            *)
RefusedForItsOwnToken ==
    \A c \in Conn : conn[c].at = "refused" =>
        LET req == conn[c].req
        IN  /\ req.kind # "health"
            /\ IF req.kind = "installed" /\ cfg.installed
               THEN req.bearer # "installed" /\ ~req.inBody
               ELSE cfg.answer /\ req.bearer # "answer"

=============================================================================
