------------------------------- MODULE Startup -------------------------------
(***************************************************************************)
(* From `main` to the accept loop (src/main.rs, log.rs `init`,             *)
(* boot/privileges.rs `drop_to`). Every step may fail, and most failures   *)
(* end the process. What the steps do to each other is the order: sockets  *)
(* are bound while the process may still be root, listeners that are bound *)
(* already serve while later ones are not, and the identities go last,     *)
(* supplementary groups before the group before the user.                  *)
(***************************************************************************)
EXTENDS Naturals, Sequences, SequencesExt

VARIABLES asked,   \* the arguments, the configuration and the host it meets
          stage,   \* the step of Stages that is next
          bound,   \* the sockets of this process
          ids,     \* its real identity: user, group, supplementary groups
          exit     \* "" while it runs, else how it ended

startVars == <<asked, stage, bound, ids, exit>>

-----------------------------------------------------------------------------
(* A change of Stages: the privileges are dropped before the last bind.    *)
StagesDropFirst ==
    <<"config", "log", "validate", "dispatch", "main", "store", "admin", "media",
      "boot", "lookup", "groups", "gid", "uid", "verify", "tftp", "serving">>

Stages == <<"config", "log", "validate", "dispatch", "main", "store", "admin",
            "media", "boot", "tftp", "lookup", "groups", "gid", "uid", "verify",
            "serving">>

Optional == {"admin", "media", "tftp"}

Commands == {"server", "help", "config", "subcommand", "unknown"}

(* `on` is what is configured to listen; `taken` the sockets another       *)
(* process holds; the TFTP port is the privileged one.                     *)
Settings == [command : Commands, root : BOOLEAN, on : SUBSET Optional,
             taken : SUBSET (Optional \cup {"main"}), boot : BOOLEAN, bootFound : BOOLEAN,
             user : BOOLEAN, group : BOOLEAN]

Root == [uid |-> "root", gid |-> "root", groups |-> "root"]
Service == [uid |-> "service", gid |-> "service", groups |-> "service"]

Privileged == {"tftp"}

NextStage == stage' = Stages[CHOOSE i \in 2..Len(Stages) : Stages[i - 1] = stage]

Fails == /\ exit' = "failure"
         /\ UNCHANGED <<asked, stage, bound, ids>>
Succeeds == /\ exit' = "success"
            /\ UNCHANGED <<asked, stage, bound, ids>>

Now(s) == exit = "" /\ stage = s
Goes == NextStage /\ UNCHANGED <<asked, bound, ids, exit>>

-----------------------------------------------------------------------------
StartInit ==
    /\ asked \in {s \in Settings :
                     /\ "tftp" \in s.on => s.boot
                     /\ s.command # "server" => s = [s EXCEPT !.root = FALSE,
                            !.on = {}, !.taken = {}, !.boot = FALSE,
                            !.bootFound = FALSE, !.user = FALSE, !.group = FALSE]}
    /\ stage = "config" /\ bound = {} /\ exit = ""
    /\ ids = IF asked.root THEN Root ELSE Service

(* help, version and config are answered before the configuration is read. *)
Configure ==
    /\ Now("config")
    /\ IF asked.command \in {"help", "config"}
       THEN Succeeds \/ (asked.command = "config" /\ Fails)
       ELSE Goes \/ Fails

(* Only a server opens the log file, and only then can that fail.          *)
OpenLog == Now("log") /\ (Goes \/ (asked.command = "server" /\ Fails))

Validate == Now("validate") /\ (Goes \/ Fails)

Dispatch ==
    /\ Now("dispatch")
    /\ \/ asked.command = "server" /\ (Goes \/ Fails)  \* the runtime may not start
       \/ asked.command = "subcommand" /\ (Succeeds \/ Fails)
       \/ asked.command = "unknown" /\ Fails

CanBind(s) == /\ s \notin asked.taken
              /\ s \in Privileged => ids.uid = "root"

(* A listener that is bound is served from there on, in a task of its own. *)
Bind(s) ==
    /\ Now(s)
    /\ \/ CanBind(s) /\ bound' = bound \cup {s} /\ NextStage
          /\ UNCHANGED <<asked, ids, exit>>
       \/ ~CanBind(s) /\ Fails

BindMain == Bind("main")
OpenStore == Now("store") /\ (Goes \/ Fails)
BindAdmin == IF "admin" \in asked.on THEN Bind("admin") ELSE Now("admin") /\ Goes
BindMedia == IF "media" \in asked.on THEN Bind("media") ELSE Now("media") /\ Goes

(* Tftp::new: a boot directory that cannot be resolved ends the process.   *)
FindBootDir ==
    /\ Now("boot")
    /\ IF asked.boot /\ ~asked.bootFound THEN Fails ELSE Goes

(* The one bind whose failure does not.                                    *)
BindTftp ==
    /\ Now("tftp")
    /\ bound' = IF "tftp" \in asked.on /\ CanBind("tftp")
                THEN bound \cup {"tftp"} ELSE bound
    /\ NextStage /\ UNCHANGED <<asked, ids, exit>>

(* drop_to: nothing to do, nothing to do it with, or names to look up.     *)
Dropping == asked.user \/ asked.group

LookUp ==
    /\ Now("lookup")
    /\ IF ~Dropping THEN Goes
       ELSE IF ids.uid # "root" THEN Fails
       ELSE Goes \/ Fails

(* Each call needs root, and gives up for good what it changes.            *)
Surrender(s, field, wanted) ==
    /\ Now(s)
    /\ IF ~wanted THEN Goes
       ELSE \/ ids.uid = "root" /\ ids' = [ids EXCEPT ![field] = "service"]
               /\ NextStage /\ UNCHANGED <<asked, bound, exit>>
            \/ Fails

DropGroups == Surrender("groups", "groups", Dropping)
DropGroup == Surrender("gid", "gid", Dropping)
DropUser == Surrender("uid", "uid", asked.user)

(* setuid(0) must not work any more.                                       *)
Verify ==
    /\ Now("verify")
    /\ IF asked.user /\ ids.uid = "root" THEN Fails ELSE Goes

(* SIGTERM or Ctrl-C.                                                      *)
Signal == Now("serving") /\ Succeeds

StartNext ==
    \/ Configure \/ OpenLog \/ Validate \/ Dispatch
    \/ BindMain \/ OpenStore \/ BindAdmin \/ BindMedia \/ FindBootDir \/ BindTftp
    \/ LookUp \/ DropGroups \/ DropGroup \/ DropUser \/ Verify \/ Signal

StartSpec == StartInit /\ [][StartNext]_startVars

-----------------------------------------------------------------------------
StartTypeOK ==
    /\ asked \in Settings
    /\ stage \in ToSet(Stages) /\ exit \in {"", "success", "failure"}
    /\ bound \subseteq Optional \cup {"main"}
    /\ ids \in [{"uid", "gid", "groups"} -> {"root", "service"}]

(* A server that accepts is whole: it holds every socket it was asked for, *)
(* but for a TFTP port that another process has or that it was never       *)
(* allowed; a root that was told to become somebody does get its low port, *)
(* and keeps no identity of root's.                                        *)
ServingIsWhole ==
    Now("serving") =>
        /\ {"main"} \cup asked.on \subseteq bound \cup
               {s \in {"tftp"} : s \in asked.taken \/ ~asked.root}
        /\ asked.user => ids = Service
        /\ asked.group => ids.gid = "service" /\ ids.groups = "service"

=============================================================================
