------------------------------ MODULE TftpServe ------------------------------
(***************************************************************************)
(* Admission to TFTP (src/boot/tftp.rs, `serve`): every datagram of a  *)
(* peer that may ask takes one of MaxTransfers permits, and one that reads *)
(* also a slot of its peer. The spawned task gives both back, the slot     *)
(* first, when `transfer` returns or MAX_TRANSFER cuts it off. One socket  *)
(* of the data port range is held for as long as `transfer` runs; the      *)
(* transfer itself is module Tftp.                                         *)
(*                                                                         *)
(* Tasks that do the same for the same peer are told apart by nothing, so  *)
(* they are counted.                                                       *)
(***************************************************************************)
EXTENDS Naturals, FiniteSets, FiniteSetsExt, Functions

CONSTANTS Peer,          \* addresses that are neither broadcast nor disallowed
          MaxTransfers,  \* MAX_TRANSFERS
          MaxPerPeer,    \* MAX_PER_PEER
          DataPorts      \* ports of RESCRIPTUM_TFTP_PORT_RANGE

ASSUME ServeConstants ==
    /\ {MaxTransfers, MaxPerPeer} \subseteq Nat \ {0}
    /\ DataPorts \in Nat

VARIABLES tasks,    \* spawned tasks, by peer, by what was asked, by how far they are
          perPeer   \* `per_peer`: a partial function of the peers

serveVars == <<tasks, perPeer>>

-----------------------------------------------------------------------------
(* "read" is any datagram with the opcode of a read request, however       *)
(* malformed the rest is; all else is answered with one error packet.      *)
Kinds == {"read", "other"}

(* Before its socket, with it, after `transfer`, and after the slot.       *)
Steps == {"spawned", "transfer", "ended", "released"}

Tasks(Ps, Ks, Ss) ==
    MapThenSumSet(LAMBDA t : tasks[t], Ps \X Ks \X Ss)

Permits == MaxTransfers - Tasks(Peer, Kinds, Steps)
FreePorts == DataPorts - Tasks(Peer, Kinds, {"transfer"})

Count(p) == IF p \in DOMAIN perPeer THEN perPeer[p] ELSE 0

Moves(p, k, from, to) ==
    /\ tasks[<<p, k, from>>] > 0
    /\ tasks' = [tasks EXCEPT ![<<p, k, from>>] = @ - 1, ![<<p, k, to>>] = @ + 1]

-----------------------------------------------------------------------------
ServeInit ==
    /\ tasks = [t \in Peer \X Kinds \X Steps |-> 0]
    /\ perPeer = [p \in {} |-> 0]

(* A change of Admit: a stray datagram takes a slot of its peer as well.   *)
AdmitCountsAll(p, k) ==
    /\ Permits > 0 /\ Count(p) < MaxPerPeer
    /\ tasks' = [tasks EXCEPT ![<<p, k, "spawned">>] = @ + 1]
    /\ perPeer' = [q \in DOMAIN perPeer \cup {p} |->
                      IF q = p THEN Count(p) + 1 ELSE perPeer[q]]

(* A datagram for which there is no permit, or no slot, is dropped with a  *)
(* log line and changes nothing: the permit that was taken for it goes     *)
(* back at once.                                                           *)
Admit(p, k) ==
    /\ Permits > 0
    /\ k = "read" => Count(p) < MaxPerPeer
    /\ tasks' = [tasks EXCEPT ![<<p, k, "spawned">>] = @ + 1]
    /\ perPeer' = IF k = "read"
                  THEN [q \in DOMAIN perPeer \cup {p} |->
                           IF q = p THEN Count(p) + 1 ELSE perPeer[q]]
                  ELSE perPeer

(* `data_socket`: the first free port of the range, or no transfer at all. *)
TakePort(p, k) ==
    /\ Moves(p, k, "spawned", IF FreePorts > 0 THEN "transfer" ELSE "ended")
    /\ UNCHANGED perPeer

(* `transfer` returns, or its deadline does.                               *)
TransferEnds(p, k) ==
    /\ Moves(p, k, "transfer", "ended")
    /\ UNCHANGED perPeer

(* A change of ReleaseSlot: the way out that forgets the slot.             *)
ReleaseNothing(p, k) == Moves(p, k, "ended", "released") /\ UNCHANGED perPeer

(* saturating_sub, and no entry for an idle peer.                          *)
ReleaseSlot(p, k) ==
    /\ Moves(p, k, "ended", "released")
    /\ perPeer' = IF k # "read" \/ p \notin DOMAIN perPeer THEN perPeer
                  ELSE IF perPeer[p] <= 1
                       THEN Restrict(perPeer, DOMAIN perPeer \ {p})
                       ELSE [perPeer EXCEPT ![p] = @ - 1]

(* The task is gone and its permit with it.                                *)
ReleasePermit(p, k) ==
    /\ tasks[<<p, k, "released">>] > 0
    /\ tasks' = [tasks EXCEPT ![<<p, k, "released">>] = @ - 1]
    /\ UNCHANGED perPeer

Progress(p, k) == \/ TakePort(p, k) \/ TransferEnds(p, k)
                  \/ ReleaseSlot(p, k) \/ ReleasePermit(p, k)

ServeNext == \E p \in Peer, k \in Kinds : Admit(p, k) \/ Progress(p, k)

(* The runtime runs the tasks and the deadline ends the transfers.         *)
ServeFairness == \A p \in Peer, k \in Kinds : WF_serveVars(Progress(p, k))

ServeSpec == ServeInit /\ [][ServeNext]_serveVars /\ ServeFairness

-----------------------------------------------------------------------------
ServeTypeOK ==
    /\ tasks \in [Peer \X Kinds \X Steps -> 0..MaxTransfers]
    /\ Permits >= 0
    /\ DOMAIN perPeer \subseteq Peer

(* The books are right: a peer's count is its read requests whose slot is  *)
(* not yet given back, on every way out, and never a stray's; it is within *)
(* the cap, and a peer without any has no entry (`serve`'s comments).      *)
SlotsAreCounted ==
    \A p \in Peer :
        LET held == Tasks({p}, {"read"}, {"spawned", "transfer", "ended"})
        IN  /\ Count(p) = held
            /\ held <= MaxPerPeer
            /\ p \in DOMAIN perPeer <=> held > 0

(* A peer that sent a burst of read requests is let in again, whatever     *)
(* became of them and however full the server was in between.              *)
PeerLetInAgain ==
    \A p \in Peer : Count(p) = MaxPerPeer ~> Count(p) < MaxPerPeer

=============================================================================
