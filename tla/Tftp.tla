------------------------------- MODULE Tftp --------------------------------
(***************************************************************************)
(* One TFTP transfer: what transfer and wait_for_ack of                    *)
(* src/src/boot/tftp.rs do once a read request has been accepted, a PXE    *)
(* ROM at the other end (modelled from RFC 1350 as the code relies on it), *)
(* and UDP in between, which loses, duplicates and delays.                 *)
(*                                                                         *)
(* A datagram waits in a queue in each direction.  Whatever goes wrong is  *)
(* charged to one budget, MaxFaults: a datagram lost, one duplicated (the  *)
(* copy arrives behind what is in flight), somebody else's datagram on the *)
(* transfer's port, a timeout that fires although the awaited datagram is  *)
(* only late, and a ROM that goes on from another port.                    *)
(***************************************************************************)
EXTENDS Integers, Sequences

CONSTANTS
    FileSize,    \* bytes in the loader
    BlockSize,   \* bytes in a block, as negotiated
    Wrap,        \* how many block numbers there are: 2^16 in the code
    MaxRetries,  \* MAX_RETRIES
    MaxFaults    \* bound: what the network does wrong

ASSUME TftpAssumption ==
    /\ FileSize \in Nat /\ BlockSize \in Nat \ {0}
    /\ Wrap \in Nat \ {0, 1} /\ MaxRetries \in Nat \ {0} /\ MaxFaults \in Nat

Ports == {1, 2}

Blocks == 0..(Wrap - 1)
Offsets == 0..FileSize

ToClient ==
    [op: {"OACK"}, to: Ports]
        \cup [op: {"DATA"}, to: Ports, block: Blocks, first: Offsets, end: Offsets]

\* "STRAY" is from another address or too short.  An opcode that is no part of
\* the conversation is treated as an acknowledgement of something else is.
ToServer ==
    [op: {"ACK"}, from: Ports, block: Blocks] \cup [op: {"ERROR", "STRAY"}, from: Ports]

VARIABLES
    server,    \* the transfer: [at, block, sent, tries, reply_to]
    client,    \* the ROM: [at, taken, size, intact, port]
    down, up,  \* datagrams in flight to the client, to the server
    silences,  \* history: timeouts since the current packet was first sent
    sends,     \* history: times the current packet was sent
    faults     \* faults so far

vars == <<server, client, down, up, silences, sends, faults>>

Waiting == {"oack", "data"}
Ended == {"sent", "cancelled", "failed", "aborted"}

TypeOK ==
    /\ server \in [at: Waiting \cup Ended, block: Blocks, sent: Offsets,
                   tries: 0..MaxRetries, reply_to: Ports]
    /\ server.at \in Waiting => server.tries < MaxRetries
    /\ client \in [at: {"asking", "reading", "done", "off"}, taken: Nat,
                   size: Offsets, intact: BOOLEAN, port: Ports]
    /\ down \in Seq(ToClient) /\ up \in Seq(ToServer)
    /\ silences \in 0..MaxRetries /\ sends \in 1..(MaxRetries + 1)
    /\ faults \in 0..MaxFaults

----------------------------------------------------------------------------
(* The packets of the transfer *)

EndOf(from) == IF from + BlockSize < FileSize THEN from + BlockSize ELSE FileSize

\* A change of Last: nothing left to send ends the transfer, full block or not.
LastWhenSent(from) == EndOf(from) = FileSize

\* The packet that starts here is shorter than a block, which ends the file.
Last(from) == EndOf(from) - from < BlockSize

Data(block, from, to) ==
    [op |-> "DATA", to |-> to, block |-> block, first |-> from, end |-> EndOf(from)]

\* The packet the server waits on an acknowledgement of.
Packet(s) ==
    IF s.at = "oack" THEN [op |-> "OACK", to |-> s.reply_to]
    ELSE Data(s.block, s.sent, s.reply_to)

\* The acknowledgement it waits for.
Awaited(s) == IF s.at = "oack" THEN 0 ELSE s.block

\* The server has accepted a request from port 1, with options or without,
\* and sent its first packet.
Init ==
    /\ server \in [at: Waiting, block: {1}, sent: {0}, tries: {0}, reply_to: {1}]
    /\ client = [at |-> "asking", taken |-> 0, size |-> 0, intact |-> TRUE, port |-> 1]
    /\ down = <<Packet(server)>>
    /\ up = <<>>
    /\ silences = 0
    /\ sends = 1
    /\ faults = 0

Fault == faults < MaxFaults /\ faults' = faults + 1

----------------------------------------------------------------------------
(* The server *)

\* The packet that follows, with a fresh wait_for_ack.
SendsNext(s) ==
    /\ server' = s
    /\ down' = Append(down, Packet(s))
    /\ silences' = 0
    /\ sends' = 1

Ends(s, how) == server' = [s EXCEPT !.at = how] /\ UNCHANGED <<down, silences, sends>>

\* A turn of wait_for_ack's loop is over without the acknowledgement.
Turns(s) ==
    server' = IF s.tries + 1 < MaxRetries
              THEN [s EXCEPT !.tries = @ + 1]
              ELSE [s EXCEPT !.at = "failed"]

\* Datagrams on the transfer's port, whatever their port of origin.
Arrives(ops) ==
    /\ server.at \in Waiting
    /\ up # <<>> /\ Head(up).op \in ops
    /\ up' = Tail(up)
    /\ UNCHANGED <<client, faults>>

\* Answers go to the port the last datagram of the peer came from.
Heard == [server EXCEPT !.reply_to = Head(up).from]

\* A change of Acked: an older acknowledgement counts too.
AckedByAny(m) == TRUE

Acked(m) == m.block = Awaited(server)

NextBlock(block) == (block + 1) % Wrap

\* The acknowledgement: of the options, of a block, of the last block.
ReceiveAck ==
    /\ Arrives({"ACK"})
    /\ Acked(Head(up))
    /\ IF server.at = "oack"
       THEN SendsNext([Heard EXCEPT !.at = "data", !.tries = 0])
       ELSE IF Last(server.sent)
       THEN Ends(Heard, "sent")
       ELSE SendsNext([Heard EXCEPT !.block = NextBlock(@),
                                    !.sent = EndOf(@), !.tries = 0])

\* A change of ReceiveDuplicate: the Sorcerer's Apprentice.
DuplicateAnswered ==
    /\ Arrives({"ACK"})
    /\ ~Acked(Head(up))
    /\ Turns(Heard)
    /\ down' = Append(down, Packet(Heard))
    /\ sends' = sends + 1
    /\ UNCHANGED silences

\* An acknowledgement of something else is not answered, but costs a turn.
ReceiveDuplicate ==
    /\ Arrives({"ACK"})
    /\ ~Acked(Head(up))
    /\ Turns(Heard)
    /\ UNCHANGED <<down, silences, sends>>

\* So does a datagram that is no part of the conversation.
ReceiveStray ==
    /\ Arrives({"STRAY"})
    /\ Turns(server)
    /\ UNCHANGED <<down, silences, sends>>

\* The client says it wants no more: during the handshake that is logged as
\* a failure, later as a cancellation.
ReceiveError ==
    /\ Arrives({"ERROR"})
    /\ Ends(Heard, IF server.at = "oack" THEN "failed" ELSE "cancelled")

\* A change of Retry: a resend costs nothing.
RetryForEver ==
    /\ server.at \in Waiting
    /\ IF down \o up # <<>> THEN Fault ELSE UNCHANGED faults
    /\ down' = Append(down, Packet(server))
    /\ UNCHANGED <<server, client, up, silences, sends>>

\* RETRY passes in silence: the packet is sent again, and then the turn is
\* over.  While something is in flight that is a delay, hence a fault.
Retry ==
    /\ server.at \in Waiting
    /\ IF down \o up # <<>> THEN Fault ELSE UNCHANGED faults
    /\ down' = Append(down, Packet(server))
    /\ silences' = silences + 1
    /\ sends' = sends + 1
    /\ Turns(server)
    /\ UNCHANGED <<client, up>>

\* A send fails, or MAX_TRANSFER passes.
Abort ==
    /\ server.at \in Waiting
    /\ Fault
    /\ Ends(server, "aborted")
    /\ UNCHANGED <<client, up>>

----------------------------------------------------------------------------
(* The client *)

Ack == [op |-> "ACK", from |-> client.port, block |-> client.taken % Wrap]

\* A datagram for a port the client has left is lost.
Delivered(m) == m.to = client.port /\ client.at # "off"

\* An OACK, or the data that comes next, is taken and acknowledged; what the
\* client has already is acknowledged again; anything else is dropped.
ClientReceive ==
    /\ down # <<>>
    /\ down' = Tail(down)
    /\ LET m == Head(down)
           next == m.op = "DATA" /\ m.block = (client.taken + 1) % Wrap
           again == IF client.taken = 0 THEN m.op = "OACK"
                    ELSE m.op = "DATA" /\ m.block = client.taken % Wrap
       IN  IF Delivered(m) /\ next /\ client.at # "done"
           THEN /\ client' = [client EXCEPT
                       !.at = IF m.end - m.first < BlockSize THEN "done" ELSE "reading",
                       !.taken = @ + 1,
                       !.size = m.end,
                       !.intact = @ /\ m.first = client.size]
                /\ up' = Append(up, Ack')
           ELSE IF Delivered(m) /\ again
           THEN /\ up' = Append(up, Ack)
                /\ client' = [client EXCEPT !.at = IF @ = "asking" THEN "reading" ELSE @]
           ELSE UNCHANGED <<client, up>>
    /\ UNCHANGED <<server, silences, sends, faults>>

\* The ROM acknowledges from another port from here on.
ClientMoves ==
    /\ client.at = "reading" /\ client.port = 1
    /\ Fault
    /\ client' = [client EXCEPT !.port = 2]
    /\ up' = Append(up, Ack')
    /\ UNCHANGED <<server, down, silences, sends>>

\* The ROM stops, with an ERROR or without a word.
ClientStops ==
    /\ client.at # "off"
    /\ client' = [client EXCEPT !.at = "off"]
    /\ up' \in {up, Append(up, [op |-> "ERROR", from |-> client.port])}
    /\ UNCHANGED <<server, down, silences, sends, faults>>

----------------------------------------------------------------------------
(* The network *)

Lose ==
    /\ Fault
    /\ \/ down # <<>> /\ down' = Tail(down) /\ UNCHANGED up
       \/ up # <<>> /\ up' = Tail(up) /\ UNCHANGED down
    /\ UNCHANGED <<server, client, silences, sends>>

Duplicate ==
    /\ Fault
    /\ \/ down # <<>> /\ down' = Append(down, Head(down)) /\ UNCHANGED up
       \/ up # <<>> /\ up' = Append(up, Head(up)) /\ UNCHANGED down
    /\ UNCHANGED <<server, client, silences, sends>>

Stray ==
    /\ Fault
    /\ server.at \in Waiting
    /\ up' = Append(up, [op |-> "STRAY", from |-> 1])
    /\ UNCHANGED <<server, client, down, silences, sends>>

Server == ReceiveAck \/ ReceiveDuplicate \/ ReceiveStray \/ ReceiveError \/ Retry

Next ==
    \/ Server \/ Abort
    \/ ClientReceive \/ ClientMoves \/ ClientStops
    \/ Lose \/ Duplicate \/ Stray

Spec == Init /\ [][Next]_vars

\* The runtime polls the transfer and its timer, and what is in flight
\* arrives if it is not lost.
Fairness == WF_vars(Server) /\ WF_vars(ClientReceive)

FairSpec == Spec /\ Fairness

----------------------------------------------------------------------------
(* Properties *)

\* "An intention is not an outcome": what the server logs as sent the client
\* has, whole and in order, whatever was lost, repeated or late, however the
\* block numbers wrap, and wherever the file ends in a block.
SentMeansReceived ==
    /\ client.intact
    /\ server.at = "sent" => client.size = FileSize /\ client.at \in {"done", "off"}

\* No packet is sent again but for a silence: acknowledgements that come
\* twice, strays and a client that moves never multiply the traffic.
NoApprentice == sends <= silences + 1

\* Every transfer ends, also when the client is gone: a slot is never held
\* for longer than the retries of each block.
AlwaysEnds == server.at \in Waiting ~> server.at \in Ended

\* A client that stays, and whose port the server gets to hear of, gets its
\* loader, and the server knows, if so few things go wrong that the retries of
\* one block outlast them; also where the file is a multiple of the block size.
Completes ==
    [](client.at # "off" /\ server.at # "aborted") /\ <>[](server.reply_to = client.port)
        => <>(server.at = "sent" /\ client.at = "done")

\* "Give up on a peer that has stopped acknowledging": past the handshake, a
\* transfer is not given up on while nothing the server sent was met by silence.
FailsOnlyOnSilence ==
    [][server.at = "data" /\ server'.at = "failed" => silences' > 0]_vars
=============================================================================
