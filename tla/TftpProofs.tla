------------------------------ MODULE TftpProofs ------------------------------
(***************************************************************************)
(* What the server logs as sent the client has, whatever the file's size,  *)
(* the blocks' and the retries, as long as fewer things go wrong on the    *)
(* network than there are block numbers.                                   *)
(***************************************************************************)
EXTENDS Tftp, TLAPS

----------------------------------------------------------------------------
(* Types                                                                   *)

Servers == [at: Waiting \cup Ended, block: Blocks, sent: Offsets,
            tries: 0..MaxRetries, reply_to: Ports]

Clients == [at: {"asking", "reading", "done", "off"}, taken: Nat,
            size: Offsets, intact: BOOLEAN, port: Ports]

(* A turn that passes in silence is one of the tries, so the silences are  *)
(* bounded as the tries are.                                               *)
TypeInv ==
    /\ TypeOK
    /\ sends <= silences + 1
    /\ server.at \in Waiting => silences <= server.tries

LEMMA AppendTyped ==
    ASSUME NEW S, NEW q \in Seq(S), NEW m \in S
    PROVE  Append(q, m) \in Seq(S)
OBVIOUS

LEMMA TailTyped ==
    ASSUME NEW S, NEW q \in Seq(S), q # <<>>
    PROVE  Tail(q) \in Seq(S) /\ Head(q) \in S
OBVIOUS

LEMMA EndTyped ==
    ASSUME NEW from \in Offsets
    PROVE  EndOf(from) \in Offsets
BY TftpAssumption DEF EndOf, Offsets

LEMMA PacketTyped ==
    ASSUME NEW s \in Servers
    PROVE  Packet(s) \in ToClient
<1>1. /\ s.reply_to \in Ports /\ s.block \in Blocks /\ s.sent \in Offsets
  BY DEF Servers
<1>2. EndOf(s.sent) \in Offsets
  BY <1>1, EndTyped
<1>3. QED
  BY <1>1, <1>2 DEF Packet, Data, ToClient

LEMMA TurnsTyped ==
    ASSUME NEW s \in Servers, s.at \in Waiting, s.tries < MaxRetries, Turns(s)
    PROVE  /\ server' \in Servers
           /\ server'.at \in Waiting =>
                 server'.tries < MaxRetries /\ server'.tries = s.tries + 1
BY TftpAssumption DEF Turns, Servers, Waiting, Ended

LEMMA HeardTyped ==
    ASSUME TypeOK, up # <<>>
    PROVE  /\ Head(up) \in ToServer
           /\ Heard \in Servers
           /\ Heard.at = server.at /\ Heard.tries = server.tries
           /\ Heard.block = server.block /\ Heard.sent = server.sent
<1>1. Head(up) \in ToServer
  BY DEF TypeOK
<1>2. Head(up).from \in Ports
  BY <1>1 DEF ToServer
<1>3. QED
  BY <1>1, <1>2 DEF TypeOK, Heard, Servers

(* What the server sends next it holds as a transfer that was not yet met  *)
(* by silence.                                                             *)
LEMMA OpensWith ==
    ASSUME NEW r \in Servers
    PROVE  [r EXCEPT !.at = "data", !.tries = 0]
           = [at |-> "data", block |-> r.block, sent |-> r.sent, tries |-> 0,
              reply_to |-> r.reply_to]
<1>1. r = [at |-> r.at, block |-> r.block, sent |-> r.sent, tries |-> r.tries,
           reply_to |-> r.reply_to]
  BY DEF Servers
<1>2. PICK s : s = [r EXCEPT !.at = "data"]
  OBVIOUS
<1>3. s = [at |-> "data", block |-> r.block, sent |-> r.sent, tries |-> r.tries,
           reply_to |-> r.reply_to]
  BY <1>1, <1>2
<1>4. [s EXCEPT !.tries = 0]
      = [at |-> "data", block |-> r.block, sent |-> r.sent, tries |-> 0,
         reply_to |-> r.reply_to]
  BY <1>3
<1>5. [r EXCEPT !.at = "data", !.tries = 0] = [[r EXCEPT !.at = "data"] EXCEPT !.tries = 0]
  OBVIOUS
<1>6. QED
  BY <1>2, <1>4, <1>5

LEMMA GoesOnWith ==
    ASSUME NEW r \in Servers
    PROVE  [r EXCEPT !.block = NextBlock(@), !.sent = EndOf(@), !.tries = 0]
           = [at |-> r.at, block |-> NextBlock(r.block), sent |-> EndOf(r.sent),
              tries |-> 0, reply_to |-> r.reply_to]
<1>1. r = [at |-> r.at, block |-> r.block, sent |-> r.sent, tries |-> r.tries,
           reply_to |-> r.reply_to]
  BY DEF Servers
<1> DEFINE b == NextBlock(r.block)
           e == EndOf(r.sent)
<1>2. PICK s : s = [r EXCEPT !.block = b]
  OBVIOUS
<1>3. s = [at |-> r.at, block |-> b, sent |-> r.sent, tries |-> r.tries,
           reply_to |-> r.reply_to]
  <2> HIDE DEF b
  <2>1. QED
    BY <1>1, <1>2
<1>4. PICK t : t = [s EXCEPT !.sent = e]
  OBVIOUS
<1>5. t = [at |-> r.at, block |-> b, sent |-> e, tries |-> r.tries,
           reply_to |-> r.reply_to]
  <2> HIDE DEF b, e
  <2>1. QED
    BY <1>3, <1>4
<1>6. [t EXCEPT !.tries = 0]
      = [at |-> r.at, block |-> b, sent |-> e, tries |-> 0, reply_to |-> r.reply_to]
  <2> HIDE DEF b, e
  <2>1. QED
    BY <1>5
<1>7. [r EXCEPT !.block = NextBlock(@), !.sent = EndOf(@), !.tries = 0]
      = [[[r EXCEPT !.block = b] EXCEPT !.sent = e] EXCEPT !.tries = 0]
  OBVIOUS
<1>8. QED
  BY <1>2, <1>4, <1>6, <1>7

LEMMA TakesWith ==
    ASSUME NEW c \in Clients, NEW at, NEW size, NEW same
    PROVE  [c EXCEPT !.at = at, !.taken = @ + 1, !.size = size, !.intact = same]
           = [at |-> at, taken |-> c.taken + 1, size |-> size, intact |-> same,
              port |-> c.port]
<1>1. c = [at |-> c.at, taken |-> c.taken, size |-> c.size, intact |-> c.intact,
           port |-> c.port]
  BY DEF Clients
<1>2. PICK n : n = c.taken + 1
  OBVIOUS
<1>3. PICK s : s = [c EXCEPT !.at = at]
  OBVIOUS
<1>4. s = [at |-> at, taken |-> c.taken, size |-> c.size, intact |-> c.intact,
           port |-> c.port]
  BY <1>1, <1>3
<1>5. PICK t : t = [s EXCEPT !.taken = n]
  OBVIOUS
<1>6. t = [at |-> at, taken |-> n, size |-> c.size, intact |-> c.intact,
           port |-> c.port]
  BY <1>4, <1>5
<1>7. PICK u : u = [t EXCEPT !.size = size]
  OBVIOUS
<1>8. u = [at |-> at, taken |-> n, size |-> size, intact |-> c.intact,
           port |-> c.port]
  BY <1>6, <1>7
<1>9. [u EXCEPT !.intact = same]
      = [at |-> at, taken |-> n, size |-> size, intact |-> same, port |-> c.port]
  BY <1>8
<1>10. [c EXCEPT !.at = at, !.taken = @ + 1, !.size = size, !.intact = same]
       = [[[[c EXCEPT !.at = at] EXCEPT !.taken = n] EXCEPT !.size = size]
             EXCEPT !.intact = same]
  BY <1>2
<1>11. QED
  BY <1>2, <1>3, <1>5, <1>7, <1>9, <1>10

LEMMA TypeStep == TypeInv /\ [Next]_vars => TypeInv'
<1> SUFFICES ASSUME TypeInv, [Next]_vars
             PROVE  TypeInv'
  OBVIOUS
<1> USE TftpAssumption
<1>0. /\ server \in Servers /\ client \in Clients
      /\ down \in Seq(ToClient) /\ up \in Seq(ToServer)
      /\ silences \in 0..MaxRetries /\ sends \in 1..(MaxRetries + 1)
      /\ faults \in 0..MaxFaults
  BY DEF TypeInv, TypeOK, Servers, Clients
<1>f. ASSUME Fault PROVE faults' \in 0..MaxFaults
  BY <1>0, <1>f DEF Fault
<1>s. ASSUME NEW s \in Servers, s.at = "data", s.tries = 0, SendsNext(s),
             UNCHANGED <<client, faults>>, up' = Tail(up), up # <<>>
      PROVE  TypeInv'
  <2>1. Packet(s) \in ToClient
    BY PacketTyped
  <2>2. up' \in Seq(ToServer)
    BY <1>s, <1>0
  <2>3. QED
    BY <1>0, <1>s, <2>1, <2>2
    DEF SendsNext, TypeInv, TypeOK, Servers, Clients, Waiting
<1>1. CASE ReceiveAck
  <2>0. /\ up # <<>> /\ up' = Tail(up) /\ UNCHANGED <<client, faults>>
        /\ server.at \in Waiting
    BY <1>1 DEF ReceiveAck, Arrives
  <2>h. /\ Heard \in Servers /\ Heard.at = server.at
        /\ Heard.block = server.block /\ Heard.sent = server.sent
    BY <2>0, HeardTyped DEF TypeInv
  <2>1. CASE server.at = "oack"
    <3>1. PICK s : s = [Heard EXCEPT !.at = "data", !.tries = 0]
      OBVIOUS
    <3>2. s \in Servers /\ s.at = "data" /\ s.tries = 0
      <4>1. s = [at |-> "data", block |-> Heard.block, sent |-> Heard.sent,
                 tries |-> 0, reply_to |-> Heard.reply_to]
        BY <3>1, <2>h, OpensWith
      <4>2. QED
        BY <4>1, <2>h DEF Servers, Waiting
    <3>3. SendsNext(s)
      BY <1>1, <2>1, <3>1 DEF ReceiveAck
    <3>4. QED
      BY <3>2, <3>3, <2>0, <1>s
  <2>2. CASE server.at # "oack" /\ Last(server.sent)
    <3>1. Ends(Heard, "sent")
      BY <1>1, <2>2 DEF ReceiveAck
    <3>2. server' \in Servers /\ server'.at = "sent"
      BY <3>1, <2>h DEF Ends, Servers, Ended
    <3>3. QED
      BY <1>0, <2>0, <3>1, <3>2
      DEF Ends, TypeInv, TypeOK, Servers, Clients, Waiting
  <2>3. CASE server.at # "oack" /\ ~Last(server.sent)
    <3>1. PICK s : s = [Heard EXCEPT !.block = NextBlock(@),
                                     !.sent = EndOf(@), !.tries = 0]
      OBVIOUS
    <3>2. NextBlock(Heard.block) \in Blocks /\ EndOf(Heard.sent) \in Offsets
      <4>1. Heard.block \in 0..(Wrap - 1) /\ Heard.sent \in Offsets
        BY <2>h DEF Servers, Blocks
      <4>2. (Heard.block + 1) % Wrap \in 0..(Wrap - 1)
        BY <4>1
      <4>3. QED
        BY <4>1, <4>2, EndTyped DEF NextBlock, Blocks
    <3>3. s \in Servers /\ s.at = "data" /\ s.tries = 0
      <4>1. s = [at |-> Heard.at, block |-> NextBlock(Heard.block),
                 sent |-> EndOf(Heard.sent), tries |-> 0, reply_to |-> Heard.reply_to]
        BY <3>1, <2>h, GoesOnWith
      <4>2. Heard.at = "data"
        BY <2>h, <2>0, <2>3 DEF Waiting
      <4>3. QED
        BY <4>1, <4>2, <3>2, <2>h DEF Servers, Waiting
    <3>4. SendsNext(s)
      BY <1>1, <2>3, <3>1 DEF ReceiveAck
    <3>5. QED
      BY <3>3, <3>4, <2>0, <1>s
  <2>4. QED
    BY <2>1, <2>2, <2>3
<1>2. CASE ReceiveDuplicate \/ ReceiveStray
  <2>1. /\ up # <<>> /\ up' = Tail(up) /\ server.at \in Waiting
        /\ UNCHANGED <<client, faults, down, silences, sends>>
    BY <1>2 DEF ReceiveDuplicate, ReceiveStray, Arrives
  <2>2. PICK s \in Servers : Turns(s) /\ s.at = server.at /\ s.tries = server.tries
    BY <1>0, <1>2, <2>1, HeardTyped DEF ReceiveDuplicate, ReceiveStray, TypeInv
  <2>3. server.tries < MaxRetries
    BY <2>1 DEF TypeInv, TypeOK
  <2>4. /\ server' \in Servers
        /\ server'.at \in Waiting =>
              server'.tries < MaxRetries /\ server'.tries = server.tries + 1
    BY <2>1, <2>2, <2>3, TurnsTyped
  <2>5. up' \in Seq(ToServer)
    BY <1>0, <2>1
  <2>6. silences <= server.tries /\ sends <= silences + 1
    BY <2>1 DEF TypeInv
  <2>7. server.tries \in 0..MaxRetries
    BY <1>0 DEF Servers
  <2>8. QED
    BY <1>0, <2>1, <2>4, <2>5, <2>6, <2>7 DEF TypeInv, TypeOK, Servers, Clients
<1>3. CASE ReceiveError
  <2>1. /\ up # <<>> /\ up' = Tail(up) /\ server.at \in Waiting
        /\ UNCHANGED <<client, faults, down, silences, sends>>
    BY <1>3 DEF ReceiveError, Arrives, Ends
  <2>2. server' \in Servers /\ server'.at \in Ended
    BY <1>3, <2>1, HeardTyped DEF ReceiveError, Ends, TypeInv, Servers, Ended
  <2>3. up' \in Seq(ToServer)
    BY <1>0, <2>1
  <2>4. QED
    BY <1>0, <2>1, <2>2, <2>3
    DEF TypeInv, TypeOK, Servers, Clients, Waiting, Ended
<1>4. CASE Retry
  <2>1. faults' \in 0..MaxFaults
    BY <1>0, <1>4, <1>f DEF Retry
  <2>2. /\ server' \in Servers
        /\ server'.at \in Waiting =>
              server'.tries < MaxRetries /\ server'.tries = server.tries + 1
    BY <1>0, <1>4, TurnsTyped DEF Retry, TypeInv, TypeOK
  <2>3. /\ silences <= server.tries /\ server.tries < MaxRetries
        /\ server.tries \in Nat /\ sends <= silences + 1
    BY <1>0, <1>4 DEF Retry, TypeInv, TypeOK, Servers
  <2>4. down' \in Seq(ToClient)
    BY <1>0, <1>4, PacketTyped DEF Retry
  <2>5. QED
    BY <1>0, <1>4, <2>1, <2>2, <2>3, <2>4
    DEF Retry, TypeInv, TypeOK, Servers, Clients
<1>5. CASE Abort
  <2>1. server' \in Servers /\ server'.at \in Ended
    BY <1>0, <1>5 DEF Abort, Ends, Servers, Ended
  <2>2. QED
    BY <1>0, <1>5, <1>f, <2>1
    DEF Abort, Ends, TypeInv, TypeOK, Servers, Clients, Waiting, Ended
<1>6. CASE ClientReceive
  <2>1. client' \in Clients /\ up' \in Seq(ToServer)
    <3>1. client.taken % Wrap \in Blocks /\ client.port \in Ports
      BY <1>0 DEF Blocks, Clients
    <3>2. Ack \in ToServer
      BY <3>1 DEF Ack, ToServer
    <3>3. CASE UNCHANGED <<client, up>>
      BY <1>0, <3>3
    <3>4. CASE /\ up' = Append(up, Ack)
               /\ client' = [client EXCEPT !.at = IF @ = "asking" THEN "reading" ELSE @]
      BY SMTT(30), <1>0, <3>2, <3>4 DEF Clients
    <3>5. ASSUME NEW m, m \in ToClient, m.op = "DATA", up' = Append(up, Ack'),
                 client' = [client EXCEPT
                       !.at = IF m.end - m.first < BlockSize THEN "done" ELSE "reading",
                       !.taken = @ + 1,
                       !.size = m.end,
                       !.intact = @ /\ m.first = client.size]
          PROVE  client' \in Clients /\ up' \in Seq(ToServer)
      <4>1. m.end \in Offsets
        BY <3>5 DEF ToClient
      <4>2. client' \in Clients
        <5>1. PICK same \in BOOLEAN :
                 same = (client.intact /\ m.first = client.size)
          OBVIOUS
        <5>2. PICK at \in {"done", "reading"} :
                 at = IF m.end - m.first < BlockSize THEN "done" ELSE "reading"
          OBVIOUS
        <5>3. client' = [client EXCEPT !.at = at, !.taken = @ + 1,
                                       !.size = m.end, !.intact = same]
          BY <3>5, <5>1, <5>2
        <5>4. client' = [at |-> at, taken |-> client.taken + 1, size |-> m.end,
                         intact |-> same, port |-> client.port]
          BY <1>0, <5>3, TakesWith
        <5>5. QED
          BY <1>0, <4>1, <5>4 DEF Clients
      <4>3. client'.taken \in Nat /\ client'.port \in Ports
        BY <4>2 DEF Clients
      <4>4. client'.taken % Wrap \in Blocks
        BY <4>3 DEF Blocks
      <4>5. Ack' \in ToServer
        BY <4>3, <4>4 DEF Ack, ToServer
      <4>6. QED
        BY <1>0, <3>5, <4>2, <4>5
    <3>6. Head(down) \in ToClient
      BY <1>0, <1>6 DEF ClientReceive
    <3>7. QED
      BY <1>6, <3>3, <3>4, <3>5, <3>6 DEF ClientReceive
  <2>2. down' \in Seq(ToClient) /\ UNCHANGED <<server, silences, sends, faults>>
    BY <1>0, <1>6 DEF ClientReceive
  <2>3. QED
    BY <1>0, <2>1, <2>2 DEF TypeInv, TypeOK, Servers, Clients
<1>7. CASE ClientMoves \/ ClientStops
  <2>1. client' \in Clients
    BY <1>0, <1>7 DEF ClientMoves, ClientStops, Clients, Ports
  <2>2. up' \in Seq(ToServer)
    <3>1. client'.taken % Wrap \in Blocks /\ client'.port \in Ports
      BY <2>1 DEF Clients, Blocks
    <3>2. Ack' \in ToServer
      BY <3>1 DEF Ack, ToServer
    <3>3. [op |-> "ERROR", from |-> client.port] \in ToServer
      BY <1>0 DEF Clients, ToServer
    <3>4. QED
      <4>1. \/ up' = up
            \/ up' = Append(up, Ack')
            \/ up' = Append(up, [op |-> "ERROR", from |-> client.port])
        BY <1>7 DEF ClientMoves, ClientStops
      <4>2. QED
        BY <1>0, <4>1, <3>2, <3>3, AppendTyped
  <2>3. /\ UNCHANGED <<server, down, silences, sends>>
        /\ faults' \in 0..MaxFaults
    BY <1>0, <1>7, <1>f DEF ClientMoves, ClientStops
  <2>4. QED
    BY <1>0, <2>1, <2>2, <2>3 DEF TypeInv, TypeOK, Servers, Clients
<1>8. CASE Lose \/ Duplicate \/ Stray
  <2>1. down' \in Seq(ToClient)
    BY <1>0, <1>8, AppendTyped, TailTyped DEF Lose, Duplicate, Stray
  <2>2. up' \in Seq(ToServer)
    <3>1. [op |-> "STRAY", from |-> 1] \in ToServer
      BY DEF ToServer, Ports
    <3>2. QED
      BY ZenonT(60), <1>0, <1>8, <3>1, AppendTyped, TailTyped DEF Lose, Duplicate, Stray
  <2>3. /\ UNCHANGED <<server, client, silences, sends>>
        /\ faults' \in 0..MaxFaults
    BY <1>0, <1>8, <1>f DEF Lose, Duplicate, Stray
  <2>4. QED
    BY <1>0, <2>1, <2>2, <2>3 DEF TypeInv, TypeOK, Servers, Clients
<1>9. CASE UNCHANGED vars
  BY <1>0, <1>9 DEF vars, TypeInv, TypeOK, Servers, Clients
<1>10. QED
  BY <1>1, <1>2, <1>3, <1>4, <1>5, <1>6, <1>7, <1>8, <1>9 DEF Next, Server

LEMMA TypeInit == Init => TypeInv
<1> SUFFICES ASSUME Init
             PROVE  TypeInv
  OBVIOUS
<1>1. server \in Servers /\ server.at \in Waiting /\ server.tries = 0
  BY TftpAssumption DEF Init, Servers, Blocks, Offsets, Ports, Waiting, Ended
<1>2. down \in Seq(ToClient)
  BY <1>1, PacketTyped DEF Init
<1>3. <<>> \in Seq(ToServer)
  OBVIOUS
<1>4. client \in Clients
  BY TftpAssumption DEF Init, Clients, Offsets, Ports
<1>5. QED
  BY <1>1, <1>2, <1>3, <1>4, TftpAssumption
  DEF Init, TypeInv, TypeOK, Servers, Clients, Waiting

(* A transfer's state is of its types, and it counts its sends and         *)
(* silences.                                                               *)
THEOREM TypeInvariant == Spec => []TypeInv
<1>1. QED
  BY TypeInit, TypeStep, PTL DEF Spec

(* The type invariant of a transfer: the tries never pass MAX_RETRIES, and *)
(* what is in flight is always a packet either side knows.                 *)
THEOREM TypeCorrect == Spec => []TypeOK
<1>1. TypeInv => TypeOK
  BY DEF TypeInv
<1>2. QED
  BY <1>1, TypeInvariant, PTL

(* No acknowledgement, late or repeated, ever makes the server send a      *)
(* packet again: it was sent once, and once for each silence.              *)
THEOREM NoApprenticeAlways == Spec => []NoApprentice
<1>1. TypeInv => NoApprentice
  BY DEF TypeInv, NoApprentice
<1>2. QED
  BY <1>1, TypeInvariant, PTL

----------------------------------------------------------------------------
(* Block numbers                                                           *)

LEMMA Mono ==
    ASSUME NEW w \in Nat, NEW a \in Int, NEW b \in Int, a <= b
    PROVE  w * a <= w * b
OBVIOUS

LEMMA DivMod ==
    ASSUME NEW w \in Nat \ {0}, NEW n \in Nat
    PROVE  n \div w \in Int /\ n % w \in 0..(w - 1) /\ n = w * (n \div w) + (n % w)
OBVIOUS

LEMMA DivModUnique ==
    ASSUME NEW w \in Nat \ {0}, NEW p \in Int, NEW q \in Int,
           NEW r \in 0..(w - 1), NEW s \in 0..(w - 1), w * p + r = w * q + s
    PROVE  r = s
<1>1. CASE p = q
  BY <1>1
<1>2. CASE p < q
  <2>1. w * (p + 1) <= w * q
    BY <1>2, Mono
  <2>2. w * (p + 1) = w * p + w
    OBVIOUS
  <2>3. QED
    BY <2>1, <2>2
<1>3. CASE q < p
  <2>1. w * (q + 1) <= w * p
    BY <1>3, Mono
  <2>2. w * (q + 1) = w * q + w
    OBVIOUS
  <2>3. QED
    BY <2>1, <2>2
<1>4. QED
  BY <1>1, <1>2, <1>3

(* The block number that follows, without a division.                      *)
After(b) == IF b + 1 = Wrap THEN 0 ELSE b + 1

LEMMA BlockAfter ==
    ASSUME NEW n \in Nat
    PROVE  n % Wrap \in Blocks /\ (n + 1) % Wrap = After(n % Wrap)
<1> DEFINE q == n \div Wrap
           r == n % Wrap
           u == (n + 1) \div Wrap
           v == (n + 1) % Wrap
<1>w. Wrap \in Nat \ {0}
  BY TftpAssumption
<1>1. q \in Int /\ r \in 0..(Wrap - 1) /\ n = Wrap * q + r
  BY <1>w, DivMod
<1>2. u \in Int /\ v \in 0..(Wrap - 1) /\ n + 1 = Wrap * u + v
  BY <1>w, DivMod
<1>3. v = IF r + 1 = Wrap THEN 0 ELSE r + 1
  <2> HIDE DEF q, r, u, v
  <2>1. CASE r + 1 = Wrap
    <3>1. Wrap * (q + 1) = Wrap * q + Wrap
      BY <1>1, <1>w
    <3>2. Wrap * (q + 1) + 0 = Wrap * u + v
      BY <1>1, <1>2, <1>w, <2>1, <3>1
    <3>3. v = 0
      BY <3>2, <1>1, <1>2, <1>w, DivModUnique
    <3>4. QED
      BY <3>3, <2>1
  <2>2. CASE r + 1 # Wrap
    <3>1. Wrap * q + (r + 1) = Wrap * u + v
      BY <1>1, <1>2, <1>w
    <3>2. r + 1 \in 0..(Wrap - 1)
      BY <1>1, <1>w, <2>2
    <3>3. v = r + 1
      BY <3>1, <3>2, <1>1, <1>2, <1>w, DivModUnique
    <3>4. QED
      BY <3>3, <2>2
  <2>3. QED
    BY <2>1, <2>2
<1>4. QED
  BY <1>1, <1>3 DEF After, Blocks

LEMMA BlockNone == 0 % Wrap = 0 /\ 1 % Wrap = 1
<1>1. Wrap \in Nat /\ Wrap > 1
  BY TftpAssumption
<1>2. 0 % Wrap = 0
  BY <1>1
<1>3. QED
  BY <1>1, <1>2, BlockAfter DEF After

(* How many block numbers y is behind x.                                   *)
Ago(x, y) == IF x >= y THEN x - y ELSE x - y + Wrap

LEMMA AgoSteps ==
    ASSUME NEW x \in Blocks, NEW y \in Blocks
    PROVE  /\ Ago(x, y) \in Nat /\ Ago(x, y) < Wrap
           /\ Ago(x, y) = 0 <=> x = y
           /\ Ago(After(x), x) = 1
           /\ After(x) \in Blocks
           /\ Ago(x, y) + 1 < Wrap => Ago(After(x), y) = Ago(x, y) + 1
BY TftpAssumption DEF Ago, After, Blocks

----------------------------------------------------------------------------
(* Where a block starts                                                    *)

Off(n) == (n - 1) * BlockSize

LEMMA OffNext ==
    ASSUME NEW n \in Nat
    PROVE  Off(n) \in Int /\ Off(n + 1) = Off(n) + BlockSize
BY TftpAssumption DEF Off

LEMMA EndIs ==
    ASSUME NEW from \in Int
    PROVE  /\ ~Last(from) => EndOf(from) = from + BlockSize
           /\ Last(from) => EndOf(from) = FileSize
BY TftpAssumption DEF EndOf, Last

----------------------------------------------------------------------------
(* What is in flight                                                       *)

(* A packet is as many behind the next one a client that has taken n wants *)
(* as were first sent between the two.                                     *)
Behind(m, n) == IF m.op = "OACK" THEN n + 1 ELSE Ago((n + 1) % Wrap, m.block)

(* A packet is never so far behind that its number could be taken for that *)
(* of the next: what is behind was delayed or repeated, which is a fault.  *)
Known(m, n, f) ==
    /\ Behind(m, n) <= 1 \/ Behind(m, n) <= f
    /\ m.op = "DATA" =>
          /\ Behind(m, n) <= n
          /\ m.first = Off(n + 1 - Behind(m, n))
          /\ m.end = EndOf(m.first)

InFlight(q, n, f) ==
    /\ \A i \in 1..Len(q) : Known(q[i], n, f)
    /\ \A i, j \in 1..Len(q) :
          i < j /\ Behind(q[i], n) = 0 =>
             Behind(q[j], n) = 0 \/ Behind(q[j], n) <= f - 1

NoneNew(q, n) == \A i \in 1..Len(q) : Behind(q[i], n) # 0

(* The same of the acknowledgements on their way to a server that waits    *)
(* for a.                                                                  *)
Late(m, a) == Ago(a, m.block)

AcksInFlight(q, a, f) ==
    /\ \A i \in 1..Len(q) : q[i].op = "ACK" => Late(q[i], a) <= 1 \/ Late(q[i], a) <= f
    /\ \A i, j \in 1..Len(q) :
          i < j /\ q[i].op = "ACK" /\ q[j].op = "ACK" /\ Late(q[i], a) = 0 =>
             Late(q[j], a) = 0 \/ Late(q[j], a) <= f - 1

NoneAwaited(q, a) == \A i \in 1..Len(q) : q[i].op = "ACK" => Late(q[i], a) # 0

(* While nothing has gone wrong there is one packet or one acknowledgement *)
(* at a time.                                                              *)
Calm(d, u, f) ==
    f = 0 => /\ Len(d) <= 1
             /\ \A i \in 1..Len(u) : u[i].op = "ACK" =>
                   d = <<>> /\ \A j \in 1..Len(u) : u[j].op = "ACK" => i = j

LEMMA BehindSteps ==
    ASSUME NEW m \in ToClient, NEW n \in Nat
    PROVE  /\ Behind(m, n) \in Nat
           /\ Behind(m, n) + 1 < Wrap => Behind(m, n + 1) = Behind(m, n) + 1
           /\ m.op = "DATA" => Behind(m, n) < Wrap
           /\ m.op \in {"OACK", "DATA"}
           /\ m.op = "OACK" => Behind(m, n) = n + 1
           /\ m.op = "DATA" => (Behind(m, n) = 0 <=> m.block = (n + 1) % Wrap)
           /\ m.op = "DATA" /\ m.block = n % Wrap => Behind(m, n) = 1
<1>1. CASE m.op = "OACK"
  BY <1>1 DEF Behind
<1>2. CASE m.op = "DATA"
  <2>1. m.block \in Blocks
    BY <1>2 DEF ToClient
  <2>2. /\ n % Wrap \in Blocks /\ (n + 1) % Wrap \in Blocks
        /\ (n + 1) % Wrap = After(n % Wrap)
        /\ (n + 2) % Wrap = After((n + 1) % Wrap)
    <3>1. n + 1 \in Nat /\ (n + 1) + 1 = n + 2
      OBVIOUS
    <3>2. QED
      BY <3>1, BlockAfter
  <2>3. Behind(m, n) = Ago((n + 1) % Wrap, m.block)
    BY <1>2 DEF Behind
  <2>4. Behind(m, n + 1) = Ago((n + 2) % Wrap, m.block)
    <3>1. (n + 1) + 1 = n + 2
      OBVIOUS
    <3>2. QED
      BY <1>2, <3>1 DEF Behind
  <2>5. PICK b \in Blocks : b = n % Wrap
    BY <2>2
  <2>6. PICK c \in Blocks : c = (n + 1) % Wrap
    BY <2>2
  <2>7. /\ Behind(m, n) = Ago(c, m.block) /\ Behind(m, n + 1) = Ago(After(c), m.block)
        /\ c = After(b)
    BY <2>2, <2>3, <2>4, <2>5, <2>6
  <2>8. /\ Ago(c, m.block) \in Nat /\ Ago(c, m.block) < Wrap
        /\ Ago(c, m.block) = 0 <=> c = m.block
        /\ Ago(c, m.block) + 1 < Wrap => Ago(After(c), m.block) = Ago(c, m.block) + 1
        /\ m.block = b => Ago(c, m.block) = 1
    BY <2>1, <2>7, AgoSteps
  <2>9. QED
    BY <1>2, <2>5, <2>6, <2>7, <2>8
<1>3. QED
  BY <1>1, <1>2 DEF ToClient

LEMMA InFlightTail ==
    ASSUME NEW q \in Seq(ToClient), q # <<>>, NEW n, NEW f, InFlight(q, n, f)
    PROVE  InFlight(Tail(q), n, f) /\ Known(Head(q), n, f)
BY DEF InFlight

LEMMA InFlightMore ==
    ASSUME NEW q \in Seq(ToClient), NEW n \in Nat, NEW f \in Nat, InFlight(q, n, f)
    PROVE  InFlight(q, n, f + 1)
<1>0. \A i \in 1..Len(q) : q[i] \in ToClient
  OBVIOUS
<1>1. \A i \in 1..Len(q) : Behind(q[i], n) \in Nat
  BY <1>0, BehindSteps
<1>2. \A i \in 1..Len(q) : Known(q[i], n, f + 1)
  BY <1>1 DEF InFlight, Known
<1>3. QED
  BY <1>1, <1>2 DEF InFlight

LEMMA InFlightAppend ==
    ASSUME NEW q \in Seq(ToClient), NEW n, NEW f, InFlight(q, n, f),
           NEW m \in ToClient, Known(m, n, f),
           NoneNew(q, n) \/ Behind(m, n) = 0 \/ Behind(m, n) <= f - 1
    PROVE  InFlight(Append(q, m), n, f)
<1>1. PICK r : r = Append(q, m)
  OBVIOUS
<1>2. /\ Len(r) = Len(q) + 1 /\ r[Len(q) + 1] = m
      /\ \A i \in 1..Len(q) : r[i] = q[i]
  BY <1>1
<1>3. QED
  BY <1>1, <1>2 DEF InFlight, NoneNew

LEMMA NoneNewAppend ==
    ASSUME NEW q \in Seq(ToClient), NEW n, NoneNew(q, n),
           NEW m \in ToClient, Behind(m, n) # 0
    PROVE  NoneNew(Append(q, m), n)
<1>1. PICK r : r = Append(q, m)
  OBVIOUS
<1>2. /\ Len(r) = Len(q) + 1 /\ r[Len(q) + 1] = m
      /\ \A i \in 1..Len(q) : r[i] = q[i]
  BY <1>1
<1>3. QED
  BY <1>1, <1>2 DEF NoneNew

(* The client takes the packet it wants: every other is one further behind.*)
LEMMA InFlightNext ==
    ASSUME NEW q \in Seq(ToClient), q # <<>>, NEW n \in Nat, NEW f \in Nat, f < Wrap,
           InFlight(q, n, f), Behind(Head(q), n) = 0
    PROVE  InFlight(Tail(q), n + 1, f) /\ NoneNew(Tail(q), n + 1)
<1>1. PICK t \in Seq(ToClient) : t = Tail(q)
  BY TailTyped
<1>2. /\ Len(t) = Len(q) - 1 /\ Len(t) \in Nat
      /\ \A i \in 1..Len(t) : t[i] = q[i + 1] /\ i + 1 \in 1..Len(q) /\ t[i] \in ToClient
  BY <1>1
<1>3. \A i \in 1..Len(t) : Behind(t[i], n) = 0 \/ Behind(t[i], n) <= f - 1
  <2>1. 1 \in 1..Len(q) /\ q[1] = Head(q)
    OBVIOUS
  <2>2. QED
    BY <1>2, <2>1 DEF InFlight
<1>4. \A i \in 1..Len(t) : Known(t[i], n, f)
  BY <1>2 DEF InFlight
<1>5. \A i \in 1..Len(t) : Behind(t[i], n) \in Nat /\ Behind(t[i], n + 1) = Behind(t[i], n) + 1
  <2> SUFFICES ASSUME NEW i \in 1..Len(t)
               PROVE  /\ Behind(t[i], n) \in Nat
                      /\ Behind(t[i], n + 1) = Behind(t[i], n) + 1
    OBVIOUS
  <2>1. PICK m \in ToClient : m = t[i]
    BY <1>2
  <2>2. Behind(m, n) \in Nat /\ (Behind(m, n) = 0 \/ Behind(m, n) <= f - 1)
    BY <1>3, <2>1, BehindSteps
  <2>3. Behind(m, n) + 1 < Wrap
    BY <2>2, TftpAssumption
  <2>4. QED
    BY <2>1, <2>2, <2>3, BehindSteps
<1>6. ASSUME NEW i \in 1..Len(t)
      PROVE  Known(t[i], n + 1, f)
  <2>1. PICK b \in Nat : b = Behind(t[i], n)
    BY <1>5
  <2>2. Behind(t[i], n + 1) = b + 1 /\ (b = 0 \/ b <= f - 1)
    BY <1>3, <1>5, <2>1
  <2>3. (n + 1) + 1 - (b + 1) = n + 1 - b
    OBVIOUS
  <2>4. t[i].op = "DATA" => b <= n /\ t[i].first = Off(n + 1 - b) /\ t[i].end = EndOf(t[i].first)
    BY <1>4, <2>1 DEF Known
  <2>5. QED
    BY <2>2, <2>3, <2>4 DEF Known
<1>7. NoneNew(t, n + 1)
  BY <1>5 DEF NoneNew
<1>8. QED
  BY <1>1, <1>6, <1>7 DEF InFlight, NoneNew

LEMMA AcksTail ==
    ASSUME NEW q \in Seq(ToServer), q # <<>>, NEW a, NEW f, AcksInFlight(q, a, f)
    PROVE  AcksInFlight(Tail(q), a, f)
BY DEF AcksInFlight

LEMMA NoneAwaitedTail ==
    ASSUME NEW q \in Seq(ToServer), q # <<>>, NEW a, NoneAwaited(q, a)
    PROVE  NoneAwaited(Tail(q), a)
BY DEF NoneAwaited

LEMMA LateTyped ==
    ASSUME NEW m \in ToServer, m.op = "ACK", NEW a \in Blocks
    PROVE  Late(m, a) \in Nat /\ (Late(m, a) = 0 <=> m.block = a)
<1>1. m.block \in Blocks
  BY DEF ToServer
<1>2. QED
  BY <1>1, AgoSteps DEF Late

LEMMA AcksMore ==
    ASSUME NEW q \in Seq(ToServer), NEW a \in Blocks, NEW f \in Nat, AcksInFlight(q, a, f)
    PROVE  AcksInFlight(q, a, f + 1)
<1>1. ASSUME NEW i \in 1..Len(q), q[i].op = "ACK"
      PROVE  Late(q[i], a) \in Nat
  <2>1. q[i] \in ToServer
    OBVIOUS
  <2>2. QED
    BY <1>1, <2>1, LateTyped
<1>2. ASSUME NEW i \in 1..Len(q), q[i].op = "ACK"
      PROVE  Late(q[i], a) <= 1 \/ Late(q[i], a) <= f + 1
  <2>1. PICK n \in Nat : n = Late(q[i], a)
    BY <1>1, <1>2
  <2>2. n <= 1 \/ n <= f
    BY <1>2, <2>1 DEF AcksInFlight
  <2>3. QED
    BY <2>1, <2>2
<1>3. ASSUME NEW i \in 1..Len(q), NEW j \in 1..Len(q), i < j,
             q[i].op = "ACK", q[j].op = "ACK", Late(q[i], a) = 0
      PROVE  Late(q[j], a) = 0 \/ Late(q[j], a) <= (f + 1) - 1
  <2>1. PICK n \in Nat : n = Late(q[j], a)
    BY <1>1, <1>3
  <2>2. n = 0 \/ n <= f - 1
    BY <1>3, <2>1 DEF AcksInFlight
  <2>3. QED
    BY <2>1, <2>2
<1>4. QED
  BY <1>2, <1>3 DEF AcksInFlight

LEMMA AcksAppend ==
    ASSUME NEW q \in Seq(ToServer), NEW a, NEW f, AcksInFlight(q, a, f),
           NEW m \in ToServer,
           m.op = "ACK" =>
              /\ Late(m, a) <= 1 \/ Late(m, a) <= f
              /\ NoneAwaited(q, a) \/ Late(m, a) = 0 \/ Late(m, a) <= f - 1
    PROVE  AcksInFlight(Append(q, m), a, f)
<1>1. PICK r : r = Append(q, m)
  OBVIOUS
<1>2. /\ Len(r) = Len(q) + 1 /\ r[Len(q) + 1] = m
      /\ \A i \in 1..Len(q) : r[i] = q[i]
  BY <1>1
<1>3. QED
  BY <1>1, <1>2 DEF AcksInFlight, NoneAwaited

LEMMA NoneAwaitedAppend ==
    ASSUME NEW q \in Seq(ToServer), NEW a, NoneAwaited(q, a),
           NEW m \in ToServer, m.op = "ACK" => Late(m, a) # 0
    PROVE  NoneAwaited(Append(q, m), a)
<1>1. PICK r : r = Append(q, m)
  OBVIOUS
<1>2. /\ Len(r) = Len(q) + 1 /\ r[Len(q) + 1] = m
      /\ \A i \in 1..Len(q) : r[i] = q[i]
  BY <1>1
<1>3. QED
  BY <1>1, <1>2 DEF NoneAwaited

(* The server goes on: every other acknowledgement is one further behind.  *)
LEMMA AcksNext ==
    ASSUME NEW q \in Seq(ToServer), q # <<>>, NEW a \in Blocks, NEW f \in Nat, f < Wrap,
           AcksInFlight(q, a, f), Head(q).op = "ACK", Late(Head(q), a) = 0
    PROVE  AcksInFlight(Tail(q), After(a), f) /\ NoneAwaited(Tail(q), After(a))
<1>1. PICK t \in Seq(ToServer) : t = Tail(q)
  BY TailTyped
<1>2. /\ Len(t) = Len(q) - 1 /\ Len(t) \in Nat
      /\ \A i \in 1..Len(t) : t[i] = q[i + 1] /\ i + 1 \in 1..Len(q) /\ t[i] \in ToServer
  BY <1>1
<1>3. \A i \in 1..Len(t) : t[i].op = "ACK" => Late(t[i], a) = 0 \/ Late(t[i], a) <= f - 1
  <2>1. 1 \in 1..Len(q) /\ q[1] = Head(q)
    OBVIOUS
  <2>2. QED
    BY <1>2, <2>1 DEF AcksInFlight
<1>4. \A i \in 1..Len(t) : t[i].op = "ACK" => Late(t[i], After(a)) = Late(t[i], a) + 1
  <2> SUFFICES ASSUME NEW i \in 1..Len(t), t[i].op = "ACK"
               PROVE  Late(t[i], After(a)) = Late(t[i], a) + 1
    OBVIOUS
  <2>1. t[i].block \in Blocks
    BY <1>2 DEF ToServer
  <2>2. Ago(a, t[i].block) = 0 \/ Ago(a, t[i].block) <= f - 1
    BY <1>3 DEF Late
  <2>3. Ago(a, t[i].block) \in Nat
    BY <2>1, AgoSteps
  <2>4. Ago(a, t[i].block) + 1 < Wrap
    BY <2>2, <2>3, TftpAssumption
  <2>5. QED
    BY <2>1, <2>4, AgoSteps DEF Late
<1>5. \A i \in 1..Len(t) : t[i].op = "ACK" => Late(t[i], a) \in Nat
  BY <1>2, LateTyped
<1>6. QED
  BY <1>1, <1>3, <1>4, <1>5 DEF AcksInFlight, NoneAwaited

----------------------------------------------------------------------------
(* The invariant                                                           *)

(* What the client holds is the file up to the end of the last block it    *)
(* took, and a block that is short ends its part.                          *)
Holds ==
    /\ client.intact
    /\ client.size = IF client.taken = 0 THEN 0 ELSE EndOf(Off(client.taken))
    /\ client.at = "asking" => client.taken = 0
    /\ client.taken > 0 /\ Last(Off(client.taken)) => client.at \in {"done", "off"}

(* The server waits for the block after those the client has taken, which  *)
(* nobody acknowledged yet ...                                             *)
Ahead ==
    /\ server.at = "data"
    /\ server.block = (client.taken + 1) % Wrap
    /\ server.sent = Off(client.taken + 1)
    /\ NoneAwaited(up, server.block)

(* ... or for the last one taken, and has not sent the one after it.       *)
Level ==
    /\ IF server.at = "oack"
       THEN client.taken = 0 /\ server.block = 1 /\ server.sent = 0
       ELSE /\ client.taken > 0
            /\ server.block = client.taken % Wrap
            /\ server.sent = Off(client.taken)
    /\ NoneNew(down, client.taken)

Waits == AcksInFlight(up, Awaited(server), faults) /\ (Ahead \/ Level)

TransferInv ==
    /\ Calm(down, up, faults)
    /\ InFlight(down, client.taken, faults)
    /\ server.at \in Waiting => Waits
    /\ Holds
    /\ SentMeansReceived

LEMMA NewPacket ==
    ASSUME NEW n \in Nat, NEW p, NEW f \in Nat,
           Data((n + 1) % Wrap, Off(n + 1), p) \in ToClient
    PROVE  LET m == Data((n + 1) % Wrap, Off(n + 1), p)
           IN  Behind(m, n) = 0 /\ Known(m, n, f)
<1>1. PICK m \in ToClient : m = Data((n + 1) % Wrap, Off(n + 1), p)
  OBVIOUS
<1>2. /\ m.op = "DATA" /\ m.block = (n + 1) % Wrap
      /\ m.first = Off(n + 1) /\ m.end = EndOf(m.first)
  BY <1>1 DEF Data
<1>3. Behind(m, n) = 0
  BY <1>2, BehindSteps
<1>4. n + 1 - 0 = n + 1
  OBVIOUS
<1>5. Known(m, n, f)
  BY <1>2, <1>3, <1>4 DEF Known
<1>6. QED
  BY <1>1, <1>3, <1>5

LEMMA OldPacket ==
    ASSUME NEW n \in Nat, n > 0, NEW p, NEW f \in Nat,
           Data(n % Wrap, Off(n), p) \in ToClient
    PROVE  LET m == Data(n % Wrap, Off(n), p)
           IN  Behind(m, n) = 1 /\ Known(m, n, f)
<1>1. PICK m \in ToClient : m = Data(n % Wrap, Off(n), p)
  OBVIOUS
<1>2. /\ m.op = "DATA" /\ m.block = n % Wrap
      /\ m.first = Off(n) /\ m.end = EndOf(m.first)
  BY <1>1 DEF Data
<1>3. Behind(m, n) = 1
  BY <1>2, BehindSteps
<1>4. n + 1 - 1 = n
  OBVIOUS
<1>5. Known(m, n, f)
  BY <1>2, <1>3, <1>4 DEF Known
<1>6. QED
  BY <1>1, <1>3, <1>5

(* The packet the server would send again is the one the client wants next *)
(* or the one it took last.                                                *)
LEMMA PacketFits ==
    ASSUME TypeInv, server.at \in Waiting, Ahead \/ Level, NEW f \in Nat
    PROVE  /\ Packet(server) \in ToClient
           /\ Known(Packet(server), client.taken, f)
           /\ Behind(Packet(server), client.taken) \in {0, 1}
           /\ Ahead => Behind(Packet(server), client.taken) = 0
           /\ Level => Behind(Packet(server), client.taken) = 1
<1>0. client.taken \in Nat /\ server \in Servers
  BY DEF TypeInv, TypeOK, Servers
<1>1. Packet(server) \in ToClient
  BY <1>0, PacketTyped
<1>2. CASE server.at = "oack"
  <2>1. Packet(server).op = "OACK" /\ Packet(server).op # "DATA"
    BY <1>2 DEF Packet
  <2>2. client.taken = 0 /\ ~Ahead
    BY <1>2 DEF Ahead, Level
  <2>3. Behind(Packet(server), client.taken) = 1
    BY <2>1, <2>2 DEF Behind
  <2>4. QED
    BY <1>1, <2>1, <2>2, <2>3 DEF Known
<1>3. CASE server.at = "data"
  <2>1. Packet(server) = Data(server.block, server.sent, server.reply_to)
    BY <1>3 DEF Packet
  <2>2. CASE Ahead
    <3>1. Behind(Packet(server), client.taken) = 0 /\ Known(Packet(server), client.taken, f)
      BY <1>0, <1>1, <2>1, <2>2, NewPacket DEF Ahead
    <3>2. ~Level
      <4>1. PICK c \in Blocks : c = client.taken % Wrap
        BY <1>0, BlockAfter
      <4>2. After(c) # c
        BY <4>1, TftpAssumption DEF After, Blocks
      <4>3. QED
        BY <1>0, <1>3, <2>2, <4>1, <4>2, BlockAfter DEF Ahead, Level
    <3>3. QED
      BY <1>1, <2>2, <3>1, <3>2
  <2>3. CASE Level
    <3>1. Behind(Packet(server), client.taken) = 1 /\ Known(Packet(server), client.taken, f)
      BY <1>0, <1>1, <1>3, <2>1, <2>3, OldPacket DEF Level
    <3>2. ~Ahead
      <4>1. PICK c \in Blocks : c = client.taken % Wrap
        BY <1>0, BlockAfter
      <4>2. After(c) # c
        BY <4>1, TftpAssumption DEF After, Blocks
      <4>3. QED
        BY <1>0, <1>3, <2>3, <4>1, <4>2, BlockAfter DEF Ahead, Level
    <3>3. QED
      BY <1>1, <2>3, <3>1, <3>2
  <2>4. QED
    BY <2>2, <2>3
<1>4. QED
  BY <1>2, <1>3 DEF Waiting

(* What the client acknowledges is what the server waits for, or one       *)
(* behind it while nothing else is on its way.                             *)
LEMMA AckFits ==
    ASSUME TypeInv, server.at \in Waiting, Ahead \/ Level
    PROVE  /\ Ack \in ToServer /\ Ack.op = "ACK"
           /\ Awaited(server) \in Blocks
           /\ Ahead => Late(Ack, Awaited(server)) = 1
           /\ Level => Late(Ack, Awaited(server)) = 0
<1>0. client.taken \in Nat /\ client.port \in Ports
  BY DEF TypeInv, TypeOK
<1>1. PICK c \in Blocks : c = client.taken % Wrap
  BY <1>0, BlockAfter
<1>2. Ack = [op |-> "ACK", from |-> client.port, block |-> c]
  BY <1>1 DEF Ack
<1>3. Ack \in ToServer /\ Ack.op = "ACK" /\ Ack.block = c
  BY <1>0, <1>2 DEF ToServer
<1>4. ASSUME Ahead
      PROVE  Awaited(server) \in Blocks /\ Late(Ack, Awaited(server)) = 1
  <2>1. Awaited(server) = After(c)
    BY <1>0, <1>1, <1>4, BlockAfter DEF Ahead, Awaited
  <2>2. QED
    BY <1>3, <2>1, AgoSteps DEF Late
<1>5. ASSUME Level
      PROVE  Awaited(server) \in Blocks /\ Late(Ack, Awaited(server)) = 0
  <2>1. Awaited(server) = c
    BY <1>1, <1>5, BlockNone DEF Level, Awaited
  <2>2. Late(Ack, c) = Ago(c, c)
    BY <1>3 DEF Late
  <2>3. Ago(c, c) = 0
    BY AgoSteps
  <2>4. QED
    BY <2>1, <2>2, <2>3
<1>6. QED
  BY <1>3, <1>4, <1>5

LEMMA BlockIsItself ==
    ASSUME NEW b \in Blocks
    PROVE  b % Wrap = b
<1>w. Wrap \in Nat \ {0} /\ b \in Nat /\ b \in 0..(Wrap - 1)
  BY TftpAssumption DEF Blocks
<1>1. b \div Wrap \in Int /\ b % Wrap \in 0..(Wrap - 1) /\ b = Wrap * (b \div Wrap) + (b % Wrap)
  BY <1>w, DivMod
<1>2. Wrap * 0 + b = Wrap * (b \div Wrap) + (b % Wrap)
  BY <1>w, <1>1
<1>3. QED
  BY <1>w, <1>1, <1>2, DivModUnique

LEMMA NextBlockIs ==
    ASSUME NEW b \in Blocks
    PROVE  NextBlock(b) = After(b)
<1>1. b \in Nat
  BY TftpAssumption DEF Blocks
<1>2. QED
  BY <1>1, BlockAfter, BlockIsItself DEF NextBlock

LEMMA TransferInit == Init => TransferInv
<1> SUFFICES ASSUME Init
             PROVE  TransferInv
  OBVIOUS
<1>1. TypeInv
  BY TypeInit
<1>2. /\ client.taken = 0 /\ client.intact /\ client.size = 0 /\ client.at = "asking"
      /\ faults = 0 /\ up = <<>> /\ Len(up) = 0 /\ down = <<Packet(server)>>
      /\ server.at \in Waiting /\ server.block = 1 /\ server.sent = 0
  BY DEF Init
<1>3. PICK m : m = Packet(server)
  OBVIOUS
<1>4. Len(down) = 1 /\ down[1] = m
  BY <1>2, <1>3
<1>5. NoneAwaited(up, server.block) /\ AcksInFlight(up, Awaited(server), faults)
  BY <1>2 DEF NoneAwaited, AcksInFlight
<1>6. Ahead \/ (server.at = "oack" /\ ~Ahead)
  <2>1. 0 + 1 = 1
    OBVIOUS
  <2>2. Off(1) = 0
    BY TftpAssumption DEF Off
  <2>3. QED
    BY <1>2, <1>5, <2>1, <2>2, BlockNone DEF Ahead, Waiting
<1>7. CASE Ahead
  <2>1. Known(m, client.taken, faults) /\ Behind(m, client.taken) = 0
    BY <1>1, <1>2, <1>3, <1>7, PacketFits
  <2>2. InFlight(down, client.taken, faults)
    BY <1>4, <2>1 DEF InFlight
  <2>3. QED
    BY <1>2, <1>4, <1>5, <1>7, <2>2
    DEF TransferInv, Calm, Waits, Holds, SentMeansReceived, Waiting
<1>8. CASE server.at = "oack"
  <2>1. m.op = "OACK" /\ m.op # "DATA"
    BY <1>3, <1>8 DEF Packet
  <2>2. Behind(m, client.taken) = 1
    BY <1>2, <2>1 DEF Behind
  <2>3. InFlight(down, client.taken, faults) /\ NoneNew(down, client.taken)
    BY <1>4, <2>1, <2>2 DEF InFlight, Known, NoneNew
  <2>4. Level
    BY <1>2, <1>8, <2>3 DEF Level
  <2>5. QED
    BY <1>2, <1>4, <1>5, <1>8, <2>3, <2>4
    DEF TransferInv, Calm, Waits, Holds, SentMeansReceived, Waiting
<1>9. QED
  BY <1>6, <1>7, <1>8

----------------------------------------------------------------------------
(* Every step keeps it                                                     *)

LEMMA TurnsKeep ==
    ASSUME NEW s, s \in Servers, Turns(s)
    PROVE  /\ server'.at \in {s.at, "failed"}
           /\ server'.block = s.block /\ server'.sent = s.sent
BY DEF Turns, Servers

(* A turn without the acknowledgement: the server waits for the same one,  *)
(* or no longer.                                                           *)
LEMMA SameServer ==
    ASSUME TransferInv, UNCHANGED client,
           server'.at = server.at \/ server'.at \notin Waiting \cup {"sent"},
           server'.block = server.block, server'.sent = server.sent
    PROVE  /\ Holds' /\ SentMeansReceived'
           /\ server'.at \in Waiting =>
                 /\ server.at \in Waiting /\ Awaited(server)' = Awaited(server)
                 /\ Ahead /\ NoneAwaited(up', server.block) => Ahead'
                 /\ Level /\ NoneNew(down', client.taken) => Level'
BY DEF TransferInv, Holds, SentMeansReceived, Awaited, Ahead, Level

LEMMA CalmTail ==
    ASSUME NEW d, NEW u \in Seq(ToServer), u # <<>>, NEW f, Calm(d, u, f)
    PROVE  Calm(d, Tail(u), f)
BY DEF Calm

LEMMA StepAck == TypeInv /\ TransferInv /\ MaxFaults < Wrap /\ ReceiveAck => TransferInv'
<1> SUFFICES ASSUME TypeInv, TransferInv, MaxFaults < Wrap, ReceiveAck
             PROVE  TransferInv'
  OBVIOUS
<1>0. /\ server \in Servers /\ client \in Clients /\ client.taken \in Nat
      /\ down \in Seq(ToClient) /\ up \in Seq(ToServer)
      /\ faults \in Nat /\ faults < Wrap
  BY TftpAssumption DEF TypeInv, TypeOK, Servers, Clients
<1>1. /\ up # <<>> /\ up' = Tail(up) /\ UNCHANGED <<client, faults>>
      /\ server.at \in Waiting /\ Head(up).op = "ACK"
      /\ Head(up).block = Awaited(server)
  BY DEF ReceiveAck, Arrives, Acked
<1>2. Waits
  BY <1>1 DEF TransferInv
<1>3. PICK c \in Blocks : c = client.taken % Wrap
  BY <1>0, BlockAfter
<1>4. Head(up) \in ToServer /\ 1 \in 1..Len(up) /\ up[1] = Head(up)
  BY <1>0, <1>1
<1>5. Level /\ Awaited(server) = c
  <2>1. Awaited(server) \in Blocks
    BY <1>1, <1>2, AckFits DEF Waits
  <2>2. Late(Head(up), Awaited(server)) = 0
    BY <1>1, <1>4, <2>1, LateTyped
  <2>3. ~Ahead
    BY <1>1, <1>4, <2>2 DEF Ahead, NoneAwaited, Awaited
  <2>4. Level
    BY <1>2, <2>3 DEF Waits
  <2>5. QED
    BY <1>3, <2>4, BlockNone DEF Level, Awaited
<1>6. AcksInFlight(up', After(c), faults) /\ NoneAwaited(up', After(c))
  <2>1. Late(Head(up), c) = 0
    BY <1>1, <1>4, <1>5, LateTyped
  <2>2. QED
    BY <1>0, <1>1, <1>2, <1>5, <2>1, AcksNext DEF Waits
<1>7. Holds'
  BY <1>1 DEF TransferInv, Holds
<1>8. /\ Heard \in Servers /\ Heard.at = server.at
      /\ Heard.block = server.block /\ Heard.sent = server.sent
  BY <1>1, HeardTyped DEF TypeInv
<1>9. /\ (client.taken + 1) % Wrap = After(c)
      /\ Off(client.taken + 1) = Off(client.taken) + BlockSize
      /\ client.taken + 1 \in Int
  <2>1. PICK n \in Nat : n = client.taken
    BY <1>0
  <2>2. (n + 1) % Wrap = After(c) /\ Off(n + 1) = Off(n) + BlockSize /\ n + 1 \in Int
    BY <1>3, <2>1, BlockAfter, OffNext
  <2>3. QED
    BY <2>1, <2>2
\* The packet that follows is the one the client wants next.
<1>10. ASSUME NEW s \in Servers, s.at = "data", s.block = After(c),
              s.sent = Off(client.taken + 1), SendsNext(s)
       PROVE  TransferInv'
  <2>1. server' = s /\ down' = Append(down, Packet(s))
    BY <1>10 DEF SendsNext
  <2>2. Packet(s) \in ToClient
    BY PacketTyped
  <2>3. Packet(s) = Data((client.taken + 1) % Wrap, Off(client.taken + 1), s.reply_to)
    BY <1>9, <1>10 DEF Packet
  <2>4. Known(Packet(s), client.taken, faults) /\ Behind(Packet(s), client.taken) = 0
    BY <1>0, <2>2, <2>3, NewPacket
  <2>5. InFlight(down', client.taken, faults)
    BY <1>0, <2>1, <2>2, <2>4, InFlightAppend DEF TransferInv
  <2>6. Calm(down', up', faults)
    <3>1. faults = 0 => down = <<>> /\ \A j \in 1..Len(up) : up[j].op = "ACK" => 1 = j
      BY <1>1, <1>4 DEF TransferInv, Calm
    <3>2. faults = 0 => Len(down') <= 1
      BY <1>0, <2>1, <2>2, <3>1
    <3>3. \A i \in 1..Len(up') : i + 1 \in 1..Len(up) /\ i + 1 # 1 /\ up'[i] = up[i + 1]
      BY <1>0, <1>1
    <3>4. QED
      BY <3>1, <3>2, <3>3 DEF Calm
  <2>7. Ahead'
    BY <1>1, <1>6, <1>9, <1>10, <2>1 DEF Ahead
  <2>8. Awaited(server)' = After(c)
    BY <1>10, <2>1 DEF Awaited
  <2>9. QED
    BY <1>1, <1>6, <1>7, <1>10, <2>1, <2>5, <2>6, <2>7, <2>8
    DEF TransferInv, Waits, SentMeansReceived, Holds
<1>11. CASE server.at = "oack"
  <2>1. PICK s : s = [Heard EXCEPT !.at = "data", !.tries = 0]
    OBVIOUS
  <2>2. s = [at |-> "data", block |-> Heard.block, sent |-> Heard.sent,
             tries |-> 0, reply_to |-> Heard.reply_to]
    BY <1>8, <2>1, OpensWith
  <2>3. s \in Servers
    BY <1>8, <2>2, TftpAssumption DEF Servers, Waiting
  <2>4. s.at = "data" /\ s.block = 1 /\ s.sent = 0 /\ client.taken = 0
    BY <1>5, <1>8, <1>11, <2>2 DEF Level
  <2>5. After(c) = 1 /\ Off(client.taken + 1) = 0
    <3>1. c = 0
      BY <1>3, <2>4, BlockNone
    <3>2. QED
      BY <2>4, <3>1, TftpAssumption DEF After, Off
  <2>6. SendsNext(s)
    BY <1>11, <2>1 DEF ReceiveAck
  <2>7. QED
    BY <1>10, <2>3, <2>4, <2>5, <2>6
<1>12. CASE server.at = "data" /\ Last(server.sent)
  <2>1. server.sent = Off(client.taken) /\ client.taken > 0
    BY <1>5, <1>12 DEF Level
  <2>2. Ends(Heard, "sent")
    BY <1>12 DEF ReceiveAck
  <2>3. server'.at = "sent" /\ UNCHANGED down
    BY <1>8, <2>2 DEF Ends, Servers
  <2>4. EndOf(Off(client.taken)) = FileSize
    <3>1. Off(client.taken) \in Int
      BY <1>0, OffNext
    <3>2. QED
      BY <1>12, <2>1, <3>1, EndIs
  <2>5. client.size = FileSize /\ client.at \in {"done", "off"} /\ client.intact
    BY <1>12, <2>1, <2>4 DEF TransferInv, Holds
  <2>6. Calm(down', up', faults')
    BY <1>0, <1>1, <2>3, CalmTail DEF TransferInv
  <2>7. QED
    BY <1>1, <1>7, <2>3, <2>5, <2>6 DEF TransferInv, SentMeansReceived, Waiting
<1>13. CASE server.at = "data" /\ ~Last(server.sent)
  <2>1. server.sent = Off(client.taken) /\ server.block = c /\ server.at # "oack"
    BY <1>3, <1>5, <1>13 DEF Level
  <2>2. PICK s : s = [Heard EXCEPT !.block = NextBlock(@),
                                   !.sent = EndOf(@), !.tries = 0]
    OBVIOUS
  <2>3. s = [at |-> Heard.at, block |-> NextBlock(Heard.block),
             sent |-> EndOf(Heard.sent), tries |-> 0, reply_to |-> Heard.reply_to]
    BY <1>8, <2>2, GoesOnWith
  <2>4. NextBlock(Heard.block) = After(c) /\ After(c) \in Blocks
    BY <1>8, <2>1, NextBlockIs, AgoSteps
  <2>5. EndOf(Heard.sent) = Off(client.taken + 1)
    <3>1. Off(client.taken) \in Int
      BY <1>0, OffNext
    <3>2. EndOf(Off(client.taken)) = Off(client.taken) + BlockSize
      BY <1>13, <2>1, <3>1, EndIs
    <3>3. QED
      BY <1>8, <1>9, <2>1, <3>2
  <2>6. EndOf(Heard.sent) \in Offsets
    BY <1>8, EndTyped DEF Servers
  <2>7. s \in Servers
    BY <1>8, <1>13, <2>3, <2>4, <2>6, TftpAssumption DEF Servers, Waiting
  <2>8. s.at = "data" /\ s.block = After(c) /\ s.sent = Off(client.taken + 1)
    BY <1>8, <1>13, <2>3, <2>4, <2>5
  <2>9. SendsNext(s)
    BY <1>13, <2>1, <2>2 DEF ReceiveAck
  <2>10. QED
    BY <1>10, <2>7, <2>8, <2>9
<1>14. QED
  BY <1>1, <1>11, <1>12, <1>13 DEF Waiting

LEMMA StepTurn == TypeInv /\ TransferInv /\ (ReceiveDuplicate \/ ReceiveStray) => TransferInv'
<1> SUFFICES ASSUME TypeInv, TransferInv, ReceiveDuplicate \/ ReceiveStray
             PROVE  TransferInv'
  OBVIOUS
<1>0. server \in Servers /\ up \in Seq(ToServer)
  BY DEF TypeInv, TypeOK, Servers
<1>1. /\ up # <<>> /\ up' = Tail(up) /\ UNCHANGED <<client, faults, down>>
      /\ server.at \in Waiting
  BY DEF ReceiveDuplicate, ReceiveStray, Arrives
<1>2. PICK s \in Servers : /\ Turns(s) /\ s.at = server.at
                           /\ s.block = server.block /\ s.sent = server.sent
  BY <1>0, <1>1, HeardTyped DEF ReceiveDuplicate, ReceiveStray, TypeInv
<1>3. /\ server'.at \in {server.at, "failed"}
      /\ server'.block = server.block /\ server'.sent = server.sent
  BY <1>2, TurnsKeep
<1>4. "failed" \notin Waiting \cup {"sent"}
  BY DEF Waiting
<1>5. Waits
  BY <1>1 DEF TransferInv
<1>6. AcksInFlight(up', Awaited(server), faults)
  BY <1>0, <1>1, <1>5, AcksTail DEF Waits
<1>7. Ahead => NoneAwaited(up', server.block)
  BY <1>0, <1>1, NoneAwaitedTail DEF Ahead
<1>8. Level => NoneNew(down', client.taken)
  BY <1>1 DEF Level
<1>9. Calm(down', up', faults')
  BY <1>0, <1>1, CalmTail DEF TransferInv
<1>10. /\ Holds' /\ SentMeansReceived'
       /\ server'.at \in Waiting =>
             Awaited(server)' = Awaited(server) /\ (Ahead' \/ Level')
  BY <1>1, <1>3, <1>4, <1>5, <1>7, <1>8, SameServer DEF Waits
<1>11. InFlight(down', client'.taken, faults')
  BY <1>1 DEF TransferInv
<1>12. QED
  BY <1>1, <1>6, <1>9, <1>10, <1>11 DEF TransferInv, Waits

LEMMA StepEnd == TypeInv /\ TransferInv /\ ReceiveError => TransferInv'
<1> SUFFICES ASSUME TypeInv, TransferInv, ReceiveError
             PROVE  TransferInv'
  OBVIOUS
<1>0. up \in Seq(ToServer)
  BY DEF TypeInv, TypeOK
<1>1. /\ up # <<>> /\ up' = Tail(up) /\ UNCHANGED <<client, faults, down>>
  BY DEF ReceiveError, Arrives, Ends
<1>2. server'.at \in {"failed", "cancelled"}
  BY <1>1, HeardTyped DEF ReceiveError, Ends, Servers, TypeInv
<1>3. Calm(down', up', faults')
  BY <1>0, <1>1, CalmTail DEF TransferInv
<1>4. Holds' /\ client'.intact
  BY <1>1 DEF TransferInv, Holds
<1>5. QED
  BY <1>1, <1>2, <1>3, <1>4 DEF TransferInv, SentMeansReceived, Waiting

LEMMA StepAbort == TypeInv /\ TransferInv /\ Abort => TransferInv'
<1> SUFFICES ASSUME TypeInv, TransferInv, Abort
             PROVE  TransferInv'
  OBVIOUS
<1>1. /\ UNCHANGED <<client, down, up>> /\ faults' = faults + 1 /\ faults \in Nat
      /\ client.taken \in Nat /\ down \in Seq(ToClient)
  BY TftpAssumption DEF Abort, Fault, Ends, TypeInv, TypeOK
<1>2. server'.at = "aborted"
  BY DEF Abort, Ends, TypeInv, TypeOK
<1>3. InFlight(down', client'.taken, faults')
  BY <1>1, InFlightMore DEF TransferInv
<1>4. Holds' /\ client'.intact
  BY <1>1 DEF TransferInv, Holds
<1>5. Calm(down', up', faults')
  BY <1>1 DEF Calm
<1>6. QED
  BY <1>2, <1>3, <1>4, <1>5 DEF TransferInv, SentMeansReceived, Waiting

LEMMA StepRetry == TypeInv /\ TransferInv /\ Retry => TransferInv'
<1> SUFFICES ASSUME TypeInv, TransferInv, Retry
             PROVE  TransferInv'
  OBVIOUS
<1> DEFINE m == Packet(server)
           n == client.taken
<1>0. /\ server \in Servers /\ n \in Nat /\ faults \in Nat
      /\ down \in Seq(ToClient) /\ up \in Seq(ToServer)
  BY TftpAssumption DEF TypeInv, TypeOK, Servers
<1>1. /\ server.at \in Waiting /\ UNCHANGED <<client, up>> /\ Turns(server)
      /\ down' = Append(down, m)
      /\ (faults' = faults /\ down \o up = <<>>) \/ faults' = faults + 1
  BY DEF Retry, Fault
<1>2. Waits
  BY <1>1 DEF TransferInv
<1>3. /\ m \in ToClient /\ Known(m, n, faults')
      /\ Ahead => Behind(m, n) = 0
      /\ Level => Behind(m, n) = 1
  BY <1>0, <1>1, <1>2, PacketFits DEF Waits
<1>4. NoneNew(down, n) \/ Behind(m, n) = 0
  BY <1>2, <1>3 DEF Waits, Level
<1>5. InFlight(down, n, faults')
  BY <1>0, <1>1, InFlightMore DEF TransferInv
<1>6. InFlight(down', n, faults')
  <2> HIDE DEF m, n
  <2>1. QED
    BY <1>0, <1>1, <1>3, <1>4, <1>5, InFlightAppend
<1>7. Calm(down', up', faults')
  <2>1. CASE faults' = faults + 1
    BY <1>0, <2>1 DEF Calm
  <2>2. CASE down \o up = <<>>
    <3>1. Len(down) = 0 /\ Len(up) = 0
      <4>1. Len(down \o up) = Len(down) + Len(up)
        BY <1>0
      <4>2. Len(down) \in Nat /\ Len(up) \in Nat
        BY <1>0
      <4>3. QED
        BY <2>2, <4>1, <4>2
    <3>2. Len(down') = 1
      BY <1>0, <1>1, <1>3, <3>1
    <3>3. QED
      BY <1>1, <3>1, <3>2 DEF Calm
  <2>3. QED
    BY <1>1, <2>1, <2>2
<1>8. /\ server'.at \in {server.at, "failed"}
      /\ server'.block = server.block /\ server'.sent = server.sent
  BY <1>0, <1>1, TurnsKeep
<1>9. "failed" \notin Waiting \cup {"sent"}
  BY DEF Waiting
<1>10. Level => NoneNew(down', n)
  <2> HIDE DEF m, n
  <2>1. ASSUME Level PROVE NoneNew(down, n)
    BY <2>1 DEF Level, n
  <2>2. QED
    BY <1>0, <1>1, <1>3, <2>1, NoneNewAppend
<1>11. Ahead => NoneAwaited(up', server.block)
  BY <1>1 DEF Ahead
<1>12. /\ Holds' /\ SentMeansReceived'
       /\ server'.at \in Waiting =>
             Awaited(server)' = Awaited(server) /\ (Ahead' \/ Level')
  BY <1>1, <1>2, <1>8, <1>9, <1>10, <1>11, SameServer DEF Waits
<1>13. AcksInFlight(up', Awaited(server), faults')
  BY <1>0, <1>1, <1>2, AckFits, AcksMore DEF Waits
<1>14. QED
  BY <1>1, <1>6, <1>7, <1>12, <1>13 DEF TransferInv, Waits

----------------------------------------------------------------------------
(* The client's steps                                                      *)

(* The client acknowledges what it has: that is what the server waits for, *)
(* or one behind, and then nothing else is.                                *)
LEMMA AckSent ==
    ASSUME TypeInv, server.at \in Waiting, Waits, NEW f \in Nat,
           f = faults \/ f = faults + 1
    PROVE  /\ AcksInFlight(Append(up, Ack), Awaited(server), f)
           /\ Ahead => NoneAwaited(Append(up, Ack), server.block)
<1>0. up \in Seq(ToServer) /\ faults \in Nat
  BY TftpAssumption DEF TypeInv, TypeOK
<1>1. /\ Ack \in ToServer /\ Ack.op = "ACK" /\ Awaited(server) \in Blocks
      /\ Ahead => Late(Ack, Awaited(server)) = 1
      /\ Level => Late(Ack, Awaited(server)) = 0
  BY AckFits DEF Waits
<1>2. AcksInFlight(up, Awaited(server), f)
  BY <1>0, <1>1, AcksMore DEF Waits
<1>3. Ahead => NoneAwaited(up, Awaited(server)) /\ Awaited(server) = server.block
  BY DEF Ahead, Awaited
<1>4. AcksInFlight(Append(up, Ack), Awaited(server), f)
  <2>1. /\ Late(Ack, Awaited(server)) <= 1
        /\ NoneAwaited(up, Awaited(server)) \/ Late(Ack, Awaited(server)) = 0
    BY <1>1, <1>3 DEF Waits
  <2>2. QED
    BY <1>0, <1>1, <1>2, <2>1, AcksAppend
<1>5. Ahead => NoneAwaited(Append(up, Ack), server.block)
  BY <1>0, <1>1, <1>3, NoneAwaitedAppend
<1>6. QED
  BY <1>4, <1>5

LEMMA StepReceive == TypeInv /\ TransferInv /\ MaxFaults < Wrap /\ ClientReceive => TransferInv'
<1> SUFFICES ASSUME TypeInv, TransferInv, MaxFaults < Wrap, ClientReceive
             PROVE  TransferInv'
  OBVIOUS
<1>0. /\ server \in Servers /\ client \in Clients /\ client.taken \in Nat
      /\ down \in Seq(ToClient) /\ up \in Seq(ToServer)
      /\ faults \in Nat /\ faults < Wrap
  BY TftpAssumption DEF TypeInv, TypeOK, Servers, Clients
<1>1. /\ down # <<>> /\ down' = Tail(down) /\ UNCHANGED <<server, faults>>
      /\ InFlight(down, client.taken, faults)
  BY DEF ClientReceive, TransferInv
<1>2. PICK m \in ToClient : m = Head(down)
  BY <1>0, <1>1, TailTyped
<1>3. Known(m, client.taken, faults)
  BY <1>0, <1>1, <1>2, InFlightTail
<1>4. InFlight(down', client.taken, faults)
  BY <1>0, <1>1, InFlightTail
\* While nothing has gone wrong, that was all there was.
<1>5. ASSUME NEW a \in ToServer, up' = Append(up, a)
      PROVE  Calm(down', up', faults')
  <2>1. faults = 0 => /\ Len(down) = 1
                      /\ \A i \in 1..Len(up) : up[i].op # "ACK"
    <3>1. Calm(down, up, faults)
      BY DEF TransferInv
    <3>2. Len(down) \in Nat /\ (Len(down) = 0 => down = <<>>)
      BY <1>0
    <3>3. faults = 0 => Len(down) <= 1
      BY <3>1 DEF Calm
    <3>4. faults = 0 => \A i \in 1..Len(up) : up[i].op = "ACK" => down = <<>>
      BY <3>1 DEF Calm
    <3>5. down # <<>>
      BY <1>1
    <3>6. faults = 0 => Len(down) = 1
      BY <3>2, <3>3, <3>5
    <3>7. faults = 0 => \A i \in 1..Len(up) : up[i].op # "ACK"
      BY <3>4, <3>5
    <3>8. QED
      BY <3>6, <3>7
  <2>2. faults = 0 => down' = <<>>
    BY <1>0, <1>1, <2>1
  <2>3. PICK r : r = Append(up, a)
    OBVIOUS
  <2>4. /\ Len(r) = Len(up) + 1
        /\ \A i \in 1..Len(up) : r[i] = up[i]
    BY <1>0, <2>3
  <2>5. faults = 0 => \A i \in 1..Len(r) : r[i].op = "ACK" => i = Len(r)
    BY <1>0, <2>1, <2>4
  <2>6. QED
    BY <1>1, <1>5, <2>2, <2>3, <2>5 DEF Calm
<1>6. CASE UNCHANGED <<client, up>>
  <2>1. Calm(down', up', faults')
    BY <1>0, <1>1, <1>6 DEF TransferInv, Calm
  <2>2. Level => NoneNew(down', client.taken)
    BY <1>0, <1>1 DEF Level, NoneNew
  <2>3. /\ Holds' /\ SentMeansReceived'
        /\ server'.at \in Waiting =>
              /\ server.at \in Waiting /\ Awaited(server)' = Awaited(server)
              /\ Ahead /\ NoneAwaited(up', server.block) => Ahead'
              /\ Level /\ NoneNew(down', client.taken) => Level'
    BY <1>1, <1>6, SameServer
  <2>4. server'.at \in Waiting => Waits'
    BY <1>1, <1>6, <2>2, <2>3 DEF TransferInv, Waits, Ahead
  <2>5. QED
    BY <1>1, <1>4, <1>6, <2>1, <2>3, <2>4 DEF TransferInv
\* It has this already.
<1>7. CASE /\ up' = Append(up, Ack)
           /\ client' = [client EXCEPT !.at = IF @ = "asking" THEN "reading" ELSE @]
  <2>1. /\ client'.taken = client.taken /\ client'.size = client.size
        /\ client'.intact = client.intact
        /\ client'.at = IF client.at = "asking" THEN "reading" ELSE client.at
    BY <1>0, <1>7 DEF Clients
  <2>2. Ack \in ToServer
    BY <1>0, BlockAfter DEF Ack, ToServer, Clients
  <2>3. Calm(down', up', faults')
    BY <1>5, <1>7, <2>2
  <2>4. Holds' /\ SentMeansReceived'
    BY <1>1, <2>1 DEF TransferInv, Holds, SentMeansReceived
  <2>5. server.at \in Waiting => Waits'
    <3> SUFFICES ASSUME server.at \in Waiting
                 PROVE  Waits'
      OBVIOUS
    <3>1. Waits
      BY DEF TransferInv
    <3>2. /\ AcksInFlight(up', Awaited(server), faults)
          /\ Ahead => NoneAwaited(up', server.block)
      BY <1>0, <1>7, <3>1, AckSent
    <3>3. Level => NoneNew(down', client.taken)
      BY <1>0, <1>1 DEF Level, NoneNew
    <3>4. Ahead => Ahead'
      BY <1>1, <2>1, <3>2 DEF Ahead
    <3>5. Level => Level'
      BY <1>1, <2>1, <3>3 DEF Level
    <3>6. QED
      BY <1>1, <3>1, <3>2, <3>4, <3>5 DEF Waits, Awaited
  <2>6. QED
    BY <1>1, <1>4, <2>1, <2>3, <2>4, <2>5 DEF TransferInv
\* It takes the next block.
<1>8. CASE /\ m.op = "DATA" /\ m.block = (client.taken + 1) % Wrap
           /\ client.at \notin {"off", "done"}
           /\ up' = Append(up, Ack')
           /\ client' = [client EXCEPT
                  !.at = IF m.end - m.first < BlockSize THEN "done" ELSE "reading",
                  !.taken = @ + 1,
                  !.size = m.end,
                  !.intact = @ /\ m.first = client.size]
  <2>1. PICK n \in Nat : n = client.taken
    BY <1>0
  <2>2. Behind(m, n) = 0 /\ m.first = Off(n + 1) /\ m.end = EndOf(Off(n + 1))
    <3>1. Behind(m, n) = 0
      BY <1>8, <2>1, BehindSteps
    <3>2. n + 1 - 0 = n + 1
      OBVIOUS
    <3>3. QED
      BY <1>3, <1>8, <2>1, <3>1, <3>2 DEF Known
  <2>3. client.size = Off(n + 1) /\ client.intact
    <3>1. CASE n = 0
      <4>1. Off(n + 1) = 0
        BY <3>1, TftpAssumption DEF Off
      <4>2. QED
        BY <2>1, <3>1, <4>1 DEF TransferInv, Holds
    <3>2. CASE n > 0
      <4>1. ~Last(Off(n)) /\ client.size = EndOf(Off(n)) /\ client.intact
        BY <1>8, <2>1, <3>2 DEF TransferInv, Holds
      <4>2. QED
        BY <4>1, OffNext, EndIs
    <3>3. QED
      BY <3>1, <3>2
  <2>4. PICK at \in {"done", "reading"} :
           at = IF m.end - m.first < BlockSize THEN "done" ELSE "reading"
    OBVIOUS
  <2>5. client' = [client EXCEPT !.at = at, !.taken = @ + 1,
                                 !.size = m.end, !.intact = TRUE]
    <3>1. (client.intact /\ m.first = client.size) = TRUE
      BY <2>2, <2>3
    <3>2. QED
      BY <1>8, <2>4, <3>1
  <2>6. client' = [at |-> at, taken |-> n + 1, size |-> m.end, intact |-> TRUE,
                   port |-> client.port]
    BY <1>0, <2>1, <2>5, TakesWith
  <2>7. /\ client'.taken = n + 1 /\ client'.size = EndOf(Off(n + 1))
        /\ client'.intact /\ client'.at = at
    BY <2>2, <2>6
  <2>8. Last(Off(n + 1)) <=> at = "done"
    BY <2>2, <2>4 DEF Last
  <2>9. Holds'
    <3>1. n + 1 > 0 /\ n + 1 # 0
      BY <2>1
    <3>2. at # "asking"
      OBVIOUS
    <3>3. QED
      BY <2>7, <2>8, <3>1, <3>2 DEF Holds
  <2>10. InFlight(down', n + 1, faults) /\ NoneNew(down', n + 1)
    BY <1>0, <1>1, <1>2, <2>1, <2>2, InFlightNext
  <2>11. Ack' \in ToServer /\ Ack'.op = "ACK" /\ Ack'.block = (n + 1) % Wrap
    <3>1. (n + 1) % Wrap \in Blocks
      <4>1. n + 1 \in Nat
        OBVIOUS
      <4>2. QED
        BY <4>1, BlockAfter
    <3>2. client.port \in Ports
      BY <1>0 DEF Clients
    <3>3. Ack' = [op |-> "ACK", from |-> client.port, block |-> (n + 1) % Wrap]
      BY <2>6 DEF Ack
    <3>4. QED
      BY <3>1, <3>2, <3>3 DEF ToServer
  <2>12. Calm(down', up', faults')
    BY <1>5, <1>8, <2>11
  <2>13. SentMeansReceived'
    BY <1>1, <1>8, <2>7 DEF TransferInv, SentMeansReceived
  <2>14. server.at \in Waiting => Waits'
    <3> SUFFICES ASSUME server.at \in Waiting
                 PROVE  Waits'
      OBVIOUS
    <3>1. Waits
      BY DEF TransferInv
    <3>2. ~Level
      <4>1. 1 \in 1..Len(down) /\ down[1] = m
        BY <1>0, <1>1, <1>2
      <4>2. QED
        BY <2>1, <2>2, <4>1 DEF Level, NoneNew
    <3>3. Ahead
      BY <3>1, <3>2 DEF Waits
    <3>4. /\ server.at = "data" /\ server.block = (n + 1) % Wrap
          /\ server.sent = Off(n + 1) /\ Awaited(server) = server.block
          /\ Awaited(server)' = server.block
      BY <1>1, <2>1, <3>3 DEF Ahead, Awaited
    <3>5. Level'
      BY <1>1, <2>7, <2>10, <3>4 DEF Level
    <3>6. Late(Ack', server.block) = 0
      <4>1. server.block \in Blocks
        BY <1>0 DEF Servers
      <4>2. QED
        BY <2>11, <3>4, <4>1, LateTyped
    <3>7. AcksInFlight(up', server.block, faults)
      <4>1. PICK a \in ToServer : a = Ack'
        BY <2>11
      <4>2. Late(a, server.block) = 0 /\ up' = Append(up, a)
        BY <1>8, <3>6, <4>1
      <4>3. AcksInFlight(up, server.block, faults)
        BY <3>1, <3>4 DEF Waits
      <4>4. QED
        BY <1>0, <4>2, <4>3, AcksAppend
    <3>8. QED
      BY <1>1, <3>4, <3>5, <3>7 DEF Waits
  <2>15. QED
    BY <1>1, <2>7, <2>9, <2>10, <2>12, <2>13, <2>14 DEF TransferInv
<1>9. QED
  BY <1>2, <1>6, <1>7, <1>8 DEF ClientReceive, Delivered

LEMMA StepMoves == TypeInv /\ TransferInv /\ ClientMoves => TransferInv'
<1> SUFFICES ASSUME TypeInv, TransferInv, ClientMoves
             PROVE  TransferInv'
  OBVIOUS
<1>0. /\ server \in Servers /\ client \in Clients /\ client.taken \in Nat
      /\ down \in Seq(ToClient) /\ up \in Seq(ToServer) /\ faults \in Nat
  BY TftpAssumption DEF TypeInv, TypeOK, Servers, Clients
<1>1. /\ UNCHANGED <<server, down>> /\ faults' = faults + 1
      /\ client' = [client EXCEPT !.port = 2] /\ up' = Append(up, Ack')
      /\ client.at = "reading"
  BY DEF ClientMoves, Fault
<1>2. /\ client'.taken = client.taken /\ client'.size = client.size
      /\ client'.intact = client.intact /\ client'.at = client.at /\ client'.port = 2
  BY <1>0, <1>1 DEF Clients
<1>3. PICK c \in Blocks : c = client.taken % Wrap
  BY <1>0, BlockAfter
<1>4. PICK a \in ToServer : a = Ack'
  <2>1. Ack' = [op |-> "ACK", from |-> 2, block |-> c]
    BY <1>2, <1>3 DEF Ack
  <2>2. QED
    BY <2>1 DEF ToServer, Ports
<1>5. a.op = "ACK" /\ a.block = c
  BY <1>2, <1>3, <1>4 DEF Ack
<1>6. InFlight(down', client'.taken, faults')
  BY <1>0, <1>1, <1>2, InFlightMore DEF TransferInv
<1>7. Calm(down', up', faults')
  BY <1>0, <1>1 DEF Calm
<1>8. Holds' /\ SentMeansReceived'
  BY <1>1, <1>2 DEF TransferInv, Holds, SentMeansReceived
<1>9. server.at \in Waiting => Waits'
  <2> SUFFICES ASSUME server.at \in Waiting
               PROVE  Waits'
    OBVIOUS
  <2>1. Waits
    BY DEF TransferInv
  <2>2. /\ Awaited(server) \in Blocks
        /\ Ahead => Late(Ack, Awaited(server)) = 1
        /\ Level => Late(Ack, Awaited(server)) = 0
    BY <2>1, AckFits DEF Waits
  <2>3. Late(a, Awaited(server)) = Late(Ack, Awaited(server))
    BY <1>3, <1>5 DEF Late, Ack
  <2>4. Ahead => NoneAwaited(up, Awaited(server)) /\ Awaited(server) = server.block
    BY DEF Ahead, Awaited
  <2>5. AcksInFlight(up, Awaited(server), faults + 1)
    BY <1>0, <2>1, <2>2, AcksMore DEF Waits
  <2>6. up' = Append(up, a)
    BY <1>1, <1>4
  <2>7. AcksInFlight(up', Awaited(server), faults + 1)
    <3>1. /\ Late(a, Awaited(server)) <= 1
          /\ NoneAwaited(up, Awaited(server)) \/ Late(a, Awaited(server)) = 0
      BY <2>1, <2>2, <2>3, <2>4 DEF Waits
    <3>2. QED
      BY <1>0, <2>5, <2>6, <3>1, AcksAppend
  <2>8. Ahead => NoneAwaited(up', server.block)
    BY <1>0, <2>2, <2>3, <2>4, <2>6, NoneAwaitedAppend
  <2>9. Ahead => Ahead'
    BY <1>1, <1>2, <2>8 DEF Ahead
  <2>10. Level => Level'
    BY <1>1, <1>2 DEF Level
  <2>11. QED
    BY <1>1, <2>1, <2>7, <2>9, <2>10 DEF Waits, Awaited
<1>10. QED
  BY <1>1, <1>6, <1>7, <1>8, <1>9 DEF TransferInv

(* A datagram that acknowledges nothing disturbs nothing.                  *)
LEMMA NoAck ==
    ASSUME NEW q \in Seq(ToServer), NEW m \in ToServer, m.op # "ACK",
           NEW d, NEW a, NEW f
    PROVE  /\ Calm(d, q, f) => Calm(d, Append(q, m), f)
           /\ AcksInFlight(q, a, f) => AcksInFlight(Append(q, m), a, f)
           /\ NoneAwaited(q, a) => NoneAwaited(Append(q, m), a)
<1>1. PICK r : r = Append(q, m)
  OBVIOUS
<1>2. /\ Len(r) = Len(q) + 1 /\ r[Len(q) + 1] = m
      /\ \A i \in 1..Len(q) : r[i] = q[i]
  BY <1>1
<1>3. \A i \in 1..Len(r) : r[i].op = "ACK" => i \in 1..Len(q) /\ r[i] = q[i]
  BY <1>2
<1>4. Calm(d, q, f) => Calm(d, Append(q, m), f)
  BY <1>1, <1>3 DEF Calm
<1>5. AcksInFlight(q, a, f) => AcksInFlight(Append(q, m), a, f)
  BY <1>1, <1>3 DEF AcksInFlight
<1>6. NoneAwaited(q, a) => NoneAwaited(Append(q, m), a)
  BY <1>1, <1>3 DEF NoneAwaited
<1>7. QED
  BY <1>4, <1>5, <1>6

LEMMA StepStops == TypeInv /\ TransferInv /\ ClientStops => TransferInv'
<1> SUFFICES ASSUME TypeInv, TransferInv, ClientStops
             PROVE  TransferInv'
  OBVIOUS
<1>0. client \in Clients /\ up \in Seq(ToServer)
  BY DEF TypeInv, TypeOK, Clients
<1>1. /\ UNCHANGED <<server, down, faults>> /\ client' = [client EXCEPT !.at = "off"]
  BY DEF ClientStops
<1>2. /\ client'.taken = client.taken /\ client'.size = client.size
      /\ client'.intact = client.intact /\ client'.at = "off"
  BY <1>0, <1>1 DEF Clients
<1>3. PICK m \in ToServer : m = [op |-> "ERROR", from |-> client.port]
  BY <1>0 DEF Clients, ToServer
<1>4. up' = up \/ up' = Append(up, m)
  BY <1>3 DEF ClientStops
<1>5. /\ Calm(down, up, faults) => Calm(down, up', faults)
      /\ AcksInFlight(up, Awaited(server), faults)
            => AcksInFlight(up', Awaited(server), faults)
      /\ NoneAwaited(up, server.block) => NoneAwaited(up', server.block)
  <2>1. m.op # "ACK"
    BY <1>3
  <2>2. QED
    BY <1>0, <1>4, <2>1, NoAck
<1>6. Holds' /\ SentMeansReceived'
  BY <1>1, <1>2 DEF TransferInv, Holds, SentMeansReceived
<1>7. /\ Ahead => Ahead'
      /\ Level => Level'
  BY <1>1, <1>2, <1>5 DEF Ahead, Level
<1>8. QED
  BY <1>1, <1>2, <1>5, <1>6, <1>7 DEF TransferInv, Waits, Awaited

----------------------------------------------------------------------------
(* The network's steps                                                     *)

(* One more fault, and neither side any wiser.                             *)
LEMMA FaultKeeps ==
    ASSUME TypeInv, TransferInv, UNCHANGED <<server, client>>, faults' = faults + 1,
           InFlight(down', client.taken, faults + 1),
           server.at \in Waiting => AcksInFlight(up', Awaited(server), faults + 1),
           NoneAwaited(up, server.block) => NoneAwaited(up', server.block),
           NoneNew(down, client.taken) => NoneNew(down', client.taken)
    PROVE  TransferInv'
<1>1. faults \in Nat
  BY TftpAssumption DEF TypeInv, TypeOK
<1>2. Calm(down', up', faults')
  BY <1>1 DEF Calm
<1>3. Holds' /\ SentMeansReceived'
  BY DEF TransferInv, Holds, SentMeansReceived
<1>4. (Ahead => Ahead') /\ (Level => Level')
  BY DEF Ahead, Level
<1>5. QED
  BY <1>2, <1>3, <1>4 DEF TransferInv, Waits, Awaited

LEMMA StepLose == TypeInv /\ TransferInv /\ Lose => TransferInv'
<1> SUFFICES ASSUME TypeInv, TransferInv, Lose
             PROVE  TransferInv'
  OBVIOUS
<1>0. /\ client.taken \in Nat /\ down \in Seq(ToClient) /\ up \in Seq(ToServer)
      /\ faults \in Nat
  BY TftpAssumption DEF TypeInv, TypeOK
<1>1. /\ UNCHANGED <<server, client>> /\ faults' = faults + 1
      /\ (down # <<>> /\ down' = Tail(down) /\ up' = up)
         \/ (up # <<>> /\ up' = Tail(up) /\ down' = down)
  BY DEF Lose, Fault
<1>2. InFlight(down, client.taken, faults + 1)
  BY <1>0, InFlightMore DEF TransferInv
<1>3. server.at \in Waiting => AcksInFlight(up, Awaited(server), faults + 1)
  <2>1. server.at \in Waiting => Awaited(server) \in Blocks
    BY AckFits DEF TransferInv, Waits
  <2>2. QED
    BY <1>0, <2>1, AcksMore DEF TransferInv, Waits
<1>4. CASE down # <<>> /\ down' = Tail(down) /\ up' = up
  <2>1. InFlight(down', client.taken, faults + 1)
    BY <1>0, <1>2, <1>4, InFlightTail
  <2>2. NoneNew(down, client.taken) => NoneNew(down', client.taken)
    BY <1>0, <1>4 DEF NoneNew
  <2>3. QED
    BY <1>1, <1>3, <1>4, <2>1, <2>2, FaultKeeps
<1>5. CASE up # <<>> /\ up' = Tail(up) /\ down' = down
  <2>1. server.at \in Waiting => AcksInFlight(up', Awaited(server), faults + 1)
    BY <1>0, <1>3, <1>5, AcksTail
  <2>2. NoneAwaited(up, server.block) => NoneAwaited(up', server.block)
    BY <1>0, <1>5, NoneAwaitedTail
  <2>3. QED
    BY <1>1, <1>2, <1>5, <2>1, <2>2, FaultKeeps
<1>6. QED
  BY <1>1, <1>4, <1>5

LEMMA StepDuplicate == TypeInv /\ TransferInv /\ Duplicate => TransferInv'
<1> SUFFICES ASSUME TypeInv, TransferInv, Duplicate
             PROVE  TransferInv'
  OBVIOUS
<1>0. /\ client.taken \in Nat /\ down \in Seq(ToClient) /\ up \in Seq(ToServer)
      /\ faults \in Nat
  BY TftpAssumption DEF TypeInv, TypeOK
<1>1. /\ UNCHANGED <<server, client>> /\ faults' = faults + 1
      /\ (down # <<>> /\ down' = Append(down, Head(down)) /\ up' = up)
         \/ (up # <<>> /\ up' = Append(up, Head(up)) /\ down' = down)
  BY DEF Duplicate, Fault
<1>2. InFlight(down, client.taken, faults + 1)
  BY <1>0, InFlightMore DEF TransferInv
<1>b. server.at \in Waiting => Awaited(server) \in Blocks
  BY AckFits DEF TransferInv, Waits
<1>3. server.at \in Waiting => AcksInFlight(up, Awaited(server), faults + 1)
  BY <1>0, <1>b, AcksMore DEF TransferInv, Waits
<1>4. CASE down # <<>> /\ down' = Append(down, Head(down)) /\ up' = up
  <2>1. PICK m \in ToClient : m = Head(down)
    BY <1>0, <1>4, TailTyped
  <2>2. Known(m, client.taken, faults + 1) /\ Known(m, client.taken, faults)
    BY <1>0, <1>2, <1>4, <2>1, InFlightTail DEF TransferInv
  <2>3. \/ NoneNew(down, client.taken)
        \/ Behind(m, client.taken) = 0
        \/ Behind(m, client.taken) <= (faults + 1) - 1
    <3>1. Behind(m, client.taken) \in Nat
      BY <1>0, BehindSteps
    <3>2. CASE faults = 0
      <4>1. Len(down) <= 1 /\ down[1] = m
        BY <1>0, <1>4, <2>1, <3>2 DEF TransferInv, Calm
      <4>2. QED
        BY <1>0, <4>1 DEF NoneNew
    <3>3. CASE faults # 0
      BY <1>0, <2>2, <3>1, <3>3 DEF Known
    <3>4. QED
      BY <3>2, <3>3
  <2>4. InFlight(down', client.taken, faults + 1)
    BY <1>0, <1>2, <1>4, <2>1, <2>2, <2>3, InFlightAppend
  <2>5. NoneNew(down, client.taken) => NoneNew(down', client.taken)
    <3>1. NoneNew(down, client.taken) => Behind(m, client.taken) # 0
      <4>1. 1 \in 1..Len(down) /\ down[1] = m
        BY <1>0, <1>4, <2>1
      <4>2. QED
        BY <4>1 DEF NoneNew
    <3>2. QED
      BY <1>0, <1>4, <2>1, <3>1, NoneNewAppend
  <2>6. QED
    BY <1>1, <1>3, <1>4, <2>4, <2>5, FaultKeeps
<1>5. CASE up # <<>> /\ up' = Append(up, Head(up)) /\ down' = down
  <2>1. PICK m \in ToServer : m = Head(up)
    BY <1>0, <1>5, TailTyped
  <2>2. 1 \in 1..Len(up) /\ up[1] = m
    BY <1>0, <1>5, <2>1
  <2>3. server.at \in Waiting => AcksInFlight(up', Awaited(server), faults + 1)
    <3> SUFFICES ASSUME server.at \in Waiting
                 PROVE  AcksInFlight(up', Awaited(server), faults + 1)
      OBVIOUS
    <3>1. PICK a \in Blocks : a = Awaited(server)
      BY <1>b
    <3>2. AcksInFlight(up, a, faults) /\ AcksInFlight(up, a, faults + 1)
      BY <1>3, <3>1 DEF TransferInv, Waits
    <3>3. ASSUME m.op = "ACK"
          PROVE  /\ Late(m, a) <= 1 \/ Late(m, a) <= faults + 1
                 /\ NoneAwaited(up, a) \/ Late(m, a) = 0 \/ Late(m, a) <= (faults + 1) - 1
      <4>1. Late(m, a) \in Nat
        BY <3>3, LateTyped
      <4>2. Late(m, a) <= 1 \/ Late(m, a) <= faults
        BY <2>2, <3>2, <3>3 DEF AcksInFlight
      <4>3. CASE faults = 0
        <5>1. \A j \in 1..Len(up) : up[j].op = "ACK" => j = 1
          BY <2>2, <3>3, <4>3 DEF TransferInv, Calm
        <5>2. NoneAwaited(up, a) \/ Late(m, a) = 0
          BY <2>2, <5>1 DEF NoneAwaited
        <5>3. QED
          BY <1>0, <4>1, <4>2, <5>2
      <4>4. CASE faults # 0
        BY <1>0, <4>1, <4>2, <4>4
      <4>5. QED
        BY <4>3, <4>4
    <3>4. QED
      BY <1>0, <1>5, <2>1, <3>1, <3>2, <3>3, AcksAppend
  <2>4. NoneAwaited(up, server.block) => NoneAwaited(up', server.block)
    <3>1. NoneAwaited(up, server.block) /\ m.op = "ACK" => Late(m, server.block) # 0
      BY <2>2 DEF NoneAwaited
    <3>2. QED
      BY <1>0, <1>5, <2>1, <3>1, NoneAwaitedAppend
  <2>5. QED
    BY <1>1, <1>2, <1>5, <2>3, <2>4, FaultKeeps
<1>6. QED
  BY <1>1, <1>4, <1>5

LEMMA StepStray == TypeInv /\ TransferInv /\ Stray => TransferInv'
<1> SUFFICES ASSUME TypeInv, TransferInv, Stray
             PROVE  TransferInv'
  OBVIOUS
<1>0. /\ client.taken \in Nat /\ down \in Seq(ToClient) /\ up \in Seq(ToServer)
      /\ faults \in Nat
  BY TftpAssumption DEF TypeInv, TypeOK
<1>1. PICK m \in ToServer : m = [op |-> "STRAY", from |-> 1]
  BY DEF ToServer, Ports
<1>2. /\ UNCHANGED <<server, client, down>> /\ faults' = faults + 1
      /\ up' = Append(up, m) /\ m.op # "ACK"
  BY <1>1 DEF Stray, Fault
<1>3. InFlight(down', client.taken, faults + 1)
  BY <1>0, <1>2, InFlightMore DEF TransferInv
<1>4. server.at \in Waiting => AcksInFlight(up', Awaited(server), faults + 1)
  <2>1. server.at \in Waiting => Awaited(server) \in Blocks
    BY AckFits DEF TransferInv, Waits
  <2>2. server.at \in Waiting => AcksInFlight(up, Awaited(server), faults + 1)
    BY <1>0, <2>1, AcksMore DEF TransferInv, Waits
  <2>3. QED
    BY <1>0, <1>2, <2>2, NoAck
<1>5. NoneAwaited(up, server.block) => NoneAwaited(up', server.block)
  BY <1>0, <1>2, NoAck
<1>6. QED
  BY <1>2, <1>3, <1>4, <1>5, FaultKeeps

----------------------------------------------------------------------------

LEMMA TransferStep ==
    TypeInv /\ TransferInv /\ MaxFaults < Wrap /\ [Next]_vars => TransferInv'
<1> SUFFICES ASSUME TypeInv, TransferInv, MaxFaults < Wrap, [Next]_vars
             PROVE  TransferInv'
  OBVIOUS
<1>1. CASE UNCHANGED vars
  BY <1>1 DEF vars, TransferInv, Waits, Ahead, Level, Holds, SentMeansReceived, Awaited
<1>2. CASE Next
  BY <1>2, StepAck, StepTurn, StepEnd, StepRetry, StepAbort, StepReceive,
     StepMoves, StepStops, StepLose, StepDuplicate, StepStray
  DEF Next, Server
<1>3. QED
  BY <1>1, <1>2

(* What the server logs as sent the client has, whole and in order, as     *)
(* long as fewer things go wrong on the network while it lasts than there  *)
(* are block numbers: one packet more that is repeated or late, and its    *)
(* number could come round again before it arrives.                        *)
THEOREM SentMeansReceivedAlways ==
    ASSUME MaxFaults < Wrap
    PROVE  Spec => []SentMeansReceived
<1>1. Init => TypeInv /\ TransferInv
  BY TypeInit, TransferInit
<1>2. TypeInv /\ TransferInv /\ [Next]_vars => (TypeInv /\ TransferInv)'
  BY TypeStep, TransferStep
<1>3. TypeInv /\ TransferInv => SentMeansReceived
  BY DEF TransferInv
<1>4. QED
  BY <1>1, <1>2, <1>3, PTL DEF Spec
=============================================================================
