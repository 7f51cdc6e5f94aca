------------------------------- MODULE Capture -------------------------------
(***************************************************************************)
(* Recording what machines send (src/capture.rs): `record` runs on the     *)
(* worker thread of the connection it belongs to, without an await, so at  *)
(* most Workers of them overlap and only the end of the process cuts one   *)
(* off. The counters are relaxed atomics, each read and changed on its own.*)
(*                                                                         *)
(* A capture's name is the second, the peer's host and a number that       *)
(* starts at 0 with every process; one host stands for them all, which is  *)
(* where names can meet. What a file holds is told by the life of the      *)
(* server that wrote it and the number of the capture in that life.        *)
(***************************************************************************)
EXTENDS Naturals, FiniteSets

CONSTANTS Conn,         \* connections; each records at most one request
          Workers,      \* cfg.workers, the threads `record` runs on
          MaxCaptures,  \* MAX_CAPTURES
          LastSecond,   \* bound: the seconds the model counts
          LastLife      \* bound: the restarts of the server

ASSUME CaptureConstants ==
    /\ {Workers, MaxCaptures} \subseteq Nat \ {0}
    /\ {LastSecond, LastLife} \subseteq Nat

VARIABLES second, life, started,  \* the clock, which process this is, and the
                                  \* second it started in
          seq, written,   \* the counters of Capture
          bodies, metas,          \* the files: names to the captures they hold
          recording,              \* where each connection is in `record`
          missed                  \* history: the most bodies that any restart
                                  \* left out of its count

captureVars == <<second, life, started, seq, written, bodies, metas,
                 recording, missed>>

-----------------------------------------------------------------------------
Off == [at |-> "off", stem |-> <<0, 0>>, n |-> 0]

Stem == (0..LastSecond) \X Nat

Recording == {c \in Conn : recording[c].at # "off"}

Move(c, at) == recording' = [recording EXCEPT ![c].at = at]

Write(files, r) == [s \in DOMAIN files \cup {r.stem} |->
                       IF s = r.stem THEN <<life, r.n>> ELSE files[s]]

-----------------------------------------------------------------------------
(* Capture::new over an empty directory.                                   *)
CaptureInit ==
    /\ second = 0 /\ life = 0 /\ started = 0
    /\ seq = 0 /\ written = 0
    /\ bodies = [s \in {} |-> <<0, 0>>] /\ metas = bodies
    /\ recording = [c \in Conn |-> Off] /\ missed = 0

(* A change of CaptureRestart: the count starts again with the process.    *)
CaptureForgets ==
    /\ life' = life + 1 /\ started' = second
    /\ seq' = 0 /\ written' = 0
    /\ recording' = [c \in Conn |-> Off]
    /\ UNCHANGED <<second, bodies, metas, missed>>

(* Capture::new over what an earlier life left: it counts the bodies. A    *)
(* directory that cannot be listed counts for none, an entry that cannot   *)
(* be read is passed over, and the server captures all the same.           *)
CaptureRestart ==
    /\ life' = life + 1 /\ started' = second
    /\ seq' = 0
    /\ \E unseen \in 0..Cardinality(DOMAIN bodies) :
          /\ written' = Cardinality(DOMAIN bodies) - unseen
          /\ missed' = IF unseen > missed THEN unseen ELSE missed
    /\ recording' = [c \in Conn |-> Off]
    /\ UNCHANGED <<second, bodies, metas>>

Record(c) ==
    /\ Cardinality(Recording) < Workers
    /\ Move(c, "load")
    /\ UNCHANGED <<second, life, started, seq, written, bodies, metas,
                   missed>>

(* The load, and the give-up at the cap (that it says so once is left out).*)
LoadWritten(c) ==
    /\ recording[c].at = "load"
    /\ IF written >= MaxCaptures
       THEN recording' = [recording EXCEPT ![c] = Off]
       ELSE Move(c, "count")
    /\ UNCHANGED <<second, life, started, seq, written, bodies, metas, missed>>

CountWritten(c) ==
    /\ recording[c].at = "count"
    /\ written' = written + 1
    /\ Move(c, "name")
    /\ UNCHANGED <<second, life, started, seq, bodies, metas, missed>>

(* A change of TakeNumber: the name has no number in it.                   *)
TakeNoNumber(c) ==
    /\ recording[c].at = "name"
    /\ recording' = [recording EXCEPT
                        ![c] = [at |-> "body", stem |-> <<second, 0>>, n |-> seq]]
    /\ seq' = seq + 1
    /\ UNCHANGED <<second, life, started, written, bodies, metas,
                   missed>>

(* The number, and the name with the time it has then.                     *)
TakeNumber(c) ==
    /\ recording[c].at = "name"
    /\ recording' = [recording EXCEPT
                        ![c] = [at |-> "body", stem |-> <<second, seq>>, n |-> seq]]
    /\ seq' = seq + 1
    /\ UNCHANGED <<second, life, started, written, bodies, metas,
                   missed>>

(* fs::write truncates what has the name. A body that cannot be written is *)
(* logged, still counted, and has no meta.                                 *)
WriteBody(c) ==
    /\ recording[c].at = "body"
    /\ \/ bodies' = Write(bodies, recording[c]) /\ Move(c, "meta")
       \/ recording' = [recording EXCEPT ![c] = Off] /\ UNCHANGED bodies
    /\ UNCHANGED <<second, life, started, seq, written, metas, missed>>

WriteMeta(c) ==
    /\ recording[c].at = "meta"
    /\ \/ metas' = Write(metas, recording[c])
       \/ UNCHANGED metas
    /\ recording' = [recording EXCEPT ![c] = Off]
    /\ UNCHANGED <<second, life, started, seq, written, bodies,
                   missed>>

RecordStep(c) == \/ LoadWritten(c) \/ CountWritten(c) \/ TakeNumber(c)
                 \/ WriteBody(c) \/ WriteMeta(c)

CaptureTick ==
    /\ second < LastSecond
    /\ second' = second + 1
    /\ UNCHANGED <<life, started, seq, written, bodies, metas, recording,
                   missed>>

-----------------------------------------------------------------------------
CaptureTypeOK ==
    /\ second \in 0..LastSecond /\ life \in 0..LastLife /\ started \in 0..second
    /\ {seq, written, missed} \subseteq Nat
    /\ DOMAIN metas \subseteq DOMAIN bodies
    /\ \A c \in Conn : recording[c].stem \in Stem

(* The directory passes its cap by no more than the records that overlap  *)
(* at the cap and the most bodies any one restart could not count: the     *)
(* count is loaded and added to in two steps, and is taken anew by each    *)
(* life. Where every restart can list the directory, that is the cap and   *)
(* the overlap, however many restarts there are; each listing that fails   *)
(* (`unwrap_or(0)`) lets a life fill the directory once more.              *)
CapturesBounded == Cardinality(DOMAIN bodies) < MaxCaptures + Workers + missed

(* "Nothing already written is ever deleted": no body goes, and one is     *)
(* replaced only in the one way the names allow, by a life that began in   *)
(* the very second the capture of an earlier one is named after.           *)
EvidenceKept ==
    [][\A stem \in DOMAIN bodies :
          /\ stem \in DOMAIN bodies'
          /\ bodies'[stem] # bodies[stem] =>
                /\ bodies[stem][1] # life
                /\ stem[1] = started]_captureVars

=============================================================================
