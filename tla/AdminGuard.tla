---------------------------- MODULE AdminGuard -----------------------------
(***************************************************************************)
(* The guarded writes of the admin API (guarded in src/src/admin.rs): read *)
(* the problems, remember the document, write, read the problems again,    *)
(* and put the document back if the write introduced any.                  *)
(*                                                                         *)
(* Several requests may be inside guarded at once, each on its own worker  *)
(* thread, with no lock between them.  The store is the database, the only *)
(* one Config::validate lets the admin API run over: a statement commits   *)
(* or changes nothing.  Hands outside the process edit the same database,  *)
(* a read or a write of it may fail, and the process may be killed.        *)
(*                                                                         *)
(* Answers::listing is here what the module Answers shows of it            *)
(* (OwedIsServed): a call returns what the store held at some moment, none *)
(* older than the last write of the server's own, whose revision it bumps, *)
(* and none older than the last invalidate, before the call.               *)
(***************************************************************************)
EXTENDS AnswerSet, Sequences

CONSTANTS
    Clients,      \* admin requests that may be in guarded at once
    MaxRequests,  \* bound: requests made
    MaxEdits,     \* bound: edits by hands outside the process
    MaxFaults     \* bound: failed reads and writes, and crashes

ASSUME AdminGuardAssumption ==
    MaxRequests \in Nat /\ MaxEdits \in Nat /\ MaxFaults \in Nat

VARIABLES
    held,      \* what the store has held, the last what it holds now
    promised,  \* where in held Answers::listing may start
    req,       \* each client's request
    made,      \* requests made
    edits,     \* outside edits made
    faults     \* faults so far

vars == <<held, promised, req, made, edits, faults>>

Steps == {"idle", "asked", "before", "previous", "apply", "applied", "after",
          "restore"}
Replies == {"none", "error", "not_found", "kept", "unjudged", "refused",
            "not_restored"}

store == held[Len(held)]

InGuard(c) == req[c].at # "idle"

\* What problems() may report.
Reports == {Problems(d) : d \in DocSets}

Requests ==
    [at: {"idle"}, reply: Replies]
        \cup
    [at: Steps \ {"idle"}, reply: {"none"}, key: Keys, body: WellFormed \cup {Absent},
     before: Reports \cup {{}}, previous: Documents \cup {Absent, None},
     start: DocSets, alone: BOOLEAN]

TypeOK ==
    /\ held \in Seq(DocSets)
    /\ promised \in 1..Len(held)
    /\ req \in [Clients -> Requests]
    /\ \A c \in Clients :
          req[c].at \in {"apply", "applied", "after", "restore"} =>
             req[c].previous \in Documents \cup {Absent}
    /\ made \in 0..MaxRequests
    /\ edits \in 0..MaxEdits
    /\ faults \in 0..MaxFaults

Resting == [at |-> "idle", reply |-> "none"]

Init ==
    /\ \E d \in DocSets : held = <<d>>
    /\ promised = 1
    /\ req = [c \in Clients |-> Resting]
    /\ made = 0
    /\ edits = 0
    /\ faults = 0

----------------------------------------------------------------------------
\* The request goes on to its next step, or is answered.  (Until it has read
\* what was there before, its previous is None.)
Goes(c, step) == req' = [req EXCEPT ![c].at = step]
Answered(c, reply) == req' = [req EXCEPT ![c] = [at |-> "idle", reply |-> reply]]

Fault == faults < MaxFaults /\ faults' = faults + 1

\* The store changes by another's hand than c's (Nobody's: an outside edit).
Holds(d) == held' = Append(held, d)
NotAlone(r) == IF r.at = "idle" THEN r ELSE [r EXCEPT !.alone = FALSE]

\* A put, or a delete, by client c, which then goes on as r: the statement and
\* the bump of the revision.  (A listing from before the statement that is
\* returned between the two might as well have been returned before them.)
Writes(c, doc, r) ==
    /\ Holds([store EXCEPT ![req[c].key] = doc])
    /\ promised' = Len(held')
    /\ req' = [o \in Clients |-> IF o = c THEN r ELSE NotAlone(req[o])]

\* A put or a delete passes put's checks: a body, if any, parses.
Ask(c, k, b) ==
    /\ ~InGuard(c)
    /\ made < MaxRequests
    /\ made' = made + 1
    /\ req' = [req EXCEPT ![c] =
                 [at |-> "asked", reply |-> "none", key |-> k, body |-> b,
                  before |-> {}, previous |-> None, start |-> store, alone |-> TRUE]]
    /\ UNCHANGED <<held, promised, edits, faults>>

\* A change of InvalidateBefore: the first read may come from the cache.
InvalidateBeforeSkipped(c) ==
    /\ req[c].at = "asked"
    /\ Goes(c, "before")
    /\ UNCHANGED <<held, promised, made, edits, faults>>

InvalidateBefore(c) ==
    /\ req[c].at = "asked"
    /\ promised' = Len(held)
    /\ Goes(c, "before")
    /\ UNCHANGED <<held, made, edits, faults>>

\* let before = answers.problems()
ReadBefore(c) ==
    /\ req[c].at = "before"
    /\ \E n \in promised..Len(held) :
          req' = [req EXCEPT ![c].at = "previous", ![c].before = Problems(held[n])]
    /\ UNCHANGED <<held, promised, made, edits, faults>>

\* let previous = store.snapshot(), always from the store
ReadPrevious(c) ==
    /\ req[c].at = "previous"
    /\ req' = [req EXCEPT ![c].at = "apply", ![c].previous = store[req[c].key]]
    /\ UNCHANGED <<held, promised, made, edits, faults>>

\* Either read fails: nothing has been written, and the answer is a 500.
ReadFails(c) ==
    /\ req[c].at \in {"before", "previous"}
    /\ Fault
    /\ Answered(c, "error")
    /\ UNCHANGED <<held, promised, made, edits>>

\* A delete finds nothing to delete.
ApplyFindsNothing(c) ==
    /\ req[c].at = "apply"
    /\ req[c].body = Absent /\ store[req[c].key] = Absent
    /\ Answered(c, "not_found")
    /\ UNCHANGED <<held, promised, made, edits, faults>>

Apply(c) ==
    /\ req[c].at = "apply"
    /\ ~(req[c].body = Absent /\ store[req[c].key] = Absent)
    /\ Writes(c, req[c].body, [req[c] EXCEPT !.at = "applied"])
    /\ UNCHANGED <<made, edits, faults>>

\* The write fails, and changes nothing.
ApplyFails(c) ==
    /\ req[c].at = "apply"
    /\ Fault
    /\ Answered(c, "error")
    /\ UNCHANGED <<held, promised, made, edits>>

InvalidateAfter(c) ==
    /\ req[c].at = "applied"
    /\ promised' = Len(held)
    /\ Goes(c, "after")
    /\ UNCHANGED <<held, made, edits, faults>>

\* let after = answers.problems(), and the judgement of what it shows.
ReadAfter(c) ==
    /\ req[c].at = "after"
    /\ \E n \in promised..Len(held) :
          IF Problems(held[n]) \subseteq req[c].before
          THEN Answered(c, "kept")
          ELSE Goes(c, "restore")
    /\ UNCHANGED <<held, promised, made, edits, faults>>

\* unwrap_or_default: a failed read shows no problem, and the write is kept.
ReadAfterFails(c) ==
    /\ req[c].at = "after"
    /\ Fault
    /\ Answered(c, "unjudged")
    /\ UNCHANGED <<held, promised, made, edits>>

\* A change of Restore: the write is undone by deleting what it wrote.
RestoreDeletes(c) ==
    /\ req[c].at = "restore"
    /\ Writes(c, Absent, [at |-> "idle", reply |-> "refused"])
    /\ UNCHANGED <<made, edits, faults>>

\* What was there before is put back, or what was not is deleted.
Restore(c) ==
    /\ req[c].at = "restore"
    /\ Writes(c, req[c].previous, [at |-> "idle", reply |-> "refused"])
    /\ UNCHANGED <<made, edits, faults>>

\* Logged; the client is told the write was rolled back all the same.
RestoreFails(c) ==
    /\ req[c].at = "restore"
    /\ Fault
    /\ Answered(c, "not_restored")
    /\ UNCHANGED <<held, promised, made, edits>>

\* The process is killed and started again: the requests are gone, the
\* listing is read anew.
Crash ==
    /\ Fault
    /\ req' = [c \in Clients |-> Resting]
    /\ promised' = Len(held)
    /\ UNCHANGED <<held, made, edits>>

\* Another process's statement, which bumps nothing here, and which may write
\* a document that does not parse.
Edit(k, d) ==
    /\ edits < MaxEdits
    /\ edits' = edits + 1
    /\ store[k] # d
    /\ Holds([store EXCEPT ![k] = d])
    /\ req' = [c \in Clients |-> NotAlone(req[c])]
    /\ UNCHANGED <<promised, made, faults>>

Guarded(c) ==
    \/ InvalidateBefore(c) \/ ReadBefore(c) \/ ReadPrevious(c) \/ ReadFails(c)
    \/ Apply(c) \/ ApplyFindsNothing(c) \/ ApplyFails(c)
    \/ InvalidateAfter(c) \/ ReadAfter(c) \/ ReadAfterFails(c)
    \/ Restore(c) \/ RestoreFails(c)

Next ==
    \/ \E c \in Clients :
          \/ \E k \in Keys, b \in WellFormed \cup {Absent} : Ask(c, k, b)
          \/ Guarded(c)
    \/ Crash
    \/ \E k \in Keys, d \in Documents \cup {Absent} : Edit(k, d)

Spec == Init /\ [][Next]_vars

----------------------------------------------------------------------------
(* Properties.  What the guard promises of a write it promises while       *)
(* nobody else changes the store; the changes of others may come at any    *)
(* moment all the same, before the request and during it.                  *)

Answers(c, reply) == InGuard(c) /\ ~InGuard(c)' /\ req'[c].reply = reply

\* A write that is kept breaks no document that worked when it was asked for:
\* what the messages of the two reads tell apart is enough to notice every
\* document that resolve would now refuse, wherever in the chain of groups
\* the write did its damage, and neither read is a stale one.
KeptBreaksNothing ==
    [][\A c \in Clients :
          Answers(c, "kept") /\ req[c].alone
             => Failing(store') \subseteq Failing(req[c].start)]_vars

\* A refused write leaves the store as it found it.
RefusedIsUndone ==
    [][\A c \in Clients :
          Answers(c, "refused") /\ req[c].alone => store' = req[c].start]_vars

\* Only a write that itself introduces a problem is refused: the problems of
\* an edit made before it, which no version of the store shows, are not held
\* against it.
RefusalIsJust ==
    \A c \in Clients :
        req[c].at = "restore" /\ req[c].alone
           => ~(Problems([req[c].start EXCEPT ![req[c].key] = req[c].body])
                   \subseteq Problems(req[c].start))

\* "Undo, so the store is never left in a state that breaks installs": with
\* no faults and no outside edits, when no request is in the guard no document
\* fails that did not fail to begin with.
StoreNeverLeftBroken ==
    edits = 0 /\ faults = 0 /\ (\A c \in Clients : ~InGuard(c))
        => Failing(store) \subseteq Failing(held[1])

\* "... so `check` reports it and the admin API can refuse the write that
\* caused it": a kept write leaves no machine or default document that resolve
\* refuses, unless it refused the document there before.
KeptIsServable ==
    [][\A c \in Clients :
          Answers(c, "kept") /\ req[c].alone /\ req[c].key \in Failing(store')
             => req[c].key \in Failing(req[c].start)]_vars
=============================================================================
