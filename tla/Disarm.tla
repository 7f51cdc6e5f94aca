------------------------------- MODULE Disarm -------------------------------
(***************************************************************************)
(* A machine reports that it is installed, and the documents that claim it *)
(* are moved out of its way: disarm in src/src/installed.rs, over either   *)
(* store.  Webhooks may arrive twice, also at the same time, each on its   *)
(* own blocking thread; an operator arms machines meanwhile, moving what   *)
(* was disarmed back or writing a new document; reads and writes fail, and *)
(* the process may be killed between any two steps.                        *)
(*                                                                         *)
(* Ids are the identities that claim the one machine which reports (its    *)
(* MAC's directory, its serial number's, ...), in the order of the         *)
(* listing.  Each has a place where its ipxe document claims the machine   *)
(* and one, under the prefix installed-, where it does not.  Over files a  *)
(* place is a directory, where the document has whatever stem an operator  *)
(* gave it; temporary files are never documents and are left out.          *)
(*                                                                         *)
(* Which documents claim the machine is read from the cached listing: what *)
(* Answers shows of it (BoundedStaleness) is that it shows each document   *)
(* as it was at some moment within the backstop, or misses one it could    *)
(* not read.                                                               *)
(*                                                                         *)
(* Not every failure is told: over files a directory that cannot be listed *)
(* to its end, or a document that cannot be read, is taken for one that is *)
(* not there. Such a step is of its own below (...Misses), and takes the   *)
(* identity out of what the webhooks it misleads must find.                *)
(***************************************************************************)
EXTENDS Integers, FiniteSets

CONSTANTS
    NumIds,      \* identities that claim the machine
    Bodies,      \* what a document may say
    Absent,      \* no document
    NumStems,    \* stems a document of a directory may have, in their order
    Canonical,   \* canonical_stem
    Hooks,       \* webhooks that may be in disarm at once
    MaxCalls,    \* bound: webhooks delivered
    MaxEdits,    \* bound: what the operator does
    MaxFaults    \* bound: failing reads, listings and writes, and crashes

Ids == 1..NumIds
Stems == 1..NumStems
Places == {"armed", "disarmed"}
Backends == {"file", "sqlite"}

ASSUME DisarmAssumption ==
    /\ NumIds \in Nat \ {0} /\ NumStems \in Nat /\ Canonical \in Stems
    /\ Absent \notin Bodies
    /\ MaxCalls \in Nat /\ MaxEdits \in Nat /\ MaxFaults \in Nat

VARIABLES
    backend,  \* which store is behind StoreWrite
    docs,     \* the documents, by identity, place and stem
    shown,    \* for each identity, whether a listing shows a claim: what it may say
    hook,     \* each webhook
    calls, edits, faults,  \* how many so far
    touched   \* history: identities the operator touched while a webhook was about

vars == <<backend, docs, shown, hook, calls, edits, faults, touched>>

Directories == [Stems -> Bodies \cup {Absent}]
Busy == {"next", "put", "rename", "delete", "unlink"}
Replies == {"none", "ok", "still_armed"}

\* A webhook at work: the claims it has not dealt with, the one it deals with,
\* the document it read there, the stem it writes or deletes, and, as history,
\* the claims it must find.
HooksAtWork ==
    [at: Busy, todo: SUBSET Ids, id: Ids, body: Bodies \cup {Absent}, stem: Stems,
     due: SUBSET Ids]

TypeOK ==
    /\ backend \in Backends
    /\ docs \in [Ids -> [Places -> Directories]]
    /\ shown \in [Ids -> SUBSET BOOLEAN]
    /\ hook \in [Hooks -> HooksAtWork \cup [at: {"idle"}, reply: Replies]]
    /\ \A h \in Hooks : hook[h].at \in {"put", "rename", "delete", "unlink"} =>
          hook[h].body # Absent /\ hook[h].id \in hook[h].todo
    /\ calls \in 0..MaxCalls /\ edits \in 0..MaxEdits /\ faults \in 0..MaxFaults
    /\ touched \in SUBSET Ids

----------------------------------------------------------------------------
(* What is in a directory *)

\* existing, and documents_in: the first stem of the format is the document.
Existing(dir) == {s \in Stems : dir[s] # Absent /\ \A r \in 1..(s - 1) : dir[r] = Absent}

Document(dir) == IF Existing(dir) = {} THEN Absent ELSE dir[CHOOSE s \in Existing(dir) : TRUE]

Claims(d, id) == Existing(d[id]["armed"]) # {}

AtMostOne(dir) == \A r, s \in Stems : dir[r] # Absent /\ dir[s] # Absent => r = s

Init ==
    /\ backend \in Backends
    /\ docs \in [Ids -> [Places -> {dir \in Directories :
                    /\ AtMostOne(dir)
                    /\ backend = "sqlite" => \A s \in Stems \ {Canonical} : dir[s] = Absent}]]
    /\ shown = [id \in Ids |-> {Claims(docs, id)}]
    /\ hook = [h \in Hooks |-> [at |-> "idle", reply |-> "none"]]
    /\ calls = 0 /\ edits = 0 /\ faults = 0
    /\ touched = {}

----------------------------------------------------------------------------
(* The steps of disarm *)

Working(h) == hook[h].at # "idle"
Fault == faults < MaxFaults /\ faults' = faults + 1

Goes(h, step) == hook' = [hook EXCEPT ![h].at = step]

\* Once nobody is at work what the operator did is past.
Replied(h, reply) ==
    /\ hook' = [hook EXCEPT ![h] = [at |-> "idle", reply |-> reply]]
    /\ touched' = IF \A o \in Hooks \ {h} : ~Working(o) THEN {} ELSE touched

\* The document changes; a listing may go on showing what was there before.
Writes(id, place, stem, doc) ==
    /\ docs' = [docs EXCEPT ![id][place][stem] = doc]
    /\ shown' = [shown EXCEPT ![id] = @ \cup {Claims(docs', id)}]

\* The webhook arrives, with the token; claiming is from the cached listing.
Claiming(h) ==
    /\ ~Working(h)
    /\ calls < MaxCalls
    /\ calls' = calls + 1
    /\ \E todo \in SUBSET Ids :
          /\ \A id \in Ids : (id \in todo) \in shown[id]
          /\ hook' = [hook EXCEPT ![h] =
                [at |-> "next", todo |-> todo, id |-> 1, body |-> Absent,
                 stem |-> Canonical, due |-> {id \in Ids : shown[id] = {TRUE}}]]
    /\ UNCHANGED <<backend, docs, shown, edits, faults, touched>>

\* The claim h deals with next.
NextClaim(h) ==
    {id \in hook[h].todo : hook[h].at = "next" /\ \A other \in hook[h].todo : id <= other}

\* read_machine: always from the store.
ReadMachine(h) ==
    /\ Working(h)
    /\ \E id \in NextClaim(h) :
          LET doc == Document(docs[id]["armed"])
          IN  hook' = IF doc = Absent
                      THEN [hook EXCEPT ![h].todo = @ \ {id}]
                      ELSE [hook EXCEPT ![h].at = "put", ![h].id = id, ![h].body = doc]
    /\ UNCHANGED <<backend, docs, shown, calls, edits, faults, touched>>

\* A document that cannot be read is no part of the snapshot: it is passed over
\* as one that is gone.
ReadMisses(h) ==
    /\ Working(h)
    /\ backend = "file"
    /\ Fault
    /\ \E id \in NextClaim(h) :
          hook' = [hook EXCEPT ![h].todo = @ \ {id}, ![h].due = @ \ {id}]
    /\ UNCHANGED <<backend, docs, shown, calls, edits, touched>>

\* A change of Fails: the delete follows a put that failed.
FailsUnnoticed(h) ==
    /\ Working(h)
    /\ Fault
    /\ IF hook[h].at \in {"put", "rename"}
       THEN Goes(h, "delete") /\ UNCHANGED touched
       ELSE Replied(h, "still_armed")
    /\ UNCHANGED <<backend, docs, shown, calls, edits>>

\* Any of the calls fails: the webhook is told that the machine is still armed.
Fails(h) ==
    /\ Working(h)
    /\ Fault
    /\ Replied(h, "still_armed")
    /\ UNCHANGED <<backend, docs, shown, calls, edits>>

\* put, over the database: one statement.
PutRow(h) ==
    /\ hook[h].at = "put" /\ backend = "sqlite"
    /\ Writes(hook[h].id, "disarmed", Canonical, hook[h].body)
    /\ Goes(h, "delete")
    /\ UNCHANGED <<backend, calls, edits, faults, touched>>

\* put, over files: a document of the format is replaced where it stands, else
\* the canonical stem is used ...
FindPlace(h) ==
    /\ hook[h].at = "put" /\ backend = "file"
    /\ LET found == Existing(docs[hook[h].id]["disarmed"])
       IN  \E s \in IF found = {} THEN {Canonical} ELSE found :
              hook' = [hook EXCEPT ![h].at = "rename", ![h].stem = s]
    /\ UNCHANGED <<backend, docs, shown, calls, edits, faults, touched>>

\* ... also where what is there was not listed, or not all of it.
FindPlaceMisses(h) ==
    /\ hook[h].at = "put" /\ backend = "file"
    /\ Fault
    /\ \E s \in {Canonical} \cup {r \in Stems : docs[hook[h].id]["disarmed"][r] # Absent} :
          hook' = [hook EXCEPT ![h].at = "rename", ![h].stem = s]
    /\ UNCHANGED <<backend, docs, shown, calls, edits, touched>>

\* The new one, written beside it, is renamed over it.
Rename(h) ==
    /\ hook[h].at = "rename" /\ backend = "file"
    /\ Writes(hook[h].id, "disarmed", hook[h].stem, hook[h].body)
    /\ Goes(h, "delete")
    /\ UNCHANGED <<backend, calls, edits, faults, touched>>

\* A change of Moved: one claim is all there is.
MovedOnlyOne(h) == hook' = [hook EXCEPT ![h].at = "next", ![h].todo = {}]

\* That was this claim.
Moved(h) == hook' = [hook EXCEPT ![h].at = "next", ![h].todo = @ \ {hook[h].id}]

\* delete, over the database.
DeleteRow(h) ==
    /\ hook[h].at = "delete" /\ backend = "sqlite"
    /\ Writes(hook[h].id, "armed", Canonical, Absent)
    /\ Moved(h)
    /\ UNCHANGED <<backend, calls, edits, faults, touched>>

\* delete, over files: the document is looked for ...
FindDocument(h) ==
    /\ hook[h].at = "delete" /\ backend = "file"
    /\ LET found == Existing(docs[hook[h].id]["armed"])
       IN  IF found = {}
           THEN Moved(h)
           ELSE \E s \in found : hook' = [hook EXCEPT ![h].at = "unlink", ![h].stem = s]
    /\ UNCHANGED <<backend, docs, shown, calls, edits, faults, touched>>

\* ... where it was not listed there is none to delete ...
FindDocumentMisses(h) ==
    /\ hook[h].at = "delete" /\ backend = "file"
    /\ Fault
    /\ hook' = [hook EXCEPT ![h].at = "next", ![h].todo = @ \ {hook[h].id},
                            ![h].due = @ \ {hook[h].id}]
    /\ UNCHANGED <<backend, docs, shown, calls, edits, touched>>

\* ... and else it is unlinked; that somebody else did so already is no error.
Unlink(h) ==
    /\ hook[h].at = "unlink" /\ backend = "file"
    /\ Writes(hook[h].id, "armed", hook[h].stem, Absent)
    /\ Moved(h)
    /\ UNCHANGED <<backend, calls, edits, faults, touched>>

\* Nothing is left to do, or was to begin with: both are a success.
Reply(h) ==
    /\ hook[h].at = "next" /\ hook[h].todo = {}
    /\ Replied(h, "ok")
    /\ UNCHANGED <<backend, docs, shown, calls, edits, faults>>

Disarm(h) ==
    \/ Claiming(h) \/ ReadMachine(h) \/ ReadMisses(h) \/ Fails(h)
    \/ PutRow(h) \/ FindPlace(h) \/ FindPlaceMisses(h) \/ Rename(h)
    \/ DeleteRow(h) \/ FindDocument(h) \/ FindDocumentMisses(h) \/ Unlink(h) \/ Reply(h)

----------------------------------------------------------------------------
(* The world around it *)

\* The backstop passes: what a listing shows from here on is what there is.
Settle ==
    /\ shown' = [id \in Ids |-> {Claims(docs, id)}]
    /\ shown' # shown
    /\ UNCHANGED <<backend, docs, hook, calls, edits, faults, touched>>

\* The listing that is cached could not read a document: it shows no claim.
ListingMisses ==
    /\ backend = "file"
    /\ Fault
    /\ \E id \in Ids : Claims(docs, id) /\ shown' = [shown EXCEPT ![id] = @ \cup {FALSE}]
    /\ UNCHANGED <<backend, docs, hook, calls, edits, touched>>

\* The process is killed and started again.
Crash ==
    /\ Fault
    /\ \E h \in Hooks : Working(h)
    /\ hook' = [h \in Hooks |-> [at |-> "idle", reply |-> "none"]]
    /\ shown' = [id \in Ids |-> {Claims(docs, id)}]
    /\ touched' = {}
    /\ UNCHANGED <<backend, docs, calls, edits>>

\* The operator does something to the documents of id.
Touches(id) ==
    /\ edits < MaxEdits
    /\ edits' = edits + 1
    /\ touched' = IF \E h \in Hooks : Working(h) THEN touched \cup {id} ELSE touched
    /\ hook' = [h \in Hooks |->
                  IF Working(h) THEN [hook[h] EXCEPT !.due = @ \ {id}] ELSE hook[h]]
    /\ UNCHANGED <<backend, calls, faults>>

\* A new document, for the one there is or where there is none, or none.
Edit(id, stem, doc) ==
    /\ Existing(docs[id]["armed"]) \subseteq {stem}
    /\ backend = "sqlite" => stem = Canonical
    /\ docs[id]["armed"][stem] # doc
    /\ Writes(id, "armed", stem, doc)
    /\ Touches(id)

\* "Re-arming is moving it back."
ReArm(id) ==
    /\ ~Claims(docs, id)
    /\ \E s \in Existing(docs[id]["disarmed"]) :
          docs' = [docs EXCEPT ![id]["armed"][s] = docs[id]["disarmed"][s],
                               ![id]["disarmed"][s] = Absent]
    /\ shown' = [shown EXCEPT ![id] = @ \cup {TRUE}]
    /\ Touches(id)

Next ==
    \/ \E h \in Hooks : Disarm(h)
    \/ Settle \/ ListingMisses \/ Crash
    \/ \E id \in Ids :
          \/ \E s \in Stems, doc \in Bodies \cup {Absent} : Edit(id, s, doc)
          \/ ReArm(id)

Spec == Init /\ [][Next]_vars

----------------------------------------------------------------------------
(* Properties *)

\* "Put before delete": whatever fails, whenever the process dies and however
\* many webhooks are at it, the document that armed the machine is still
\* there, under the one name or the other.  (Unless the operator changed it
\* while one of them was at work.)
ClaimSurvives ==
    [][\A id \in Ids \ touched :
          Claims(docs, id) /\ edits' = edits =>
             \E place \in Places, s \in Stems :
                docs'[id][place][s] = Document(docs[id]["armed"])]_vars

\* A success is one, but for what could not be read: when a webhook is told so,
\* no document claims the machine that did when it arrived, for long enough that
\* every listing shows it, and that each of the webhook's own reads and listings
\* since has found where it was.
OkMeansDisarmed ==
    [][\A h \in Hooks :
          Working(h) /\ ~Working(h)' /\ hook'[h].reply = "ok" =>
             \A id \in hook[h].due : ~Claims(docs, id)]_vars

\* "Nothing is destroyed, which matters for a thing triggered by a network
\* request": a webhook's steps leave every document's text in some document.
NothingDestroyed ==
    [][edits' = edits =>
          \A b \in Bodies :
             (\E id \in Ids, place \in Places, s \in Stems : docs[id][place][s] = b)
                => \E id \in Ids, place \in Places, s \in Stems : docs'[id][place][s] = b]_vars
=============================================================================
