---------------------------- MODULE DisarmProofs ----------------------------
(***************************************************************************)
(* Disarming a machine loses no document that armed it, and says "ok" only *)
(* of a machine that is disarmed or of which a document could not be read, *)
(* for every number of identities, webhooks and stems, whatever fails and  *)
(* whenever the process dies.                                              *)
(*                                                                         *)
(* DisarmInv says what each webhook at work can rely on: before its put    *)
(* the document is what it read, after it the document is in both places   *)
(* (Rescued); and what it still has to deal with are all the claims it     *)
(* must find (Pending).  Others remove documents and put copies of them;   *)
(* only the operator brings new ones, and is held to account for that by   *)
(* touched and due.                                                        *)
(***************************************************************************)
EXTENDS Disarm, TLAPS

Armed(id) == docs[id]["armed"]
Disarmed(id) == docs[id]["disarmed"]

\* No two documents of the format claim the machine under one identity.
Single == \A id \in Ids : AtMostOne(Armed(id))

\* A row of the database has no stem to choose.
Rows ==
    backend = "sqlite" =>
        \A id \in Ids, s \in Stems \ {Canonical} :
            Armed(id)[s] = Absent /\ Disarmed(id)[s] = Absent

\* The document that h deals with is in hand, or already in the other place.
Rescued(h) ==
    hook[h].id \notin touched /\ Claims(docs, hook[h].id) =>
        /\ hook[h].at \in {"put", "rename"} => hook[h].body = Document(Armed(hook[h].id))
        /\ hook[h].at \in {"delete", "unlink"} =>
              \E s \in Stems : Disarmed(hook[h].id)[s] = Document(Armed(hook[h].id))

\* The claims h must find are those it has yet to deal with.
Pending(h) ==
    \A id \in hook[h].due :
        Claims(docs, id) =>
           /\ id \in hook[h].todo
           /\ hook[h].at = "unlink" /\ hook[h].id = id => Armed(id)[hook[h].stem] # Absent

\* What each webhook at work relies on.
Sound(h) == Working(h) => Rescued(h) /\ Pending(h)

DisarmInv == Single /\ Rows /\ \A h \in Hooks : Sound(h)

----------------------------------------------------------------------------
(* Directories *)

(* Where there is one document, it is the one that is found. *)
LEMMA OneDocument ==
    ASSUME NEW dir \in Directories, AtMostOne(dir), NEW s \in Stems, dir[s] # Absent
    PROVE  Existing(dir) = {s} /\ Document(dir) = dir[s]
<1>1. \A r \in 1..(s - 1) : r \in Stems /\ r # s
  BY DisarmAssumption DEF Stems
<1>2. s \in Existing(dir)
  BY <1>1 DEF Existing, AtMostOne
<1>3. \A r \in Existing(dir) : r = s
  BY DEF Existing, AtMostOne
<1>4. Existing(dir) = {s}
  BY <1>2, <1>3
<1>5. QED
  BY <1>4 DEF Document

(* What is found is there, and is the document. *)
LEMMA FoundIsDocument ==
    ASSUME NEW dir \in Directories, NEW s \in Existing(dir), AtMostOne(dir)
    PROVE  s \in Stems /\ dir[s] # Absent /\ Existing(dir) = {s} /\ Document(dir) = dir[s]
BY OneDocument DEF Existing

(* Whether or not there is one, what Document returns has its type. *)
LEMMA DocumentTyped ==
    ASSUME NEW dir \in Directories
    PROVE  /\ Document(dir) \in Bodies \cup {Absent}
           /\ Existing(dir) # {} <=> Document(dir) # Absent
<1>1. CASE Existing(dir) = {}
  BY <1>1 DEF Document
<1>2. CASE Existing(dir) # {}
  <2> DEFINE s == CHOOSE r \in Existing(dir) : TRUE
  <2>1. s \in Existing(dir)
    BY <1>2
  <2>2. Document(dir) = dir[s]
    BY <1>2 DEF Document
  <2> HIDE DEF s
  <2>3. QED
    BY <1>2, <2>1, <2>2 DEF Existing, Directories
<1>3. QED
  BY <1>1, <1>2

(* A write changes one document of one directory. *)
LEMMA WritesOne ==
    ASSUME docs \in [Ids -> [Places -> Directories]], NEW id \in Ids,
           NEW place \in Places, NEW stem \in Stems, NEW doc \in Bodies \cup {Absent},
           docs' = [docs EXCEPT ![id][place][stem] = doc]
    PROVE  /\ docs' \in [Ids -> [Places -> Directories]]
           /\ \A i \in Ids, p \in Places :
                 docs'[i][p] = IF i = id /\ p = place
                               THEN [docs[id][place] EXCEPT ![stem] = doc]
                               ELSE docs[i][p]
<1>1. docs[id] \in [Places -> Directories] /\ docs[id][place] \in Directories
  OBVIOUS
<1>2. [docs[id][place] EXCEPT ![stem] = doc] \in Directories
  BY <1>1 DEF Directories
<1>3. [docs[id] EXCEPT ![place] = [docs[id][place] EXCEPT ![stem] = doc]]
         \in [Places -> Directories]
  BY <1>1, <1>2
<1>4. QED
  BY <1>1, <1>2, <1>3

(* The documents a listing may still show have their type. *)
LEMMA ShownTyped ==
    ASSUME shown \in [Ids -> SUBSET BOOLEAN], NEW id \in Ids, NEW c \in BOOLEAN
    PROVE  [shown EXCEPT ![id] = @ \cup {c}] \in [Ids -> SUBSET BOOLEAN]
OBVIOUS

----------------------------------------------------------------------------
(* The type invariant *)

\* What TypeOK says of the webhooks.
Typed(r) ==
    /\ r \in HooksAtWork \cup [at: {"idle"}, reply: Replies]
    /\ r.at \in {"put", "rename", "delete", "unlink"} => r.body # Absent /\ r.id \in r.todo

HooksTyped ==
    /\ hook \in [Hooks -> HooksAtWork \cup [at: {"idle"}, reply: Replies]]
    /\ \A h \in Hooks : Typed(hook[h])

(* One webhook goes on, the others stay where they are. *)
LEMMA OneGoesOn ==
    ASSUME HooksTyped, NEW h \in Hooks, NEW r, Typed(r), hook' = [hook EXCEPT ![h] = r]
    PROVE  HooksTyped'
BY DEF HooksTyped, Typed

(* The ways in which a webhook at work goes on. *)
LEMMA GoesOnTyped ==
    ASSUME NEW r \in HooksAtWork, Typed(r)
    PROVE  /\ \A id \in r.todo, b \in Bodies :
                 b # Absent => Typed([r EXCEPT !.at = "put", !.id = id, !.body = b])
           /\ r.at \in {"put", "rename", "delete", "unlink"} =>
                 \A s \in Stems : /\ Typed([r EXCEPT !.at = "rename", !.stem = s])
                                 /\ Typed([r EXCEPT !.at = "unlink", !.stem = s])
                                 /\ Typed([r EXCEPT !.at = "delete"])
BY DEF Typed, HooksAtWork, Busy

(* A webhook that is answered is at rest. *)
LEMMA RepliedTyped ==
    ASSUME NEW reply \in Replies
    PROVE  Typed([at |-> "idle", reply |-> reply])
BY DEF Typed, Replies

(* A webhook at work has a webhook's record. *)
LEMMA AtWork ==
    ASSUME HooksTyped, NEW h \in Hooks, Working(h)
    PROVE  hook[h] \in HooksAtWork /\ Typed(hook[h])
BY DEF HooksTyped, Typed, Working

(* Every step of disarm leaves the webhooks well typed. *)
LEMMA DisarmTypesHooks ==
    ASSUME TypeOK, HooksTyped, NEW h \in Hooks, Disarm(h)
    PROVE  HooksTyped'
<1>1. CASE Claiming(h)
  <2>1. PICK todo \in SUBSET Ids :
           hook' = [hook EXCEPT ![h] =
                [at |-> "next", todo |-> todo, id |-> 1, body |-> Absent,
                 stem |-> Canonical, due |-> {id \in Ids : shown[id] = {TRUE}}]]
    BY <1>1 DEF Claiming
  <2> DEFINE due == {id \in Ids : shown[id] = {TRUE}}
  <2>2. due \in SUBSET Ids /\ 1 \in Ids
    <3>1. due \in SUBSET Ids
      OBVIOUS
    <3>2. 1 \in Ids
      BY DisarmAssumption DEF Ids
    <3>3. QED
      BY <3>1, <3>2
  <2> HIDE DEF due
  <2>3. Typed([at |-> "next", todo |-> todo, id |-> 1, body |-> Absent,
               stem |-> Canonical, due |-> due])
    BY <2>2, DisarmAssumption DEF Typed, HooksAtWork, Busy
  <2>4. QED
    BY <2>1, <2>3, OneGoesOn DEF due
<1>2. CASE ReadMachine(h)
  <2>1. PICK id \in NextClaim(h) :
           LET doc == Document(docs[id]["armed"])
           IN  hook' = IF doc = Absent
                       THEN [hook EXCEPT ![h].todo = @ \ {id}]
                       ELSE [hook EXCEPT ![h].at = "put", ![h].id = id, ![h].body = doc]
    BY <1>2 DEF ReadMachine
  <2>2. hook[h] \in HooksAtWork /\ Typed(hook[h]) /\ hook[h].at = "next" /\ id \in hook[h].todo
    BY <1>2, AtWork DEF ReadMachine, NextClaim
  <2>3. id \in Ids /\ docs[id]["armed"] \in Directories
    BY <2>2 DEF TypeOK, HooksAtWork, Places
  <2> DEFINE doc == Document(docs[id]["armed"])
  <2>4. doc \in Bodies \cup {Absent}
    BY <2>3, DocumentTyped
  <2> HIDE DEF doc
  <2>5. CASE doc = Absent
    <3>1. hook' = [hook EXCEPT ![h] = [hook[h] EXCEPT !.todo = @ \ {id}]]
      BY <2>1, <2>5 DEF doc
    <3>2. Typed([hook[h] EXCEPT !.todo = @ \ {id}])
      BY <2>2 DEF Typed, HooksAtWork, Busy
    <3>3. QED
      BY <3>1, <3>2, OneGoesOn
  <2>6. CASE doc # Absent
    <3>1. hook' = [hook EXCEPT ![h] = [hook[h] EXCEPT !.at = "put", !.id = id, !.body = doc]]
      BY <2>1, <2>6 DEF doc
    <3>2. Typed([hook[h] EXCEPT !.at = "put", !.id = id, !.body = doc])
      BY <2>2, <2>4, <2>6, GoesOnTyped
    <3>3. QED
      BY <3>1, <3>2, OneGoesOn
  <2>7. QED
    BY <2>5, <2>6
<1>3. CASE ReadMisses(h)
  <2>1. PICK id \in NextClaim(h) : hook' = [hook EXCEPT ![h].todo = @ \ {id}, ![h].due = @ \ {id}]
    BY <1>3 DEF ReadMisses
  <2>2. hook[h] \in HooksAtWork /\ Typed(hook[h]) /\ hook[h].at = "next" /\ id \in hook[h].todo
    BY <1>3, AtWork DEF ReadMisses, NextClaim
  <2>3. Typed([hook[h] EXCEPT !.todo = @ \ {id}, !.due = @ \ {id}])
    BY <2>2 DEF Typed, HooksAtWork, Busy
  <2>4. hook' = [hook EXCEPT ![h] = [hook[h] EXCEPT !.todo = @ \ {id}, !.due = @ \ {id}]]
    BY <2>1
  <2>5. QED
    BY <2>3, <2>4, OneGoesOn
<1>4. CASE Fails(h) \/ Reply(h)
  BY <1>4, RepliedTyped, OneGoesOn DEF Fails, Reply, Replied, Replies
<1>5. CASE FindPlace(h)
  <2>1. hook[h] \in HooksAtWork /\ Typed(hook[h]) /\ hook[h].at = "put"
    BY <1>5, AtWork DEF FindPlace, Working
  <2>2. PICK s \in Stems : hook' = [hook EXCEPT ![h] = [hook[h] EXCEPT !.at = "rename", !.stem = s]]
    BY <1>5, DisarmAssumption DEF FindPlace, Existing
  <2>3. Typed([hook[h] EXCEPT !.at = "rename", !.stem = s])
    BY <2>1, GoesOnTyped
  <2>4. QED
    BY <2>2, <2>3, OneGoesOn
<1>10. CASE FindPlaceMisses(h)
  <2>1. hook[h] \in HooksAtWork /\ Typed(hook[h]) /\ hook[h].at = "put"
    BY <1>10, AtWork DEF FindPlaceMisses, Working
  <2>2. PICK s \in Stems : hook' = [hook EXCEPT ![h] = [hook[h] EXCEPT !.at = "rename", !.stem = s]]
    BY <1>10, DisarmAssumption DEF FindPlaceMisses
  <2>3. Typed([hook[h] EXCEPT !.at = "rename", !.stem = s])
    BY <2>1, GoesOnTyped
  <2>4. QED
    BY <2>2, <2>3, OneGoesOn
<1>11. CASE FindDocumentMisses(h)
  <2>1. hook[h] \in HooksAtWork /\ Typed(hook[h])
    BY <1>11, AtWork DEF FindDocumentMisses, Working
  <2>2. hook' = [hook EXCEPT ![h] = [hook[h] EXCEPT !.at = "next", !.todo = @ \ {hook[h].id},
                                                  !.due = @ \ {hook[h].id}]]
    BY <1>11 DEF FindDocumentMisses
  <2>3. Typed([hook[h] EXCEPT !.at = "next", !.todo = @ \ {hook[h].id}, !.due = @ \ {hook[h].id}])
    BY <2>1 DEF Typed, HooksAtWork, Busy
  <2>4. QED
    BY <2>2, <2>3, OneGoesOn
<1>6. CASE FindDocument(h)
  <2>1. hook[h] \in HooksAtWork /\ Typed(hook[h]) /\ hook[h].at = "delete"
    BY <1>6, AtWork DEF FindDocument, Working
  <2>2. CASE Moved(h)
    <3>1. hook' = [hook EXCEPT ![h] = [hook[h] EXCEPT !.at = "next", !.todo = @ \ {hook[h].id}]]
      BY <2>2 DEF Moved
    <3>2. Typed([hook[h] EXCEPT !.at = "next", !.todo = @ \ {hook[h].id}])
      BY <2>1 DEF Typed, HooksAtWork, Busy
    <3>3. QED
      BY <3>1, <3>2, OneGoesOn
  <2>3. CASE ~Moved(h)
    <3>1. PICK s \in Stems : hook' = [hook EXCEPT ![h] = [hook[h] EXCEPT !.at = "unlink", !.stem = s]]
      BY <1>6, <2>3 DEF FindDocument, Existing
    <3>2. Typed([hook[h] EXCEPT !.at = "unlink", !.stem = s])
      BY <2>1, GoesOnTyped
    <3>3. QED
      BY <3>1, <3>2, OneGoesOn
  <2>4. QED
    BY <2>2, <2>3
<1>7. CASE PutRow(h) \/ Rename(h)
  <2>1. hook[h] \in HooksAtWork /\ Typed(hook[h]) /\ hook[h].at \in {"put", "rename"}
    BY <1>7, AtWork DEF PutRow, Rename, Working
  <2>2. hook' = [hook EXCEPT ![h] = [hook[h] EXCEPT !.at = "delete"]]
    BY <1>7 DEF PutRow, Rename, Goes
  <2>3. Typed([hook[h] EXCEPT !.at = "delete"])
    <3>1. hook[h].at \in {"put", "rename"} /\ Canonical \in Stems
      BY <2>1, DisarmAssumption
    <3>2. QED
      BY <2>1, <3>1, GoesOnTyped
  <2>4. QED
    BY <2>2, <2>3, OneGoesOn
<1>8. CASE DeleteRow(h) \/ Unlink(h)
  <2>1. hook[h] \in HooksAtWork /\ Typed(hook[h])
    BY <1>8, AtWork DEF DeleteRow, Unlink, Working
  <2>2. hook' = [hook EXCEPT ![h] = [hook[h] EXCEPT !.at = "next", !.todo = @ \ {hook[h].id}]]
    BY <1>8 DEF DeleteRow, Unlink, Moved
  <2>3. Typed([hook[h] EXCEPT !.at = "next", !.todo = @ \ {hook[h].id}])
    BY <2>1 DEF Typed, HooksAtWork, Busy
  <2>4. QED
    BY <2>2, <2>3, OneGoesOn
<1>9. QED
  BY <1>1, <1>2, <1>3, <1>4, <1>5, <1>6, <1>7, <1>8, <1>10, <1>11 DEF Disarm

(* A write leaves documents and listings well typed. *)
LEMMA WritesTyped ==
    ASSUME TypeOK, NEW id \in Ids, NEW place \in Places, NEW stem \in Stems,
           NEW doc \in Bodies \cup {Absent}, Writes(id, place, stem, doc)
    PROVE  /\ docs' \in [Ids -> [Places -> Directories]]
           /\ shown' \in [Ids -> SUBSET BOOLEAN]
<1>1. Claims(docs', id) \in BOOLEAN
  BY DEF Claims
<1>2. shown' = [shown EXCEPT ![id] = @ \cup {Claims(docs', id)}]
  BY DEF Writes
<1>3. shown' \in [Ids -> SUBSET BOOLEAN]
  BY <1>1, <1>2, ShownTyped DEF TypeOK
<1>4. QED
  BY <1>3, WritesOne DEF Writes, TypeOK

(* Every variable of Disarm keeps its type. *)
THEOREM TypeCorrect == Spec => []TypeOK
<1>1. Init => TypeOK
  BY DisarmAssumption DEF Init, TypeOK, Claims, Replies
<1>2. TypeOK /\ [Next]_vars => TypeOK'
  <2> SUFFICES ASSUME TypeOK, [Next]_vars
               PROVE  TypeOK'
    OBVIOUS
  <2>1. HooksTyped
    BY DEF TypeOK, HooksTyped, Typed
  <2>2. ASSUME HooksTyped',
               docs' \in [Ids -> [Places -> Directories]], shown' \in [Ids -> SUBSET BOOLEAN],
               UNCHANGED backend, touched' \in SUBSET Ids,
               calls' \in 0..MaxCalls, edits' \in 0..MaxEdits, faults' \in 0..MaxFaults
        PROVE  TypeOK'
    BY <2>2 DEF TypeOK, HooksTyped, Typed
  <2>3. ASSUME NEW h \in Hooks, Disarm(h)
        PROVE  TypeOK'
    <3>1. HooksTyped'
      BY <2>1, <2>3, DisarmTypesHooks
    <3>2. /\ UNCHANGED <<backend, edits>> /\ touched' \in SUBSET Ids
          /\ calls' \in 0..MaxCalls /\ faults' \in 0..MaxFaults
      <4>1. UNCHANGED <<backend, edits>> /\ (UNCHANGED touched \/ touched' = {})
        BY <2>3 DEF Disarm, Claiming, ReadMachine, ReadMisses, Fails, PutRow,
           FindPlace, FindPlaceMisses, Rename, DeleteRow, FindDocument, FindDocumentMisses,
           Unlink, Reply, Replied
      <4>2. calls' = calls \/ (calls < MaxCalls /\ calls' = calls + 1)
        <5>1. CASE Claiming(h)
          BY <5>1 DEF Claiming
        <5>2. ASSUME ~Claiming(h)
              PROVE  calls' = calls
          BY <5>2, <2>3 DEF Disarm, ReadMachine, ReadMisses, Fails, PutRow,
             FindPlace, FindPlaceMisses, Rename, DeleteRow, FindDocument, FindDocumentMisses,
             Unlink, Reply
        <5>3. QED
          BY <5>1, <5>2
      <4>3. UNCHANGED faults \/ Fault
        BY <2>3 DEF Disarm, Claiming, ReadMachine, ReadMisses, Fails, PutRow,
           FindPlace, FindPlaceMisses, Rename, DeleteRow, FindDocument, FindDocumentMisses,
           Unlink, Reply
      <4>4. QED
        BY <4>1, <4>2, <4>3, DisarmAssumption DEF Fault, TypeOK
    <3>3. /\ docs' \in [Ids -> [Places -> Directories]]
          /\ shown' \in [Ids -> SUBSET BOOLEAN]
      <4>1. CASE UNCHANGED <<docs, shown>>
        BY <4>1 DEF TypeOK
      <4>2. CASE PutRow(h) \/ Rename(h) \/ DeleteRow(h) \/ Unlink(h)
        <5>1. hook[h] \in HooksAtWork
          BY <2>1, <4>2, AtWork DEF PutRow, Rename, DeleteRow, Unlink, Working
        <5>2. hook[h].id \in Ids /\ hook[h].stem \in Stems /\ hook[h].body \in Bodies \cup {Absent}
          BY <5>1 DEF HooksAtWork
        <5>3. QED
          BY <4>2, <5>2, WritesTyped, DisarmAssumption
          DEF PutRow, Rename, DeleteRow, Unlink, Places
      <4>3. QED
        BY <2>3, <4>1, <4>2 DEF Disarm, Claiming, ReadMachine, ReadMisses, Fails, FindPlace,
           FindPlaceMisses, FindDocument, FindDocumentMisses, Reply
    <3>4. QED
      BY <2>2, <3>1, <3>2, <3>3 DEF TypeOK
  <2>4. ASSUME Settle
        PROVE  TypeOK'
    BY <2>4 DEF Settle, Claims, TypeOK
  <2>11. ASSUME ListingMisses
        PROVE  TypeOK'
    <3>1. shown' \in [Ids -> SUBSET BOOLEAN]
      BY <2>11, ShownTyped DEF ListingMisses, TypeOK
    <3>2. faults' \in 0..MaxFaults
      BY <2>11, DisarmAssumption DEF ListingMisses, Fault, TypeOK
    <3>3. QED
      BY <2>11, <3>1, <3>2 DEF ListingMisses, TypeOK
  <2>5. ASSUME Crash
        PROVE  TypeOK'
    <3>1. HooksTyped'
      BY <2>5 DEF Crash, HooksTyped, Typed, Replies
    <3>2. shown' \in [Ids -> SUBSET BOOLEAN]
      BY <2>5 DEF Crash, Claims
    <3>3. faults' \in 0..MaxFaults
      BY <2>5, DisarmAssumption DEF Crash, Fault, TypeOK
    <3>4. QED
      BY <2>2, <2>5, <3>1, <3>2, <3>3 DEF Crash, TypeOK
  <2>6. ASSUME NEW id \in Ids, Touches(id)
        PROVE  /\ HooksTyped' /\ UNCHANGED <<backend, calls, faults>>
               /\ edits' \in 0..MaxEdits /\ touched' \in SUBSET Ids
    <3>1. \A h \in Hooks :
             Typed(IF Working(h) THEN [hook[h] EXCEPT !.due = @ \ {id}] ELSE hook[h])
      <4>1. ASSUME NEW h \in Hooks, Working(h)
            PROVE  Typed([hook[h] EXCEPT !.due = @ \ {id}])
        <5>1. hook[h] \in HooksAtWork /\ Typed(hook[h])
          BY <2>1, <4>1, AtWork
        <5>2. QED
          BY <5>1 DEF Typed, HooksAtWork, Busy
      <4>2. QED
        BY <2>1, <4>1 DEF HooksTyped
    <3>2. HooksTyped'
      BY <2>6, <3>1 DEF Touches, HooksTyped, Typed
    <3>3. QED
      BY <2>6, <3>2, DisarmAssumption DEF Touches, TypeOK
  <2>7. ASSUME NEW id \in Ids, NEW s \in Stems, NEW doc \in Bodies \cup {Absent},
               Edit(id, s, doc)
        PROVE  TypeOK'
    BY <2>2, <2>6, <2>7, WritesTyped DEF Edit, Places, TypeOK
  <2>8. ASSUME NEW id \in Ids, ReArm(id)
        PROVE  TypeOK'
    <3>1. docs' \in [Ids -> [Places -> Directories]]
      <4>1. PICK s \in Existing(docs[id]["disarmed"]) :
               docs' = [docs EXCEPT ![id]["armed"][s] = docs[id]["disarmed"][s],
                                    ![id]["disarmed"][s] = Absent]
        BY <2>8 DEF ReArm
      <4>2. s \in Stems /\ docs[id] \in [Places -> Directories]
        BY DEF TypeOK, Existing
      <4>3. /\ [docs[id]["armed"] EXCEPT ![s] = docs[id]["disarmed"][s]] \in Directories
            /\ [docs[id]["disarmed"] EXCEPT ![s] = Absent] \in Directories
        BY <4>2 DEF Directories, Places
      <4>4. QED
        BY <4>1, <4>2, <4>3 DEF TypeOK, Places
    <3>2. shown' \in [Ids -> SUBSET BOOLEAN]
      BY <2>8, ShownTyped DEF ReArm, TypeOK
    <3>3. QED
      BY <2>2, <2>6, <2>8, <3>1, <3>2 DEF ReArm, TypeOK
  <2>9. ASSUME UNCHANGED vars
        PROVE  TypeOK'
    BY <2>9 DEF vars, TypeOK
  <2>10. QED
    BY <2>3, <2>4, <2>5, <2>7, <2>8, <2>9, <2>11 DEF Next
<1>3. QED
  BY <1>1, <1>2, PTL DEF Spec

----------------------------------------------------------------------------
(* The invariant *)

(* A removal leaves a claim only where it leaves the document as it was, and
   never touches what is disarmed. *)
LEMMA RemovalKeeps ==
    ASSUME TypeOK, Single, NEW id \in Ids, NEW stem \in Stems,
           docs' = [docs EXCEPT ![id]["armed"][stem] = Absent], NEW i \in Ids
    PROVE  /\ AtMostOne(Armed(i)')
           /\ Disarmed(i)' = Disarmed(i)
           /\ Claims(docs', i) => Claims(docs, i) /\ Armed(i)' = Armed(i)
           /\ i = id /\ Armed(id)[stem] # Absent => ~Claims(docs', i)
<1>1. Armed(i) \in Directories /\ AtMostOne(Armed(i))
  BY DEF TypeOK, Armed, Places, Single
<1>2. /\ i = id => Armed(i)' = [Armed(i) EXCEPT ![stem] = Absent]
      /\ i # id => Armed(i)' = Armed(i)
      /\ Disarmed(i)' = Disarmed(i)
  BY WritesOne DEF TypeOK, Armed, Disarmed, Places
<1>3. CASE i # id
  BY <1>1, <1>2, <1>3 DEF Claims, Armed
<1>4. CASE i = id /\ Armed(i)[stem] = Absent
  BY <1>1, <1>2, <1>4 DEF Claims, Armed, Directories
<1>5. CASE i = id /\ Armed(i)[stem] # Absent
  <2>1. \A s \in Stems : Armed(i)'[s] = Absent
    BY <1>1, <1>2, <1>5 DEF AtMostOne, Directories
  <2>2. ~Claims(docs', i)
    BY <2>1 DEF Claims, Existing, Armed
  <2>3. QED
    BY <1>2, <1>5, <2>1, <2>2 DEF AtMostOne
<1>6. QED
  BY <1>3, <1>4, <1>5

\* What a put of body leaves of the documents of i.
KeptByPut(i, id, stem, body) ==
    /\ Armed(i)' = Armed(i)
    /\ Claims(docs', i) = Claims(docs, i)
    /\ \A s \in Stems : Disarmed(i)'[s] = Disarmed(i)[s] \/ (i = id /\ s = stem)
    /\ i = id => Disarmed(i)'[stem] = body

(* A put leaves all claims alone, and every other disarmed document. *)
LEMMA PutKeeps ==
    ASSUME TypeOK, NEW id \in Ids, NEW stem \in Stems, NEW body \in Bodies,
           docs' = [docs EXCEPT ![id]["disarmed"][stem] = body], NEW i \in Ids
    PROVE  KeptByPut(i, id, stem, body)
<1>1. Disarmed(i) \in Directories
  BY DEF TypeOK, Disarmed, Places
<1>2. body \in Bodies \cup {Absent} /\ "disarmed" \in Places /\ "armed" \in Places
  BY DEF Places
<1>3. docs \in [Ids -> [Places -> Directories]]
  BY DEF TypeOK
<1>4. \A p \in Places :
         docs'[i][p] = IF i = id /\ p = "disarmed"
                       THEN [docs[id]["disarmed"] EXCEPT ![stem] = body]
                       ELSE docs[i][p]
  BY <1>2, <1>3, WritesOne
<1>5. /\ Armed(i)' = Armed(i)
      /\ i = id => Disarmed(i)' = [Disarmed(i) EXCEPT ![stem] = body]
      /\ i # id => Disarmed(i)' = Disarmed(i)
  BY <1>2, <1>4 DEF Armed, Disarmed
<1>6. Claims(docs', i) = Claims(docs, i)
  BY <1>5 DEF Claims, Armed
<1>7. i = id => /\ Disarmed(i)'[stem] = body
                /\ \A s \in Stems \ {stem} : Disarmed(i)'[s] = Disarmed(i)[s]
  BY <1>1, <1>5 DEF Directories
<1>8. \A s \in Stems : Disarmed(i)'[s] = Disarmed(i)[s] \/ (i = id /\ s = stem)
  BY <1>5, <1>7
<1>9. QED
  BY <1>5, <1>6, <1>7, <1>8 DEF KeptByPut

(* A webhook that does not move itself is not led astray by what others do:
   they put copies of the document, remove it, or leave all as it is. *)
LEMMA BystanderStaysSound ==
    ASSUME TypeOK, DisarmInv, NEW o \in Hooks, hook'[o] = hook[o], Working(o),
           touched \subseteq touched',
           \A i \in Ids :
              /\ Claims(docs', i) => Claims(docs, i) /\ Armed(i)' = Armed(i)
              /\ i \notin touched =>
                    (Claims(docs', i) =>
                       \A s \in Stems : Disarmed(i)[s] = Document(Armed(i)) =>
                          Disarmed(i)'[s] = Document(Armed(i)))
    PROVE  Sound(o)'
<1>1. Rescued(o) /\ Pending(o) /\ hook[o] \in HooksAtWork
  BY AtWork DEF DisarmInv, Sound, TypeOK, HooksTyped, Typed
<1>2. hook[o].id \in Ids /\ hook[o].due \in SUBSET Ids
  BY <1>1 DEF HooksAtWork
<1>3. Rescued(o)'
  BY <1>1, <1>2 DEF Rescued
<1>4. Pending(o)'
  BY <1>1, <1>2 DEF Pending
<1>5. QED
  BY <1>3, <1>4 DEF Sound

(* What a webhook at work has in hand. *)
LEMMA InHand ==
    ASSUME TypeOK, DisarmInv, NEW h \in Hooks, Working(h)
    PROVE  /\ hook[h] \in HooksAtWork /\ Rescued(h) /\ Pending(h)
           /\ hook[h].id \in Ids /\ hook[h].stem \in Stems
           /\ hook[h].due \in SUBSET Ids /\ hook[h].todo \in SUBSET Ids
           /\ hook[h].at \in {"put", "rename"} => hook[h].body \in Bodies
<1>1. hook[h] \in HooksAtWork /\ Typed(hook[h]) /\ Rescued(h) /\ Pending(h)
  BY AtWork DEF DisarmInv, Sound, TypeOK, HooksTyped, Typed
<1>2. QED
  BY <1>1 DEF HooksAtWork, Typed

(* Steps of a webhook that change no document. *)
LEMMA QuietStepKeepsInv ==
    ASSUME TypeOK, DisarmInv, NEW h \in Hooks, UNCHANGED <<backend, docs>>,
           \/ Claiming(h) \/ ReadMachine(h) \/ ReadMisses(h) \/ Fails(h)
           \/ FindPlace(h) \/ FindPlaceMisses(h) \/ FindDocument(h) \/ FindDocumentMisses(h)
           \/ Reply(h)
    PROVE  DisarmInv'
<1>1. Single' /\ Rows'
  BY DEF DisarmInv, Single, Rows, Armed, Disarmed
<1>2. \A i \in Ids : Armed(i)' = Armed(i) /\ Disarmed(i)' = Disarmed(i)
                     /\ Claims(docs', i) = Claims(docs, i)
  BY DEF Armed, Disarmed, Claims
<1>3. ASSUME NEW o \in Hooks, o # h
      PROVE  Sound(o)'
  <2>1. hook'[o] = hook[o]
    BY <1>3 DEF Claiming, ReadMachine, ReadMisses, Fails, FindPlace, FindPlaceMisses,
       FindDocument, FindDocumentMisses, Moved,
       Reply, Replied, TypeOK
  <2>2. Working(o) => touched' = touched
    BY <1>3 DEF Claiming, ReadMachine, ReadMisses, Fails, FindPlace, FindPlaceMisses,
       FindDocument, FindDocumentMisses, Reply, Replied
  <2>3. Working(o) => Sound(o)'
    BY <1>2, <2>1, <2>2, BystanderStaysSound
  <2>4. QED
    BY <2>1, <2>3 DEF Sound, Working
<1>4. Sound(h)'
  <2>1. CASE Claiming(h)
    <3>1. PICK todo \in SUBSET Ids :
             /\ \A id \in Ids : (id \in todo) \in shown[id]
             /\ hook' = [hook EXCEPT ![h] =
                  [at |-> "next", todo |-> todo, id |-> 1, body |-> Absent,
                   stem |-> Canonical, due |-> {id \in Ids : shown[id] = {TRUE}}]]
      BY <2>1 DEF Claiming
    <3>2. \A id \in Ids : shown[id] = {TRUE} => id \in todo
      BY <3>1
    <3>3. hook'[h].at = "next" /\ hook'[h].todo = todo
          /\ hook'[h].due = {id \in Ids : shown[id] = {TRUE}}
      BY <3>1 DEF TypeOK
    <3>4. QED
      BY <3>2, <3>3 DEF Sound, Rescued, Pending
  <2>2. CASE ReadMachine(h)
    <3>1. PICK id \in NextClaim(h) :
             LET doc == Document(docs[id]["armed"])
             IN  hook' = IF doc = Absent
                         THEN [hook EXCEPT ![h].todo = @ \ {id}]
                         ELSE [hook EXCEPT ![h].at = "put", ![h].id = id, ![h].body = doc]
      BY <2>2 DEF ReadMachine
    <3>2. Working(h) /\ hook[h].at = "next" /\ id \in hook[h].todo
      BY <2>2 DEF ReadMachine, NextClaim
    <3>3. hook[h] \in HooksAtWork /\ Pending(h) /\ id \in Ids
      BY <3>2, InHand
    <3>4. Claims(docs, id) <=> Document(Armed(id)) # Absent
      BY <3>3, DocumentTyped DEF Claims, Armed, TypeOK, Places
    <3>5. CASE Document(Armed(id)) = Absent
      <4>1. hook'[h] = [hook[h] EXCEPT !.todo = @ \ {id}]
        BY <3>1, <3>5 DEF Armed, TypeOK
      <4>2. /\ hook'[h].at = "next" /\ hook'[h].todo = hook[h].todo \ {id}
            /\ hook'[h].due = hook[h].due
        BY <3>2, <3>3, <4>1 DEF HooksAtWork
      <4>3. QED
        BY <1>2, <3>3, <3>4, <3>5, <4>2 DEF Sound, Rescued, Pending
    <3>6. CASE Document(Armed(id)) # Absent
      <4>1. hook'[h] = [hook[h] EXCEPT !.at = "put", !.id = id, !.body = Document(Armed(id))]
        BY <3>1, <3>6 DEF Armed, TypeOK
      <4>2. /\ hook'[h].at = "put" /\ hook'[h].todo = hook[h].todo
            /\ hook'[h].due = hook[h].due
            /\ hook'[h].id = id /\ hook'[h].body = Document(Armed(id))
        BY <3>2, <3>3, <4>1 DEF HooksAtWork
      <4>3. QED
        BY <1>2, <3>3, <4>2 DEF Sound, Rescued, Pending
    <3>7. QED
      BY <3>5, <3>6
  <2>3. CASE ReadMisses(h)
    <3>1. PICK id \in NextClaim(h) :
             hook' = [hook EXCEPT ![h].todo = @ \ {id}, ![h].due = @ \ {id}]
      BY <2>3 DEF ReadMisses
    <3>2. Working(h) /\ hook[h].at = "next"
      BY <2>3, <3>1 DEF ReadMisses, NextClaim
    <3>3. hook[h] \in HooksAtWork /\ Pending(h)
      BY <3>2, InHand
    <3>4. hook'[h] = [hook[h] EXCEPT !.todo = @ \ {id}, !.due = @ \ {id}]
      BY <3>1 DEF TypeOK
    <3>5. /\ hook'[h].at = "next" /\ hook'[h].todo = hook[h].todo \ {id}
          /\ hook'[h].due = hook[h].due \ {id}
      BY <3>2, <3>3, <3>4 DEF HooksAtWork
    <3>6. QED
      BY <1>2, <3>3, <3>5 DEF Sound, Rescued, Pending
  <2>4. CASE Fails(h) \/ Reply(h)
    BY <2>4 DEF Fails, Reply, Replied, Sound, Working, TypeOK
  <2>5. CASE FindPlace(h) \/ FindPlaceMisses(h)
    <3>1. Working(h) /\ hook[h].at = "put"
      BY <2>5 DEF FindPlace, FindPlaceMisses, Working
    <3>2. PICK s : hook'[h] = [hook[h] EXCEPT !.at = "rename", !.stem = s]
      BY <2>5 DEF FindPlace, FindPlaceMisses, TypeOK
    <3>3. hook[h] \in HooksAtWork /\ Rescued(h) /\ Pending(h) /\ hook[h].id \in Ids
      BY <3>1, InHand
    <3>4. /\ hook'[h].at = "rename" /\ hook'[h].todo = hook[h].todo
          /\ hook'[h].due = hook[h].due /\ hook'[h].id = hook[h].id
          /\ hook'[h].body = hook[h].body
      BY <3>2, <3>3 DEF HooksAtWork
    <3>5. touched' = touched
      BY <2>5 DEF FindPlace, FindPlaceMisses
    <3>6. QED
      BY <1>2, <3>1, <3>3, <3>4, <3>5, InHand DEF Sound, Rescued, Pending
  <2>6. CASE FindDocument(h)
    <3>1. Working(h) /\ hook[h].at = "delete" /\ touched' = touched
      BY <2>6 DEF FindDocument, Working
    <3>2. /\ hook[h] \in HooksAtWork /\ Rescued(h) /\ Pending(h) /\ hook[h].id \in Ids
          /\ hook[h].due \in SUBSET Ids
      BY <3>1, InHand
    <3>3. CASE ~Claims(docs, hook[h].id)
      <4>1. hook'[h] = [hook[h] EXCEPT !.at = "next", !.todo = @ \ {hook[h].id}]
        BY <2>6, <3>3 DEF FindDocument, Claims, Moved, TypeOK
      <4>2. /\ hook'[h].at = "next" /\ hook'[h].todo = hook[h].todo \ {hook[h].id}
            /\ hook'[h].due = hook[h].due
        BY <3>2, <4>1 DEF HooksAtWork
      <4>3. QED
        BY <1>2, <3>2, <3>3, <4>2 DEF Sound, Rescued, Pending
    <3>4. CASE Claims(docs, hook[h].id)
      <4>1. PICK s \in Existing(Armed(hook[h].id)) :
               hook'[h] = [hook[h] EXCEPT !.at = "unlink", !.stem = s]
        BY <2>6, <3>4 DEF FindDocument, Claims, Armed, TypeOK
      <4>2. /\ hook'[h].at = "unlink" /\ hook'[h].todo = hook[h].todo
            /\ hook'[h].due = hook[h].due /\ hook'[h].id = hook[h].id
            /\ hook'[h].stem = s
        BY <3>2, <4>1 DEF HooksAtWork
      <4>3. Armed(hook[h].id)[s] # Absent
        BY DEF Existing
      <4>4. QED
        BY <1>2, <3>1, <3>2, <4>2, <4>3 DEF Sound, Rescued, Pending
    <3>5. QED
      BY <3>3, <3>4
  <2>7. CASE FindDocumentMisses(h)
    <3>1. Working(h)
      BY <2>7 DEF FindDocumentMisses, Working
    <3>2. hook[h] \in HooksAtWork /\ Pending(h)
      BY <3>1, InHand
    <3>3. hook'[h] = [hook[h] EXCEPT !.at = "next", !.todo = @ \ {hook[h].id},
                                     !.due = @ \ {hook[h].id}]
      BY <2>7 DEF FindDocumentMisses, TypeOK
    <3>4. /\ hook'[h].at = "next" /\ hook'[h].todo = hook[h].todo \ {hook[h].id}
          /\ hook'[h].due = hook[h].due \ {hook[h].id}
      BY <3>2, <3>3 DEF HooksAtWork
    <3>5. QED
      BY <1>2, <3>2, <3>4 DEF Sound, Rescued, Pending
  <2>8. QED
    BY <2>1, <2>2, <2>3, <2>4, <2>5, <2>6, <2>7
<1>5. QED
  BY <1>1, <1>3, <1>4 DEF DisarmInv

(* A put brings the document to its other place and changes no claim. *)
LEMMA PutKeepsInv ==
    ASSUME TypeOK, DisarmInv, NEW h \in Hooks, PutRow(h) \/ Rename(h)
    PROVE  DisarmInv'
<1>1. PICK stem \in Stems :
         /\ docs' = [docs EXCEPT ![hook[h].id]["disarmed"][stem] = hook[h].body]
         /\ backend = "sqlite" => stem = Canonical
  <2>1. Working(h)
    BY DEF PutRow, Rename, Working
  <2>2. hook[h].stem \in Stems /\ Canonical \in Stems
    BY <2>1, InHand, DisarmAssumption
  <2>3. CASE PutRow(h)
    BY <2>2, <2>3 DEF PutRow, Writes
  <2>4. CASE Rename(h)
    BY <2>2, <2>4 DEF Rename, Writes
  <2>5. QED
    BY <2>3, <2>4
<1>2. Working(h) /\ hook[h].at \in {"put", "rename"} /\ UNCHANGED <<backend, touched>>
  BY DEF PutRow, Rename, Working
<1>3. /\ hook[h] \in HooksAtWork /\ Rescued(h) /\ Pending(h)
      /\ hook[h].id \in Ids /\ hook[h].body \in Bodies
  BY <1>2, InHand
<1>4. ASSUME NEW i \in Ids
      PROVE  KeptByPut(i, hook[h].id, stem, hook[h].body)
  <2>1. PICK id \in Ids, body \in Bodies : id = hook[h].id /\ body = hook[h].body
    BY <1>3
  <2>2. docs' = [docs EXCEPT ![id]["disarmed"][stem] = body]
    BY <1>1, <2>1
  <2>3. KeptByPut(i, id, stem, body)
    BY <2>2, PutKeeps
  <2>4. QED
    BY <2>1, <2>3
<1>5. Single' /\ Rows'
  BY <1>1, <1>2, <1>4 DEF DisarmInv, Single, Rows, KeptByPut
<1>6. ASSUME NEW o \in Hooks, o # h
      PROVE  Sound(o)'
  <2>1. hook'[o] = hook[o]
    BY <1>6 DEF PutRow, Rename, Goes, TypeOK
  <2>2. ASSUME NEW i \in Ids, i \notin touched, Claims(docs', i), NEW s \in Stems,
               Disarmed(i)[s] = Document(Armed(i))
        PROVE  Disarmed(i)'[s] = Document(Armed(i))
    BY <1>2, <1>3, <1>4, <2>2 DEF Rescued, KeptByPut
  <2>3. Working(o) => Sound(o)'
    BY <1>2, <1>4, <2>1, <2>2, BystanderStaysSound DEF KeptByPut
  <2>4. QED
    BY <2>1, <2>3 DEF Sound, Working
<1>7. Sound(h)'
  <2>1. hook'[h] = [hook[h] EXCEPT !.at = "delete"]
    BY DEF PutRow, Rename, Goes, TypeOK
  <2>2. /\ hook'[h].at = "delete" /\ hook'[h].todo = hook[h].todo
        /\ hook'[h].due = hook[h].due /\ hook'[h].id = hook[h].id
    BY <1>3, <2>1 DEF HooksAtWork
  <2>3. Rescued(h)'
    BY <1>2, <1>3, <1>4, <2>2 DEF Rescued, KeptByPut
  <2>4. Pending(h)'
    BY <1>2, <1>3, <1>4, <2>2, InHand DEF Pending, KeptByPut
  <2>5. QED
    BY <2>3, <2>4 DEF Sound
<1>8. QED
  BY <1>5, <1>6, <1>7 DEF DisarmInv

(* A delete leaves h's claim gone. *)
LEMMA DeleteKeepsInv ==
    ASSUME TypeOK, DisarmInv, NEW h \in Hooks, DeleteRow(h) \/ Unlink(h)
    PROVE  DisarmInv'
<1>1. PICK stem \in Stems :
         /\ docs' = [docs EXCEPT ![hook[h].id]["armed"][stem] = Absent]
         /\ (DeleteRow(h) /\ stem = Canonical) \/ (Unlink(h) /\ stem = hook[h].stem)
  <2>1. Working(h)
    BY DEF DeleteRow, Unlink, Working
  <2>2. hook[h].stem \in Stems /\ Canonical \in Stems
    BY <2>1, InHand, DisarmAssumption
  <2>3. CASE DeleteRow(h)
    BY <2>2, <2>3 DEF DeleteRow, Writes
  <2>4. CASE Unlink(h)
    BY <2>2, <2>4 DEF Unlink, Writes
  <2>5. QED
    BY <2>3, <2>4
<1>2. Working(h) /\ UNCHANGED <<backend, touched>>
  BY DEF DeleteRow, Unlink, Working
<1>3. /\ hook[h] \in HooksAtWork /\ Pending(h) /\ hook[h].id \in Ids
      /\ hook[h].due \in SUBSET Ids
  BY <1>2, InHand
<1>4. ASSUME NEW i \in Ids
      PROVE  /\ AtMostOne(Armed(i)')
             /\ Disarmed(i)' = Disarmed(i)
             /\ Claims(docs', i) => Claims(docs, i) /\ Armed(i)' = Armed(i)
             /\ i = hook[h].id /\ Armed(i)[stem] # Absent => ~Claims(docs', i)
  BY <1>1, <1>3, RemovalKeeps DEF DisarmInv
<1>5. Single'
  BY <1>4 DEF Single
<1>6. Rows'
  <2>1. ASSUME NEW i \in Ids, NEW s \in Stems
        PROVE  Armed(i)'[s] \in {Armed(i)[s], Absent}
    <3>1. Armed(i) \in Directories
      BY DEF TypeOK, Armed, Places
    <3>2. Armed(i)' = Armed(i) \/ Armed(i)' = [Armed(i) EXCEPT ![stem] = Absent]
      BY <1>1, <1>3, WritesOne DEF TypeOK, Armed, Places
    <3>3. QED
      BY <3>1, <3>2 DEF Directories
  <2>2. QED
    BY <1>2, <1>4, <2>1 DEF DisarmInv, Rows
<1>7. ASSUME NEW o \in Hooks, o # h
      PROVE  Sound(o)'
  <2>1. hook'[o] = hook[o]
    BY <1>7 DEF DeleteRow, Unlink, Moved, TypeOK
  <2>2. Working(o) => Sound(o)'
    BY <1>2, <1>4, <2>1, BystanderStaysSound
  <2>3. QED
    BY <2>1, <2>2 DEF Sound, Working
<1>8. hook[h].id \in hook[h].due => ~Claims(docs', hook[h].id)
  <2>1. CASE Unlink(h) /\ stem = hook[h].stem
    <3>1. hook[h].at = "unlink"
      BY <2>1 DEF Unlink
    <3>2. QED
      BY <1>3, <1>4, <2>1, <3>1 DEF Pending
  <2>2. CASE DeleteRow(h) /\ stem = Canonical
    <3>1. backend = "sqlite"
      BY <2>2 DEF DeleteRow
    <3>2. \A s \in Stems \ {Canonical} : Armed(hook[h].id)[s] = Absent
      BY <1>3, <3>1 DEF DisarmInv, Rows
    <3>3. Claims(docs, hook[h].id) => Armed(hook[h].id)[Canonical] # Absent
      BY <3>2 DEF Claims, Existing, Armed
    <3>4. QED
      BY <1>3, <1>4, <2>2, <3>3
  <2>3. QED
    BY <1>1, <2>1, <2>2
<1>9. Sound(h)'
  <2>1. hook'[h] = [hook[h] EXCEPT !.at = "next", !.todo = @ \ {hook[h].id}]
    BY DEF DeleteRow, Unlink, Moved, TypeOK
  <2>2. /\ hook'[h].at = "next" /\ hook'[h].todo = hook[h].todo \ {hook[h].id}
        /\ hook'[h].due = hook[h].due
    BY <1>3, <2>1 DEF HooksAtWork
  <2>3. QED
    BY <1>3, <1>4, <1>8, <2>2 DEF Sound, Rescued, Pending
<1>10. QED
  BY <1>5, <1>6, <1>7, <1>9 DEF DisarmInv

(* What the operator does to id is nobody's concern at work any more, and what
   happens to the others is nothing. *)
LEMMA OperatorKeepsInv ==
    ASSUME TypeOK, DisarmInv, NEW id \in Ids, Touches(id), UNCHANGED backend,
           AtMostOne(Armed(id)'), Rows',
           \A i \in Ids \ {id} : docs'[i] = docs[i]
    PROVE  DisarmInv'
<1>1. \A i \in Ids \ {id} : /\ Armed(i)' = Armed(i) /\ Disarmed(i)' = Disarmed(i)
                            /\ Claims(docs', i) = Claims(docs, i)
  BY DEF Armed, Disarmed, Claims
<1>2. Single'
  BY <1>1 DEF DisarmInv, Single
<1>3. ASSUME NEW o \in Hooks
      PROVE  Sound(o)'
  <2>1. CASE ~Working(o)
    BY <2>1 DEF Touches, Sound, Working, TypeOK
  <2>2. CASE Working(o)
    <3>1. /\ hook[o] \in HooksAtWork /\ Rescued(o) /\ Pending(o)
          /\ hook[o].id \in Ids /\ hook[o].due \in SUBSET Ids
      BY <2>2, InHand
    <3>2. hook'[o] = [hook[o] EXCEPT !.due = @ \ {id}] /\ touched' = touched \cup {id}
      BY <2>2 DEF Touches
    <3>3. /\ hook'[o].at = hook[o].at /\ hook'[o].todo = hook[o].todo
          /\ hook'[o].due = hook[o].due \ {id} /\ hook'[o].id = hook[o].id
          /\ hook'[o].body = hook[o].body /\ hook'[o].stem = hook[o].stem
      BY <3>1, <3>2 DEF HooksAtWork
    <3>4. Rescued(o)'
      BY <1>1, <3>1, <3>2, <3>3 DEF Rescued
    <3>5. Pending(o)'
      BY <1>1, <3>1, <3>3 DEF Pending
    <3>6. QED
      BY <3>4, <3>5 DEF Sound
  <2>3. QED
    BY <2>1, <2>2
<1>4. QED
  BY <1>2, <1>3 DEF DisarmInv

(* A row that the operator writes has the canonical stem. *)
LEMMA RowsOfOne ==
    ASSUME TypeOK, Rows, UNCHANGED backend, NEW id \in Ids, NEW stem \in Stems, NEW doc,
           backend = "sqlite" => stem = Canonical,
           Armed(id)' = [Armed(id) EXCEPT ![stem] = doc],
           \/ Disarmed(id)' = Disarmed(id)
           \/ Disarmed(id)' = [Disarmed(id) EXCEPT ![stem] = Absent],
           \A i \in Ids \ {id} : docs'[i] = docs[i]
    PROVE  Rows'
<1>1. Armed(id) \in Directories /\ Disarmed(id) \in Directories
  BY DEF TypeOK, Armed, Disarmed, Places
<1>2. \A s \in Stems \ {stem} : /\ Armed(id)'[s] = Armed(id)[s]
                               /\ Disarmed(id)'[s] = Disarmed(id)[s]
  BY <1>1 DEF Directories
<1>3. \A i \in Ids \ {id} : Armed(i)' = Armed(i) /\ Disarmed(i)' = Disarmed(i)
  BY DEF Armed, Disarmed
<1>4. ASSUME backend' = "sqlite", NEW i \in Ids, NEW s \in Stems \ {Canonical}
      PROVE  Armed(i)'[s] = Absent /\ Disarmed(i)'[s] = Absent
  <2>1. Armed(i)[s] = Absent /\ Disarmed(i)[s] = Absent /\ stem = Canonical
    BY <1>4 DEF Rows
  <2>2. CASE i = id
    BY <1>2, <2>1, <2>2
  <2>3. CASE i # id
    BY <1>3, <2>1, <2>3
  <2>4. QED
    BY <2>2, <2>3
<1>5. QED
  BY <1>4 DEF Rows

(* Every step keeps DisarmInv. *)
LEMMA DisarmInvStep ==
    ASSUME TypeOK, DisarmInv, [Next]_vars
    PROVE  DisarmInv'
<1>1. ASSUME NEW h \in Hooks, Disarm(h)
      PROVE  DisarmInv'
  <2>1. CASE PutRow(h) \/ Rename(h)
    BY <2>1, PutKeepsInv
  <2>2. CASE DeleteRow(h) \/ Unlink(h)
    BY <2>2, DeleteKeepsInv
  <2>3. CASE \/ Claiming(h) \/ ReadMachine(h) \/ ReadMisses(h) \/ Fails(h)
             \/ FindPlace(h) \/ FindPlaceMisses(h) \/ FindDocument(h) \/ FindDocumentMisses(h)
             \/ Reply(h)
    <3>1. UNCHANGED <<backend, docs>>
      BY <2>3 DEF Claiming, ReadMachine, ReadMisses, Fails, FindPlace, FindPlaceMisses,
         FindDocument, FindDocumentMisses, Reply
    <3>2. QED
      BY <2>3, <3>1, QuietStepKeepsInv
  <2>4. QED
    BY <1>1, <2>1, <2>2, <2>3 DEF Disarm
<1>2. ASSUME Settle \/ ListingMisses \/ UNCHANGED vars
      PROVE  DisarmInv'
  BY <1>2 DEF Settle, ListingMisses, vars, DisarmInv, Single, Rows, Sound, Working, Rescued,
     Pending, Armed,
     Disarmed, Claims
<1>3. ASSUME Crash
      PROVE  DisarmInv'
  BY <1>3 DEF Crash, DisarmInv, Single, Rows, Sound, Working, Armed, Disarmed
<1>4. ASSUME NEW id \in Ids, NEW stem \in Stems, NEW doc \in Bodies \cup {Absent},
             Edit(id, stem, doc)
      PROVE  DisarmInv'
  <2>1. docs' = [docs EXCEPT ![id]["armed"][stem] = doc] /\ Touches(id) /\ UNCHANGED backend
    BY <1>4 DEF Edit, Writes, Touches
  <2>2. Armed(id) \in Directories /\ AtMostOne(Armed(id))
    BY DEF TypeOK, Armed, Places, DisarmInv, Single
  <2>3. Armed(id)' = [Armed(id) EXCEPT ![stem] = doc] /\ Disarmed(id)' = Disarmed(id)
    BY <2>1 DEF TypeOK, Armed, Disarmed, Places
  <2>4. \A i \in Ids \ {id} : docs'[i] = docs[i]
    BY <2>1 DEF TypeOK
  <2>5. \A s \in Stems \ {stem} : Armed(id)[s] = Absent
    BY <1>4, <2>2, OneDocument DEF Edit, Armed
  <2>6. AtMostOne(Armed(id)')
    BY <2>2, <2>3, <2>5 DEF AtMostOne, Directories
  <2>7. Rows'
    BY <1>4, <2>1, <2>3, <2>4, RowsOfOne DEF Edit, DisarmInv
  <2>8. QED
    BY <2>1, <2>4, <2>6, <2>7, OperatorKeepsInv
<1>5. ASSUME NEW id \in Ids, ReArm(id)
      PROVE  DisarmInv'
  <2>1. PICK s \in Existing(Disarmed(id)) :
           docs' = [docs EXCEPT ![id]["armed"][s] = docs[id]["disarmed"][s],
                                ![id]["disarmed"][s] = Absent]
    BY <1>5 DEF ReArm, Disarmed
  <2>2. s \in Stems /\ Armed(id) \in Directories /\ Disarmed(id)[s] # Absent
    BY DEF Existing, TypeOK, Armed, Places
  <2>3. /\ Armed(id)' = [Armed(id) EXCEPT ![s] = Disarmed(id)[s]]
        /\ Disarmed(id)' = [Disarmed(id) EXCEPT ![s] = Absent]
    BY <2>1 DEF TypeOK, Armed, Disarmed, Places
  <2>4. \A i \in Ids \ {id} : docs'[i] = docs[i]
    BY <2>1 DEF TypeOK
  <2>5. \A r \in Stems : Armed(id)[r] = Absent
    BY <1>5, <2>2, OneDocument DEF ReArm, Claims, Armed, DisarmInv, Single
  <2>6. AtMostOne(Armed(id)')
    BY <2>2, <2>3, <2>5 DEF AtMostOne, Directories
  <2>7. Touches(id) /\ UNCHANGED backend
    BY <1>5 DEF ReArm, Touches
  <2>8. Rows'
    <3>1. backend = "sqlite" => s = Canonical
      BY <2>2 DEF DisarmInv, Rows
    <3>2. QED
      BY <2>2, <2>3, <2>4, <2>7, <3>1, RowsOfOne DEF DisarmInv
  <2>9. QED
    BY <2>4, <2>6, <2>7, <2>8, OperatorKeepsInv
<1>6. QED
  BY <1>1, <1>2, <1>3, <1>4, <1>5 DEF Next

(* DisarmInv holds to begin with, nobody being at work, and is kept. *)
LEMMA DisarmInvHolds == Spec => []DisarmInv
<1>1. Init => DisarmInv
  BY DEF Init, DisarmInv, Single, Rows, Sound, Working, Armed, Disarmed, Places
<1>2. QED
  BY <1>1, DisarmInvStep, TypeCorrect, PTL DEF Spec

----------------------------------------------------------------------------
(* The theorems *)

(* The document that armed the machine survives every step of every webhook,
   every failure and every crash, under the one name or the other. *)
THEOREM ClaimSurvivesAlways == Spec => ClaimSurvives
<1>1. ASSUME TypeOK, DisarmInv, [Next]_vars, NEW id \in Ids, id \notin touched,
             Claims(docs, id), edits' = edits
      PROVE  \E place \in Places, s \in Stems :
                docs'[id][place][s] = Document(docs[id]["armed"])
  <2>1. PICK t \in Stems : Armed(id)[t] = Document(Armed(id))
    <3>1. PICK t \in Existing(Armed(id)) : TRUE
      BY <1>1 DEF Claims, Armed
    <3>2. Armed(id) \in Directories /\ AtMostOne(Armed(id))
      BY <1>1 DEF TypeOK, Armed, Places, DisarmInv, Single
    <3>3. QED
      BY <3>2, FoundIsDocument
  <2>2. CASE Armed(id)' = Armed(id)
    BY <2>1, <2>2 DEF Armed, Places
  <2>3. CASE \E h \in Hooks : DeleteRow(h) \/ Unlink(h)
    <3>1. PICK h \in Hooks : DeleteRow(h) \/ Unlink(h)
      BY <2>3
    <3>2. Working(h) /\ hook[h].at \in {"delete", "unlink"}
      BY <3>1 DEF DeleteRow, Unlink, Working
    <3>3. Rescued(h) /\ hook[h].id \in Ids /\ hook[h].stem \in Stems /\ Canonical \in Stems
      BY <1>1, <3>2, InHand, DisarmAssumption
    <3>4. PICK stem \in Stems : docs' = [docs EXCEPT ![hook[h].id]["armed"][stem] = Absent]
      BY <3>1, <3>3 DEF DeleteRow, Unlink, Writes
    <3>5. /\ Disarmed(id)' = Disarmed(id)
          /\ id # hook[h].id => Armed(id)' = Armed(id)
      BY <1>1, <3>3, <3>4 DEF TypeOK, Armed, Disarmed, Places
    <3>6. CASE id = hook[h].id
      <4>1. PICK s \in Stems : Disarmed(id)[s] = Document(Armed(id))
        BY <1>1, <3>2, <3>3, <3>6 DEF Rescued
      <4>2. QED
        BY <3>5, <4>1 DEF Armed, Disarmed, Places
    <3>7. QED
      BY <2>2, <3>5, <3>6
  <2>4. CASE \E h \in Hooks : PutRow(h) \/ Rename(h)
    <3>1. PICK h \in Hooks : PutRow(h) \/ Rename(h)
      BY <2>4
    <3>2. PICK stem : docs' = [docs EXCEPT ![hook[h].id]["disarmed"][stem] = hook[h].body]
      BY <3>1 DEF PutRow, Rename, Writes
    <3>3. Armed(id)' = Armed(id)
      BY <1>1, <3>2 DEF TypeOK, Armed, Places
    <3>4. QED
      BY <2>2, <3>3
  <2>5. ASSUME NEW i \in Ids, ReArm(i) \/ \E s \in Stems, doc \in Bodies \cup {Absent} : Edit(i, s, doc)
        PROVE  FALSE
    <3>1. edits' = edits + 1
      BY <2>5 DEF ReArm, Edit, Touches
    <3>2. edits \in Nat
      BY <1>1, DisarmAssumption DEF TypeOK
    <3>3. QED
      BY <1>1, <3>1, <3>2
  <2>6. CASE UNCHANGED docs
    BY <2>2, <2>6 DEF Armed
  <2>7. QED
    BY <1>1, <2>3, <2>4, <2>5, <2>6 DEF Next, Disarm, Claiming, ReadMachine, ReadMisses, Fails,
       FindPlace, FindPlaceMisses, FindDocument, FindDocumentMisses, Reply, Settle,
       ListingMisses, Crash, vars
<1>2. TypeOK /\ DisarmInv /\ [Next]_vars =>
         [\A id \in Ids \ touched :
             Claims(docs, id) /\ edits' = edits =>
                \E place \in Places, s \in Stems :
                   docs'[id][place][s] = Document(docs[id]["armed"])]_vars
  BY <1>1
<1>3. QED
  BY <1>2, TypeCorrect, DisarmInvHolds, PTL DEF Spec, ClaimSurvives

(* These steps of a webhook are followed by another of the same webhook. *)
LEMMA StaysAtWork ==
    ASSUME TypeOK, NEW h \in Hooks, hook[h] \in HooksAtWork,
           \/ ReadMachine(h) \/ ReadMisses(h) \/ PutRow(h) \/ FindPlace(h)
           \/ FindPlaceMisses(h) \/ Rename(h)
           \/ DeleteRow(h) \/ FindDocument(h) \/ FindDocumentMisses(h) \/ Unlink(h)
    PROVE  \E r : hook' = [hook EXCEPT ![h] = r] /\ r.at \in Busy
<1> DEFINE Next1(r) == hook' = [hook EXCEPT ![h] = r] /\ r.at \in Busy
<1>1. \A step \in Busy : [hook[h] EXCEPT !.at = step].at \in Busy
  BY DEF HooksAtWork
<1>2. CASE PutRow(h) \/ Rename(h)
  <2>1. hook' = [hook EXCEPT ![h] = [hook[h] EXCEPT !.at = "delete"]]
    BY <1>2 DEF PutRow, Rename, Goes
  <2>2. QED
    BY <1>1, <2>1 DEF Busy
<1>3. CASE DeleteRow(h) \/ Unlink(h) \/ FindDocument(h)
  <2>1. ASSUME Moved(h)
        PROVE  Next1([hook[h] EXCEPT !.at = "next", !.todo = @ \ {hook[h].id}])
    BY <2>1 DEF Moved, HooksAtWork, Busy
  <2>2. ASSUME NEW s, hook' = [hook EXCEPT ![h].at = "unlink", ![h].stem = s]
        PROVE  Next1([hook[h] EXCEPT !.at = "unlink", !.stem = s])
    BY <2>2 DEF HooksAtWork, Busy
  <2>3. QED
    BY <1>3, <2>1, <2>2 DEF DeleteRow, Unlink, FindDocument
<1>4. CASE FindPlace(h) \/ FindPlaceMisses(h)
  <2>1. PICK s : hook' = [hook EXCEPT ![h].at = "rename", ![h].stem = s]
    BY <1>4 DEF FindPlace, FindPlaceMisses
  <2>2. Next1([hook[h] EXCEPT !.at = "rename", !.stem = s])
    BY <2>1 DEF HooksAtWork, Busy
  <2>3. QED
    BY <2>2
<1>5. CASE ReadMisses(h)
  <2>1. PICK id : hook' = [hook EXCEPT ![h].todo = @ \ {id}, ![h].due = @ \ {id}]
    BY <1>5 DEF ReadMisses
  <2>2. Next1([hook[h] EXCEPT !.todo = @ \ {id}, !.due = @ \ {id}])
    BY <2>1 DEF HooksAtWork
  <2>3. QED
    BY <2>2
<1>6. CASE ReadMachine(h)
  <2>1. PICK id, doc :
           hook' = IF doc = Absent
                   THEN [hook EXCEPT ![h].todo = @ \ {id}]
                   ELSE [hook EXCEPT ![h].at = "put", ![h].id = id, ![h].body = doc]
    BY <1>6 DEF ReadMachine
  <2>2. CASE doc = Absent
    <3>1. Next1([hook[h] EXCEPT !.todo = @ \ {id}])
      BY <2>1, <2>2 DEF HooksAtWork
    <3>2. QED
      BY <3>1
  <2>3. CASE doc # Absent
    <3>1. Next1([hook[h] EXCEPT !.at = "put", !.id = id, !.body = doc])
      BY <2>1, <2>3 DEF HooksAtWork, Busy
    <3>2. QED
      BY <3>1
  <2>4. QED
    BY <2>2, <2>3
<1>7. CASE FindDocumentMisses(h)
  <2>1. Next1([hook[h] EXCEPT !.at = "next", !.todo = @ \ {hook[h].id}, !.due = @ \ {hook[h].id}])
    BY <1>7 DEF FindDocumentMisses, HooksAtWork, Busy
  <2>2. QED
    BY <2>1
<1>8. QED
  BY <1>2, <1>3, <1>4, <1>5, <1>6, <1>7

(* Who is told "ok" reports a machine that no document claims any more of
   those that did, but for one that could not be read or listed. *)
THEOREM OkMeansDisarmedAlways == Spec => OkMeansDisarmed
<1>1. ASSUME TypeOK, DisarmInv, [Next]_vars, NEW h \in Hooks, Working(h), ~Working(h)',
             hook'[h].reply = "ok", NEW id \in hook[h].due
      PROVE  ~Claims(docs, id)
  <2>1. Pending(h) /\ hook[h] \in HooksAtWork
    BY <1>1, InHand
  <2>2. Reply(h)
    <3>1. ~Settle /\ ~ListingMisses /\ ~UNCHANGED vars
      BY <1>1 DEF Settle, ListingMisses, vars, Working
    <3>2. ~Crash
      BY <1>1 DEF Crash
    <3>3. ASSUME NEW i \in Ids, Touches(i)
          PROVE  FALSE
      <4>1. hook'[h] = [hook[h] EXCEPT !.due = @ \ {i}]
        BY <1>1, <3>3 DEF Touches
      <4>2. hook'[h].at = hook[h].at
        BY <2>1, <4>1 DEF HooksAtWork
      <4>3. QED
        BY <1>1, <4>2 DEF Working
    <3>4. PICK o \in Hooks : Disarm(o)
      BY <1>1, <3>1, <3>2, <3>3 DEF Next, Edit, ReArm
    <3>5. HooksTyped'
      BY <1>1, <3>4, DisarmTypesHooks DEF TypeOK, HooksTyped, Typed
    <3>6. ASSUME NEW r, hook' = [hook EXCEPT ![o] = r], r.at \in Busy \/ r.reply = "still_armed"
          PROVE  FALSE
      <4>1. hook'[h] = IF h = o THEN r ELSE hook[h]
        BY <1>1, <3>6 DEF TypeOK
      <4>2. CASE h # o
        BY <1>1, <4>1, <4>2 DEF Working
      <4>3. CASE h = o
        BY <1>1, <3>6, <4>1, <4>3 DEF Working, Busy
      <4>4. QED
        BY <4>2, <4>3
    <3>7. CASE Claiming(o)
      BY <3>6, <3>7 DEF Claiming, Busy
    <3>8. CASE Fails(o)
      BY <3>6, <3>8 DEF Fails, Replied
    <3>9. CASE Reply(o)
      <4>1. o = h
        BY <1>1, <3>9 DEF Reply, Replied, Working, TypeOK
      <4>2. QED
        BY <3>9, <4>1
    <3>10. CASE \/ ReadMachine(o) \/ ReadMisses(o) \/ PutRow(o) \/ FindPlace(o)
                \/ FindPlaceMisses(o) \/ Rename(o)
                \/ DeleteRow(o) \/ FindDocument(o) \/ FindDocumentMisses(o) \/ Unlink(o)
      <4>1. Working(o)
        BY <3>10 DEF ReadMachine, ReadMisses, PutRow, FindPlace, FindPlaceMisses, Rename, DeleteRow,
           FindDocument, FindDocumentMisses, Unlink, Working
      <4>2. hook[o] \in HooksAtWork
        BY <1>1, <4>1, InHand
      <4>3. QED
        BY <1>1, <3>6, <3>10, <4>2, StaysAtWork
    <3>11. QED
      BY <3>4, <3>7, <3>8, <3>9, <3>10 DEF Disarm
  <2>3. QED
    BY <2>1, <2>2 DEF Reply, Pending
<1>2. TypeOK /\ DisarmInv /\ [Next]_vars =>
         [\A h \in Hooks :
             Working(h) /\ ~Working(h)' /\ hook'[h].reply = "ok" =>
                \A id \in hook[h].due : ~Claims(docs, id)]_vars
  BY <1>1
<1>3. QED
  BY <1>2, TypeCorrect, DisarmInvHolds, PTL DEF Spec, OkMeansDisarmed
=============================================================================
