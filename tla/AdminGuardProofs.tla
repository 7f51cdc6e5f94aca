------------------------- MODULE AdminGuardProofs --------------------------
(***************************************************************************)
(* What the guard promises of a write that nobody interferes with, for     *)
(* every number of clients and of requests, whatever the store holds, and  *)
(* whatever fails: a refused write is undone, only a write that introduces *)
(* a problem is refused, and, where every document has the same format, a  *)
(* kept write breaks nothing.                                              *)
(*                                                                         *)
(* The argument is AloneInv: at each step of guarded, what a request that  *)
(* is still alone has read and what the store holds now are functions of   *)
(* what the store held when the request came.                              *)
(***************************************************************************)
EXTENDS AdminGuard, TLAPS

\* Since the last invalidate, the store has held only what it holds now.
Settled == \A n \in promised..Len(held) : held[n] = store

\* The store as the write leaves it.
Written(r) == [r.start EXCEPT ![r.key] = r.body]

\* What a request knows, and what it has done, by the step it is at.
AloneAt(r) ==
    /\ r.at \in {"asked", "before", "previous", "apply"} => store = r.start
    /\ r.at \in {"applied", "after", "restore"} => store = Written(r)
    /\ r.at \in {"before", "after"} => Settled
    /\ r.at \in {"previous", "apply", "applied", "after", "restore"} =>
          r.before = Problems(r.start)
    /\ r.at \in {"apply", "applied", "after", "restore"} =>
          r.previous = r.start[r.key]
    /\ r.at = "restore" => ~(Problems(store) \subseteq r.before)

AloneInv == \A c \in Clients : InGuard(c) /\ req[c].alone => AloneAt(req[c])

\* Every document of the store is of the same format.
SingleFormat == \A f, g \in Formats : f = g

----------------------------------------------------------------------------
(* What Problems tells apart *)

(* The problems of a chain are told apart from those of documents. *)
LEMMA ChainProblemsOfChains ==
    ASSUME NEW d, NEW f, NEW n, NEW p \in ChainProblems(d, f, n)
    PROVE  p.what \in {"cycle", "unknown"}
BY DEF ChainProblems

(* Where a problem of a document comes from, by what it reports. *)
LEMMA ProblemOf ==
    ASSUME NEW d, NEW p, p.what \notin {"cycle", "unknown"}
    PROVE  p \in Problems(d) <=>
              \/ \E k \in Keys : /\ d[k] = Malformed
                               /\ p = [what |-> "parse", of |-> k, at |-> None]
              \/ \E k \in Dangling(d) :
                    \/ /\ k.kind = "machine"
                       /\ p = [what |-> "machine", of |-> k.name, at |-> d[k].extends]
                    \/ /\ k.kind = "default"
                       /\ p = [what |-> "default", of |-> k, at |-> d[k].extends]
<1> DEFINE Parse == {[what |-> "parse", of |-> k, at |-> None] :
                        k \in {k \in Keys : d[k] = Malformed}}
           Chains == UNION {UNION {ChainProblems(d, f, n) : n \in Parsed(d, f)} :
                               f \in Formats}
           Machine == {[what |-> "machine", of |-> k.name, at |-> d[k].extends] :
                          k \in {k \in Dangling(d) : k.kind = "machine"}}
           Default == {[what |-> "default", of |-> k, at |-> d[k].extends] :
                          k \in {k \in Dangling(d) : k.kind = "default"}}
<1>1. Problems(d) = UNION {Parse, Chains, Machine, Default}
  BY Zenon DEF Problems
<1>2. p \notin Chains
  BY ChainProblemsOfChains
<1>3. p \in Problems(d) <=> p \in Parse \/ p \in Machine \/ p \in Default
  <2> HIDE DEF Parse, Chains, Machine, Default
  <2>1. QED
    BY <1>1, <1>2
<1>4. QED
  BY <1>3

(* In one format, a group is known exactly if it loads. *)
LEMMA KnownIsLoaded ==
    ASSUME SingleFormat, NEW f \in Formats, NEW d
    PROVE  Known(d) = Loaded(d, f)
BY DEF Known, SingleFormat

(* A document that does not parse is reported as itself. *)
LEMMA ParseProblemOf ==
    ASSUME NEW d, NEW k \in Keys
    PROVE  [what |-> "parse", of |-> k, at |-> None] \in Problems(d)
              <=> d[k] = Malformed
<1> DEFINE p == [what |-> "parse", of |-> k, at |-> None]
<1>1. p.what = "parse" /\ p.of = k
  OBVIOUS
<1>2. QED
  BY <1>1, ProblemOf

(* In one format a machine document that points nowhere is reported under
   its machine's name, and nothing else is reported so. *)
LEMMA MachineProblemOf ==
    ASSUME SingleFormat, NEW d, NEW k \in Keys, k.kind = "machine", NEW e
    PROVE  [what |-> "machine", of |-> k.name, at |-> e] \in Problems(d)
              <=> k \in Dangling(d) /\ d[k].extends = e
<1> DEFINE p == [what |-> "machine", of |-> k.name, at |-> e]
<1>1. p.what = "machine" /\ p.of = k.name /\ p.at = e
  OBVIOUS
<1>2. ASSUME NEW o \in Dangling(d), o.kind = "machine", o.name = k.name
      PROVE  o = k
  <2>1. o \in AllKeys /\ k \in AllKeys
    BY AnswerSetAssumption DEF Dangling
  <2>2. QED
    BY <1>2, <2>1 DEF AllKeys, SingleFormat
<1> HIDE DEF p
<1>3. p \in Problems(d) <=> \E o \in Dangling(d) :
         o.kind = "machine" /\ p = [what |-> "machine", of |-> o.name, at |-> d[o].extends]
  BY <1>1, ProblemOf
<1>4. QED
  BY <1>1, <1>2, <1>3 DEF p

(* A default that points nowhere is reported as itself. *)
LEMMA DefaultProblemOf ==
    ASSUME NEW d, NEW k \in Keys, k.kind = "default", NEW e
    PROVE  [what |-> "default", of |-> k, at |-> e] \in Problems(d)
              <=> k \in Dangling(d) /\ d[k].extends = e
<1> DEFINE p == [what |-> "default", of |-> k, at |-> e]
<1>1. p.what = "default" /\ p.of = k /\ p.at = e
  OBVIOUS
<1> HIDE DEF p
<1>2. p \in Problems(d) <=> \E o \in Dangling(d) :
         o.kind = "default" /\ p = [what |-> "default", of |-> o, at |-> d[o].extends]
  BY <1>1, ProblemOf
<1>3. QED
  BY <1>1, <1>2 DEF p

(* In one format, a store that shows no more problems than another has no
   more documents that resolve refuses. *)
LEMMA ProblemsShowFailing ==
    ASSUME SingleFormat, NEW old \in DocSets, NEW new \in DocSets,
           Problems(new) \subseteq Problems(old)
    PROVE  Failing(new) \subseteq Failing(old)
<1> SUFFICES ASSUME NEW k \in Failing(new)
             PROVE  k \in Failing(old)
  OBVIOUS
<1>1. k \in Keys /\ k.kind # "group" /\ new[k] # Absent
  BY DEF Failing
<1>2. CASE new[k] = Malformed
  <2>1. old[k] = Malformed
    BY <1>1, <1>2, ParseProblemOf
  <2>2. QED
    BY <1>1, <2>1, AnswerSetAssumption DEF Failing, Documents
<1>3. CASE new[k].extends \notin Loaded(new, k.format) \cup {None}
  <2>1. k.kind \in {"machine", "default"} /\ k.format \in Formats
    BY <1>1, AnswerSetAssumption DEF AllKeys
  <2>2. k \in Dangling(new)
    BY <1>1, <1>3, <2>1, KnownIsLoaded DEF Dangling
  <2>3. k \in Dangling(old)
    <3>1. CASE k.kind = "machine"
      <4>1. [what |-> "machine", of |-> k.name, at |-> new[k].extends] \in Problems(old)
        BY <1>1, <2>2, <3>1, MachineProblemOf
      <4>2. QED
        BY <1>1, <3>1, <4>1, MachineProblemOf
    <3>2. CASE k.kind = "default"
      <4>1. [what |-> "default", of |-> k, at |-> new[k].extends] \in Problems(old)
        BY <1>1, <2>2, <3>2, DefaultProblemOf
      <4>2. QED
        BY <1>1, <3>2, <4>1, DefaultProblemOf
    <3>3. QED
      BY <2>1, <3>1, <3>2
  <2>4. QED
    BY <1>1, <2>1, <2>3, KnownIsLoaded DEF Failing, Dangling
<1>4. QED
  BY <1>2, <1>3 DEF Failing

----------------------------------------------------------------------------
(* Types *)

(* What the store holds now is one of the document sets. *)
LEMMA StoreTyped ==
    ASSUME TypeOK
    PROVE  store \in DocSets
BY DEF TypeOK, store

(* A request in the guard has all its fields. *)
LEMMA InGuardTyped ==
    ASSUME TypeOK, NEW c \in Clients, InGuard(c)
    PROVE  /\ req[c].at \in Steps \ {"idle"} /\ req[c].reply = "none"
           /\ req[c].key \in Keys /\ req[c].body \in WellFormed \cup {Absent}
           /\ req[c].before \in Reports \cup {{}}
           /\ req[c].previous \in Documents \cup {Absent, None}
           /\ req[c].start \in DocSets /\ req[c].alone \in BOOLEAN
           /\ req[c] = [at |-> req[c].at, reply |-> "none", key |-> req[c].key,
                        body |-> req[c].body, before |-> req[c].before,
                        previous |-> req[c].previous, start |-> req[c].start,
                        alone |-> req[c].alone]
BY DEF TypeOK, InGuard, Requests

(* A request that goes on to its next step is still one, *)
LEMMA StepTyped ==
    ASSUME TypeOK, NEW c \in Clients, InGuard(c), NEW s \in Steps \ {"idle"}
    PROVE  [req[c] EXCEPT !.at = s] \in Requests
BY DEF TypeOK, InGuard, Requests

(* whatever its fields range over: *)
LEMMA FieldsUpdated ==
    ASSUME NEW At, NEW Rp, NEW Ks, NEW Bs, NEW Rs, NEW Ds, NEW Ss, NEW As,
           NEW r \in [at: At, reply: Rp, key: Ks, body: Bs, before: Rs,
                      previous: Ds, start: Ss, alone: As],
           NEW s \in At, NEW b \in Rs, NEW d \in Ds
    PROVE  /\ [r EXCEPT !.at = s, !.before = b]
              \in [at: At, reply: Rp, key: Ks, body: Bs, before: Rs,
                   previous: Ds, start: Ss, alone: As]
           /\ [r EXCEPT !.at = s, !.previous = d]
              \in [at: At, reply: Rp, key: Ks, body: Bs, before: Rs,
                   previous: Ds, start: Ss, alone: As]
           /\ [r EXCEPT !.at = s, !.previous = d].previous = d
OBVIOUS

(* also with the problems it has read, *)
LEMMA BeforeTyped ==
    ASSUME TypeOK, NEW c \in Clients, InGuard(c), NEW b \in Reports
    PROVE  [req[c] EXCEPT !.at = "previous", !.before = b] \in Requests
<1>1. "previous" \in Steps \ {"idle"}
  BY DEF Steps
<1>2. req[c] \in [at: Steps \ {"idle"}, reply: {"none"}, key: Keys,
                  body: WellFormed \cup {Absent}, before: Reports \cup {{}},
                  previous: Documents \cup {Absent, None}, start: DocSets, alone: BOOLEAN]
  BY DEF TypeOK, InGuard, Requests
<1>3. req[c].previous \in Documents \cup {Absent, None}
  BY InGuardTyped
<1>4. b \in Reports \cup {{}}
  OBVIOUS
<1>5. [req[c] EXCEPT !.at = "previous", !.before = b]
      \in [at: Steps \ {"idle"}, reply: {"none"}, key: Keys,
           body: WellFormed \cup {Absent}, before: Reports \cup {{}},
           previous: Documents \cup {Absent, None}, start: DocSets, alone: BOOLEAN]
  BY <1>1, <1>2, <1>3, <1>4, FieldsUpdated
<1>6. QED
  BY <1>5 DEF Requests

(* and with the document it has read. *)
LEMMA PreviousTyped ==
    ASSUME TypeOK, NEW c \in Clients, InGuard(c), NEW d \in Documents \cup {Absent}
    PROVE  /\ [req[c] EXCEPT !.at = "apply", !.previous = d] \in Requests
           /\ [req[c] EXCEPT !.at = "apply", !.previous = d].previous = d
<1>1. "apply" \in Steps \ {"idle"}
  BY DEF Steps
<1>2. req[c] \in [at: Steps \ {"idle"}, reply: {"none"}, key: Keys,
                  body: WellFormed \cup {Absent}, before: Reports \cup {{}},
                  previous: Documents \cup {Absent, None}, start: DocSets, alone: BOOLEAN]
  BY DEF TypeOK, InGuard, Requests
<1>3. req[c].before \in Reports \cup {{}}
  BY InGuardTyped
<1>4. d \in Documents \cup {Absent, None}
  OBVIOUS
<1>5. /\ [req[c] EXCEPT !.at = "apply", !.previous = d]
         \in [at: Steps \ {"idle"}, reply: {"none"}, key: Keys,
              body: WellFormed \cup {Absent}, before: Reports \cup {{}},
              previous: Documents \cup {Absent, None}, start: DocSets, alone: BOOLEAN]
      /\ [req[c] EXCEPT !.at = "apply", !.previous = d].previous = d
  BY <1>1, <1>2, <1>3, <1>4, FieldsUpdated
<1>6. QED
  BY <1>5 DEF Requests

(* A request that is no longer alone is still a request. *)
LEMMA NotAloneTyped ==
    ASSUME NEW r \in Requests
    PROVE  /\ NotAlone(r) \in Requests
           /\ NotAlone(r).at = r.at
           /\ r.at # "idle" => NotAlone(r).previous = r.previous /\ ~NotAlone(r).alone
BY DEF NotAlone, Requests

(* The store holds d from now on. *)
LEMMA HoldsTyped ==
    ASSUME TypeOK, NEW d \in DocSets, Holds(d)
    PROVE  /\ held' \in Seq(DocSets) /\ Len(held') = Len(held) + 1
           /\ store' = d /\ promised \in 1..Len(held')
BY DEF TypeOK, Holds, store

(* A write of client c keeps every request one. *)
LEMMA WritesTyped ==
    ASSUME TypeOK, NEW c \in Clients, NEW doc \in Documents \cup {Absent},
           NEW r \in Requests, req[c].key \in Keys, Writes(c, doc, r),
           r.at \in {"apply", "applied", "after", "restore"} =>
              r.previous \in Documents \cup {Absent}
    PROVE  /\ held' \in Seq(DocSets) /\ Len(held') = Len(held) + 1
           /\ promised' \in 1..Len(held')
           /\ req' \in [Clients -> Requests]
           /\ \A o \in Clients :
                 req'[o].at \in {"apply", "applied", "after", "restore"} =>
                    req'[o].previous \in Documents \cup {Absent}
<1>1. [store EXCEPT ![req[c].key] = doc] \in DocSets
  BY StoreTyped DEF DocSets
<1>2. Holds([store EXCEPT ![req[c].key] = doc])
  BY DEF Writes
<1>3. \A o \in Clients : req[o] \in Requests /\ req'[o] = IF o = c THEN r ELSE NotAlone(req[o])
  BY DEF Writes, TypeOK
<1>4. req' \in [Clients -> Requests]
  BY <1>3, NotAloneTyped DEF Writes
<1>5. QED
  BY <1>1, <1>2, <1>3, <1>4, HoldsTyped, NotAloneTyped DEF Writes, TypeOK

(* The type invariant: every variable of AdminGuard keeps its type. *)
THEOREM TypeCorrect == Spec => []TypeOK
<1>1. Init => TypeOK
  BY AdminGuardAssumption DEF Init, TypeOK, Resting, Requests, Replies
<1>2. TypeOK /\ [Next]_vars => TypeOK'
  <2> SUFFICES ASSUME TypeOK, [Next]_vars
               PROVE  TypeOK'
    OBVIOUS
  <2> USE AdminGuardAssumption
  <2>1. ASSUME NEW c \in Clients, NEW k \in Keys, NEW b \in WellFormed \cup {Absent},
               Ask(c, k, b)
        PROVE  TypeOK'
    BY <2>1, StoreTyped DEF Ask, TypeOK, Requests, Steps
  <2>2. ASSUME NEW c \in Clients, InvalidateBefore(c)
        PROVE  TypeOK'
    <3>1. [req[c] EXCEPT !.at = "before"] \in Requests
      BY <2>2, StepTyped DEF InvalidateBefore, InGuard, Steps
    <3>2. QED
      BY <2>2, <3>1 DEF InvalidateBefore, Goes, TypeOK
  <2>3. ASSUME NEW c \in Clients, ReadBefore(c)
        PROVE  TypeOK'
    <3>1. PICK n \in promised..Len(held) :
             req' = [req EXCEPT ![c].at = "previous", ![c].before = Problems(held[n])]
      BY <2>3 DEF ReadBefore
    <3>2. Problems(held[n]) \in Reports
      <4>1. held[n] \in DocSets
        BY DEF TypeOK
      <4>2. QED
        BY <4>1 DEF Reports
    <3> DEFINE r == [req[c] EXCEPT !.at = "previous", !.before = Problems(held[n])]
    <3>3. r \in Requests /\ r.at = "previous"
      <4>1. r \in Requests
        BY <2>3, <3>2, BeforeTyped DEF ReadBefore, InGuard
      <4>2. r.at = "previous"
        BY <2>3, InGuardTyped DEF ReadBefore, InGuard
      <4>3. QED
        BY <4>1, <4>2
    <3>4. req' = [req EXCEPT ![c] = r]
      BY <3>1
    <3> HIDE DEF r
    <3>5. QED
      BY <2>3, <3>3, <3>4 DEF ReadBefore, TypeOK
  <2>4. ASSUME NEW c \in Clients, ReadPrevious(c)
        PROVE  TypeOK'
    <3> DEFINE d == store[req[c].key]
               r == [req[c] EXCEPT !.at = "apply", !.previous = d]
    <3>1. d \in Documents \cup {Absent}
      BY <2>4, InGuardTyped, StoreTyped DEF ReadPrevious, InGuard, DocSets
    <3>2. req' = [req EXCEPT ![c] = r]
      BY <2>4 DEF ReadPrevious
    <3> HIDE DEF d
    <3>3. r \in Requests /\ r.previous = d
      BY <2>4, <3>1, PreviousTyped DEF ReadPrevious, InGuard
    <3> HIDE DEF r
    <3>4. QED
      BY <2>4, <3>1, <3>2, <3>3 DEF ReadPrevious, TypeOK
  <2>5. ASSUME NEW c \in Clients, ReadFails(c)
        PROVE  TypeOK'
    BY <2>5 DEF ReadFails, Fault, Answered, TypeOK, Requests, Replies
  <2>6. ASSUME NEW c \in Clients, ApplyFindsNothing(c)
        PROVE  TypeOK'
    BY <2>6 DEF ApplyFindsNothing, Answered, TypeOK, Requests, Replies
  <2>7. ASSUME NEW c \in Clients, Apply(c)
        PROVE  TypeOK'
    <3> DEFINE r == [req[c] EXCEPT !.at = "applied"]
    <3>1. InGuard(c) /\ req[c].body \in Documents \cup {Absent} /\ req[c].key \in Keys
      BY <2>7, InGuardTyped DEF Apply, InGuard, Documents
    <3>2. r \in Requests /\ r.previous \in Documents \cup {Absent}
      BY <2>7, <3>1, InGuardTyped DEF Apply, TypeOK, Requests, Steps
    <3> HIDE DEF r
    <3>3. Writes(c, req[c].body, r)
      BY <2>7 DEF Apply, r
    <3>4. QED
      BY <2>7, <3>1, <3>2, <3>3, WritesTyped DEF Apply, TypeOK
  <2>8. ASSUME NEW c \in Clients, ApplyFails(c)
        PROVE  TypeOK'
    BY <2>8 DEF ApplyFails, Fault, Answered, TypeOK, Requests, Replies
  <2>9. ASSUME NEW c \in Clients, InvalidateAfter(c)
        PROVE  TypeOK'
    <3> DEFINE r == [req[c] EXCEPT !.at = "after"]
    <3>1. InGuard(c) /\ req[c].previous \in Documents \cup {Absent}
      BY <2>9 DEF InvalidateAfter, InGuard, TypeOK
    <3>2. "after" \in Steps \ {"idle"}
      BY DEF Steps
    <3>3. r \in Requests
      BY <3>1, <3>2, StepTyped
    <3>4. r.previous = req[c].previous
      BY <3>1, InGuardTyped
    <3> HIDE DEF r
    <3>5. req' = [req EXCEPT ![c] = r]
      BY <2>9 DEF InvalidateAfter, Goes, r
    <3>6. QED
      BY <2>9, <3>1, <3>3, <3>4, <3>5 DEF InvalidateAfter, TypeOK
  <2>10. ASSUME NEW c \in Clients, ReadAfter(c)
         PROVE  TypeOK'
    <3>1. CASE Answered(c, "kept")
      BY <2>10, <3>1 DEF ReadAfter, Answered, TypeOK, Requests, Replies
    <3>2. CASE Goes(c, "restore")
      <4> DEFINE r == [req[c] EXCEPT !.at = "restore"]
      <4>1. InGuard(c) /\ req[c].previous \in Documents \cup {Absent}
        BY <2>10 DEF ReadAfter, InGuard, TypeOK
      <4>2. "restore" \in Steps \ {"idle"}
        BY DEF Steps
      <4>3. r \in Requests
        BY <4>1, <4>2, StepTyped
      <4>4. r.previous = req[c].previous
        BY <4>1, InGuardTyped
      <4> HIDE DEF r
      <4>5. req' = [req EXCEPT ![c] = r]
        BY <3>2 DEF Goes, r
      <4>6. QED
        BY <2>10, <4>1, <4>3, <4>4, <4>5 DEF ReadAfter, TypeOK
    <3>3. QED
      BY <2>10, <3>1, <3>2 DEF ReadAfter
  <2>11. ASSUME NEW c \in Clients, ReadAfterFails(c)
         PROVE  TypeOK'
    BY <2>11 DEF ReadAfterFails, Fault, Answered, TypeOK, Requests, Replies
  <2>12. ASSUME NEW c \in Clients, Restore(c)
         PROVE  TypeOK'
    <3> DEFINE r == [at |-> "idle", reply |-> "refused"]
    <3>1. req[c].previous \in Documents \cup {Absent} /\ req[c].key \in Keys
      BY <2>12, InGuardTyped DEF Restore, InGuard, TypeOK
    <3>2. r \in Requests /\ r.at = "idle"
      BY DEF Requests, Replies
    <3> HIDE DEF r
    <3>3. Writes(c, req[c].previous, r)
      BY <2>12 DEF Restore, r
    <3>4. QED
      BY <2>12, <3>1, <3>2, <3>3, WritesTyped DEF Restore, TypeOK
  <2>13. ASSUME NEW c \in Clients, RestoreFails(c)
         PROVE  TypeOK'
    BY <2>13 DEF RestoreFails, Fault, Answered, TypeOK, Requests, Replies
  <2>14. ASSUME Crash
         PROVE  TypeOK'
    BY <2>14 DEF Crash, Fault, Resting, TypeOK, Requests, Replies
  <2>15. ASSUME NEW k \in Keys, NEW d \in Documents \cup {Absent}, Edit(k, d)
         PROVE  TypeOK'
    <3>1. [store EXCEPT ![k] = d] \in DocSets
      BY StoreTyped DEF DocSets
    <3>2. Holds([store EXCEPT ![k] = d])
      BY <2>15 DEF Edit
    <3>3. \A o \in Clients : req[o] \in Requests /\ req'[o] = NotAlone(req[o])
      BY <2>15 DEF Edit, TypeOK
    <3>4. req' \in [Clients -> Requests]
      BY <2>15, <3>3, NotAloneTyped DEF Edit
    <3>5. QED
      BY <2>15, <3>1, <3>2, <3>3, <3>4, HoldsTyped, NotAloneTyped DEF Edit, TypeOK
  <2>16. ASSUME UNCHANGED vars
         PROVE  TypeOK'
    BY <2>16 DEF vars, TypeOK
  <2>17. QED
    BY <2>1, <2>2, <2>3, <2>4, <2>5, <2>6, <2>7, <2>8, <2>9, <2>10, <2>11, <2>12,
       <2>13, <2>14, <2>15, <2>16 DEF Next, Guarded
<1>3. QED
  BY <1>1, <1>2, PTL DEF Spec

----------------------------------------------------------------------------
(* A request nobody interferes with *)

(* What an invalidate promises, once the store changes no more. *)
LEMMA InvalidateSettles ==
    ASSUME TypeOK, UNCHANGED held, promised' = Len(held)
    PROVE  Settled'
BY DEF TypeOK, Settled, store

(* Putting back what was there undoes a write. *)
LEMMA WrittenBack ==
    ASSUME NEW d \in DocSets, NEW k \in Keys, NEW b
    PROVE  [[d EXCEPT ![k] = b] EXCEPT ![k] = d[k]] = d
BY DEF DocSets

(* Steps keep AloneInv: a step of the request itself, a step of another one,
   which if it writes ends the loneliness of all others, and an edit. *)
LEMMA AloneInvStep ==
    ASSUME TypeOK, AloneInv, [Next]_vars
    PROVE  AloneInv'
<1> SUFFICES ASSUME NEW o \in Clients, InGuard(o)', req'[o].alone
             PROVE  AloneAt(req[o])'
  BY DEF AloneInv
<1>1. ASSUME req'[o] = req[o], UNCHANGED held,
             promised' = promised \/ promised' = Len(held)
      PROVE  AloneAt(req[o])'
  <2>1. AloneAt(req[o]) /\ UNCHANGED store
    BY <1>1 DEF AloneInv, InGuard, store
  <2>2. Settled => Settled'
    BY <1>1, <2>1, InvalidateSettles DEF Settled
  <2>3. QED
    BY <1>1, <2>1, <2>2 DEF AloneAt, Written
<1>2. ASSUME NEW c \in Clients, NEW doc, NEW r, Writes(c, doc, r)
      PROVE  o = c
  <2>1. o # c => req'[o] = NotAlone(req[o]) /\ req[o] \in Requests
    BY <1>2 DEF Writes, TypeOK
  <2>2. QED
    BY <2>1, NotAloneTyped DEF InGuard
<1>3. ASSUME NEW c \in Clients, NEW k \in Keys, NEW b \in WellFormed \cup {Absent},
             Ask(c, k, b)
      PROVE  AloneAt(req[o])'
  <2>1. CASE o = c
    BY <1>3, <2>1 DEF Ask, AloneAt, TypeOK, store
  <2>2. CASE o # c
    BY <1>1, <1>3, <2>2 DEF Ask, TypeOK
  <2>3. QED
    BY <2>1, <2>2
<1>4. ASSUME NEW c \in Clients, InvalidateBefore(c)
      PROVE  AloneAt(req[o])'
  <2>1. CASE o = c
    <3>1. AloneAt(req[c])
      BY <1>4, <2>1 DEF InvalidateBefore, Goes, AloneInv, InGuard, TypeOK, Requests
    <3>2. Settled' /\ UNCHANGED store
      BY <1>4, InvalidateSettles DEF InvalidateBefore, store
    <3>3. QED
      BY <1>4, <2>1, <3>1, <3>2 DEF InvalidateBefore, Goes, AloneAt, TypeOK
  <2>2. CASE o # c
    BY <1>1, <1>4, <2>2 DEF InvalidateBefore, Goes, TypeOK
  <2>3. QED
    BY <2>1, <2>2
<1>5. ASSUME NEW c \in Clients, ReadBefore(c)
      PROVE  AloneAt(req[o])'
  <2>1. CASE o = c
    <3>1. AloneAt(req[c])
      BY <1>5, <2>1 DEF ReadBefore, AloneInv, InGuard, TypeOK, Requests
    <3>2. PICK n \in promised..Len(held) :
             req' = [req EXCEPT ![c].at = "previous", ![c].before = Problems(held[n])]
      BY <1>5 DEF ReadBefore
    <3>3. held[n] = req[c].start /\ UNCHANGED store
      BY <1>5, <3>1 DEF ReadBefore, AloneAt, Settled, store
    <3>4. QED
      BY <1>5, <2>1, <3>1, <3>2, <3>3 DEF ReadBefore, AloneAt, TypeOK, Requests
  <2>2. CASE o # c
    BY <1>1, <1>5, <2>2 DEF ReadBefore, TypeOK
  <2>3. QED
    BY <2>1, <2>2
<1>6. ASSUME NEW c \in Clients, ReadPrevious(c)
      PROVE  AloneAt(req[o])'
  <2>1. CASE o = c
    <3>1. AloneAt(req[c])
      BY <1>6, <2>1 DEF ReadPrevious, AloneInv, InGuard, TypeOK, Requests
    <3>2. UNCHANGED store
      BY <1>6 DEF ReadPrevious, store
    <3>3. QED
      BY <1>6, <2>1, <3>1, <3>2 DEF ReadPrevious, AloneAt, TypeOK, Requests
  <2>2. CASE o # c
    BY <1>1, <1>6, <2>2 DEF ReadPrevious, TypeOK
  <2>3. QED
    BY <2>1, <2>2
<1>7. ASSUME NEW c \in Clients, ReadFails(c)
      PROVE  AloneAt(req[o])'
  <2>1. o # c
    BY <1>7 DEF ReadFails, Answered, InGuard, TypeOK
  <2>2. QED
    BY <1>1, <1>7, <2>1 DEF ReadFails, Answered, TypeOK
<1>8. ASSUME NEW c \in Clients, ApplyFindsNothing(c)
      PROVE  AloneAt(req[o])'
  <2>1. o # c
    BY <1>8 DEF ApplyFindsNothing, Answered, InGuard, TypeOK
  <2>2. QED
    BY <1>1, <1>8, <2>1 DEF ApplyFindsNothing, Answered, TypeOK
<1>9. ASSUME NEW c \in Clients, ApplyFails(c)
      PROVE  AloneAt(req[o])'
  <2>1. o # c
    BY <1>9 DEF ApplyFails, Answered, InGuard, TypeOK
  <2>2. QED
    BY <1>1, <1>9, <2>1 DEF ApplyFails, Answered, TypeOK
<1>10. ASSUME NEW c \in Clients, ReadAfterFails(c)
      PROVE  AloneAt(req[o])'
  <2>1. o # c
    BY <1>10 DEF ReadAfterFails, Answered, InGuard, TypeOK
  <2>2. QED
    BY <1>1, <1>10, <2>1 DEF ReadAfterFails, Answered, TypeOK
<1>11. ASSUME NEW c \in Clients, RestoreFails(c)
      PROVE  AloneAt(req[o])'
  <2>1. o # c
    BY <1>11 DEF RestoreFails, Answered, InGuard, TypeOK
  <2>2. QED
    BY <1>1, <1>11, <2>1 DEF RestoreFails, Answered, TypeOK
<1>12. ASSUME NEW c \in Clients, Apply(c)
       PROVE  AloneAt(req[o])'
  <2>1. o = c
    BY <1>2, <1>12 DEF Apply
  <2>2. req'[c] = [req[c] EXCEPT !.at = "applied"]
    BY <1>12 DEF Apply, Writes
  <2>3. AloneAt(req[c]) /\ req[c].at = "apply"
    BY <1>12, <2>1, <2>2 DEF Apply, AloneInv, InGuard, TypeOK, Requests
  <2>4. [store EXCEPT ![req[c].key] = req[c].body] \in DocSets
    BY <1>12, StoreTyped, InGuardTyped DEF Apply, InGuard, DocSets, Documents
  <2>5. store' = Written(req[c])
    BY <1>12, <2>3, <2>4, HoldsTyped DEF Apply, Writes, AloneAt, Written
  <2>6. QED
    BY <1>12, <2>1, <2>2, <2>3, <2>5 DEF AloneAt, Written, TypeOK, Requests
<1>13. ASSUME NEW c \in Clients, InvalidateAfter(c)
      PROVE  AloneAt(req[o])'
  <2>1. CASE o = c
    <3>1. AloneAt(req[c])
      BY <1>13, <2>1 DEF InvalidateAfter, Goes, AloneInv, InGuard, TypeOK, Requests
    <3>2. Settled' /\ UNCHANGED store
      BY <1>13, InvalidateSettles DEF InvalidateAfter, store
    <3>3. QED
      BY <1>13, <2>1, <3>1, <3>2
      DEF InvalidateAfter, Goes, AloneAt, Written, TypeOK, Requests
  <2>2. CASE o # c
    BY <1>1, <1>13, <2>2 DEF InvalidateAfter, Goes, TypeOK
  <2>3. QED
    BY <2>1, <2>2
<1>14. ASSUME NEW c \in Clients, ReadAfter(c)
      PROVE  AloneAt(req[o])'
  <2>1. CASE o = c
    <3>1. PICK n \in promised..Len(held) :
             /\ ~(Problems(held[n]) \subseteq req[c].before)
             /\ Goes(c, "restore")
      BY <1>14, <2>1 DEF ReadAfter, Answered, InGuard, TypeOK
    <3>2. AloneAt(req[c])
      BY <1>14, <2>1, <3>1 DEF ReadAfter, Goes, AloneInv, InGuard, TypeOK, Requests
    <3>3. held[n] = store /\ UNCHANGED store
      BY <1>14, <3>1, <3>2 DEF ReadAfter, AloneAt, Settled, store
    <3>4. QED
      BY <1>14, <2>1, <3>1, <3>2, <3>3
      DEF ReadAfter, Goes, AloneAt, Written, TypeOK, Requests
  <2>2. CASE o # c
    BY <1>1, <1>14, <2>2 DEF ReadAfter, Goes, Answered, TypeOK
  <2>3. QED
    BY <2>1, <2>2
<1>15. ASSUME NEW c \in Clients, Restore(c)
       PROVE  AloneAt(req[o])'
  <2>1. o = c
    BY <1>2, <1>15 DEF Restore
  <2>2. QED
    BY <1>15, <2>1 DEF Restore, Writes, InGuard
<1>16. ASSUME Crash
       PROVE  AloneAt(req[o])'
  BY <1>16 DEF Crash, Resting, InGuard
<1>17. ASSUME NEW k \in Keys, NEW d \in Documents \cup {Absent}, Edit(k, d)
       PROVE  AloneAt(req[o])'
  <2>1. req'[o] = NotAlone(req[o]) /\ req[o] \in Requests
    BY <1>17 DEF Edit, TypeOK
  <2>2. QED
    BY <2>1, NotAloneTyped DEF InGuard
<1>18. ASSUME UNCHANGED vars
       PROVE  AloneAt(req[o])'
  BY <1>1, <1>18 DEF vars
<1>19. QED
  BY <1>3, <1>4, <1>5, <1>6, <1>7, <1>8, <1>9, <1>10, <1>11, <1>12, <1>13, <1>14,
     <1>15, <1>16, <1>17, <1>18 DEF Next, Guarded

----------------------------------------------------------------------------
(* The theorems *)

(* AloneInv holds to begin with, nobody being in the guard, and is kept. *)
LEMMA AloneInvHolds == Spec => []AloneInv
<1>1. Init => AloneInv
  BY DEF Init, AloneInv, InGuard, Resting
<1>2. QED
  BY <1>1, AloneInvStep, TypeCorrect, PTL DEF Spec

(* Who answers c is a step of c's own request. *)
LEMMA AnswersIsGuarded ==
    ASSUME TypeOK, NEW c \in Clients, NEW reply \in Replies \ {"none"}, [Next]_vars,
           Answers(c, reply)
    PROVE  Guarded(c)
<1>1. req'[c] # req[c] /\ req'[c].at = "idle" /\ req'[c].reply # "none" /\ req[c].at # "idle"
  BY DEF Answers, InGuard
<1>2. ASSUME NEW o \in Clients, NEW k, NEW b, Ask(o, k, b)
      PROVE  FALSE
  BY <1>1, <1>2 DEF Ask, TypeOK, InGuard
<1>3. ASSUME NEW o \in Clients, o # c, Guarded(o)
      PROVE  FALSE
  <2>1. req'[c] = req[c] \/ req'[c] = NotAlone(req[c])
    BY <1>3 DEF Guarded, InvalidateBefore, ReadBefore, ReadPrevious, ReadFails, Apply,
       ApplyFindsNothing, ApplyFails, InvalidateAfter, ReadAfter, ReadAfterFails,
       Restore, RestoreFails, Goes, Answered, Writes, TypeOK
  <2>2. QED
    BY <1>1, <2>1, NotAloneTyped DEF TypeOK
<1>4. ASSUME Crash
      PROVE  FALSE
  BY <1>1, <1>4 DEF Crash, Resting
<1>5. ASSUME NEW k, NEW d, Edit(k, d)
      PROVE  FALSE
  BY <1>1, <1>5, NotAloneTyped DEF Edit, TypeOK
<1>6. QED
  BY <1>1, <1>2, <1>3, <1>4, <1>5 DEF Next, vars

(* Steps that only move a request on do not answer it. *)
LEMMA GoesOn ==
    ASSUME NEW c \in Clients, TypeOK, NEW reply, Answers(c, reply),
           InvalidateBefore(c) \/ ReadBefore(c) \/ ReadPrevious(c) \/ InvalidateAfter(c)
    PROVE  FALSE
<1>1. req[c] \in Requests /\ req[c].at # "idle" /\ req'[c].at = "idle"
  BY DEF Answers, InGuard, TypeOK
<1>2. QED
  BY <1>1 DEF InvalidateBefore, ReadBefore, ReadPrevious, InvalidateAfter, Goes, TypeOK,
     Requests

(* Nor does a write that succeeds. *)
LEMMA ApplyGoesOn ==
    ASSUME NEW c \in Clients, TypeOK, NEW reply, Answers(c, reply), Apply(c)
    PROVE  FALSE
<1>1. req[c] \in Requests /\ req[c].at # "idle" /\ req'[c].at = "idle"
  BY DEF Answers, InGuard, TypeOK
<1>2. req'[c] = [req[c] EXCEPT !.at = "applied"]
  BY DEF Apply, Writes
<1>3. QED
  BY <1>1, <1>2 DEF Requests

(* The reply "refused" is the end of Restore. *)
LEMMA RefusedByRestore ==
    ASSUME NEW c \in Clients, TypeOK, Guarded(c), Answers(c, "refused")
    PROVE  Restore(c)
<1>1. ~(ReadFails(c) \/ ApplyFindsNothing(c) \/ ApplyFails(c) \/ ReadAfterFails(c)
          \/ RestoreFails(c))
  BY DEF Answers, Answered, ReadFails, ApplyFindsNothing, ApplyFails, ReadAfterFails,
     RestoreFails, TypeOK
<1>2. ~ReadAfter(c)
  BY DEF Answers, InGuard, Answered, Goes, ReadAfter, TypeOK, Requests
<1>3. QED
  BY <1>1, <1>2, GoesOn, ApplyGoesOn DEF Guarded

(* The reply "kept" is that of a ReadAfter which saw no new problem. *)
LEMMA KeptByReadAfter ==
    ASSUME NEW c \in Clients, TypeOK, Guarded(c), Answers(c, "kept")
    PROVE  /\ req[c].at = "after" /\ UNCHANGED held
           /\ \E n \in promised..Len(held) : Problems(held[n]) \subseteq req[c].before
<1>1. ~(ReadFails(c) \/ ApplyFindsNothing(c) \/ ApplyFails(c) \/ ReadAfterFails(c)
          \/ RestoreFails(c))
  BY DEF Answers, Answered, ReadFails, ApplyFindsNothing, ApplyFails, ReadAfterFails,
     RestoreFails, TypeOK
<1>2. ~Restore(c)
  BY DEF Answers, Restore, Writes
<1>3. ReadAfter(c)
  BY <1>1, <1>2, GoesOn, ApplyGoesOn DEF Guarded
<1>4. ~Goes(c, "restore")
  BY DEF Answers, InGuard, Goes, TypeOK, Requests
<1>5. QED
  BY <1>3, <1>4 DEF ReadAfter

(* A refused write that nobody interfered with leaves the store as it was when
   the request came. *)
THEOREM RefusedIsUndoneAlways == Spec => RefusedIsUndone
<1>1. ASSUME TypeOK, AloneInv, [Next]_vars, NEW c \in Clients,
             Answers(c, "refused"), req[c].alone
      PROVE  store' = req[c].start
  <2>1. Restore(c)
    BY <1>1, AnswersIsGuarded, RefusedByRestore DEF Replies
  <2>2. AloneAt(req[c])
    BY <1>1 DEF AloneInv, Answers
  <2>3. [store EXCEPT ![req[c].key] = req[c].previous] = req[c].start
    <3>1. store = Written(req[c]) /\ req[c].previous = req[c].start[req[c].key]
      BY <2>1, <2>2 DEF Restore, AloneAt
    <3>2. req[c].start \in DocSets /\ req[c].key \in Keys
      BY <1>1, InGuardTyped DEF Answers
    <3>3. QED
      BY <3>1, <3>2, WrittenBack DEF Written
  <2>4. Holds(req[c].start)
    BY <2>1, <2>3 DEF Restore, Writes, Holds
  <2>5. req[c].start \in DocSets
    BY <1>1, InGuardTyped DEF Answers
  <2>6. QED
    BY <1>1, <2>4, <2>5, HoldsTyped
<1>2. TypeOK /\ AloneInv /\ [Next]_vars =>
         [\A c \in Clients :
             Answers(c, "refused") /\ req[c].alone => store' = req[c].start]_vars
  BY <1>1
<1>3. QED
  BY <1>2, TypeCorrect, AloneInvHolds, PTL DEF Spec, RefusedIsUndone

(* Only a write that itself introduces a problem is on its way to be undone. *)
THEOREM RefusalIsJustAlways == Spec => []RefusalIsJust
<1>1. AloneInv => RefusalIsJust
  BY DEF AloneInv, AloneAt, RefusalIsJust, InGuard, Written
<1>2. QED
  BY <1>1, AloneInvHolds, PTL

(* Where all documents are of one format, a write that is kept, and that
   nobody interfered with, leaves every document that worked working. *)
THEOREM KeptBreaksNothingInOneFormat ==
    ASSUME SingleFormat
    PROVE  Spec => KeptBreaksNothing
<1>1. ASSUME TypeOK, AloneInv, [Next]_vars, NEW c \in Clients,
             Answers(c, "kept"), req[c].alone
      PROVE  Failing(store') \subseteq Failing(req[c].start)
  <2>1. /\ req[c].at = "after" /\ UNCHANGED held
        /\ \E n \in promised..Len(held) : Problems(held[n]) \subseteq req[c].before
    BY <1>1, AnswersIsGuarded, KeptByReadAfter DEF Replies
  <2>2. AloneAt(req[c]) /\ req[c].start \in DocSets
    BY <1>1, InGuardTyped DEF AloneInv, Answers
  <2>3. Problems(store) \subseteq Problems(req[c].start)
    BY <2>1, <2>2 DEF AloneAt, Settled
  <2>4. store' = store
    BY <2>1 DEF store
  <2>5. QED
    BY <1>1, <2>2, <2>3, <2>4, StoreTyped, ProblemsShowFailing
<1>2. TypeOK /\ AloneInv /\ [Next]_vars =>
         [\A c \in Clients : Answers(c, "kept") /\ req[c].alone
             => Failing(store') \subseteq Failing(req[c].start)]_vars
  BY <1>1
<1>3. QED
  BY <1>2, TypeCorrect, AloneInvHolds, PTL DEF Spec, KeptBreaksNothing
=============================================================================
