----------------------------- MODULE DiskProofs ------------------------------
(***************************************************************************)
(* What is kept on disk, for any writers, documents, images and bounds.    *)
(* Both stores implement StoreContract, and what a snapshot gives is of    *)
(* its time; the move to the new layout loses no document, an image        *)
(* fetched against a digest is the file of that digest, a catalogue is of  *)
(* the last ticks and a download of one image; and what MCDisk states of   *)
(* all of them at once.                                                    *)
(*                                                                         *)
(* The refinements are proved step by step: a step of a store is a step of *)
(* the contract or changes nothing a caller sees. For SQLite that needs no *)
(* more than the types. For files it rests on what the directory looks     *)
(* like while a call is under way (FileInv): one document at most of each  *)
(* format of which none was overlooked, and the path a call has chosen is  *)
(* that document's, if there is one.                                       *)
(***************************************************************************)
EXTENDS MCDisk, WellFoundedInduction, TLAPS

----------------------------------------------------------------------------
(* SQLite                                                                  *)

(* A session is in one of its positions, and what is known of each.        *)
LEMMA SessionTyped ==
    ASSUME SqlTypeOK, NEW w \in Writer
    PROVE  /\ session[w].op = "put" =>
                  /\ session[w].key \in Key /\ session[w].body \in Body
                  /\ session[w] = [op |-> "put", key |-> session[w].key,
                                   body |-> session[w].body]
           /\ session[w].op = "delete" =>
                  /\ session[w].key \in Key
                  /\ session[w] = [op |-> "delete", key |-> session[w].key]
           /\ session[w].op = "bump" =>
                  /\ session[w].result \in {"ok", "absent", "removed"}
                  /\ session[w] = [op |-> "bump", result |-> session[w].result]
           /\ session[w].op \in {"idle", "put", "delete", "bump", "done"}
           /\ session[w].op = "idle" => session[w] = SqlResting
<1>1. session[w] \in Sessions
  BY DEF SqlTypeOK
<1>2. QED
  BY <1>1 DEF Sessions, SqlResting

(* The type invariant of the SQLite store.                                 *)
THEOREM SqlTypeCorrect == SqlSpec => []SqlTypeOK
<1>1. SqlInit => SqlTypeOK
  BY SqlAssumption DEF SqlInit, SqlTypeOK, Sessions, SqlResting
<1>2. SqlTypeOK /\ [SqlNext]_sqlVars => SqlTypeOK'
  <2> SUFFICES ASSUME SqlTypeOK, [SqlNext]_sqlVars
               PROVE  SqlTypeOK'
    OBVIOUS
  <2> USE SqlAssumption
  <2>0. ASSUME SqlRemember, row' \in [Key -> Body \cup {None}]
        PROVE  had' \in [Key -> SUBSET (Body \cup {None})]
    BY <2>0 DEF SqlRemember, SqlTypeOK
  <2>1. CASE Open /\ SqlRemember /\ UNCHANGED foreign
    BY <2>0, <2>1 DEF Open, SqlTypeOK
  <2>2. CASE SnapshotBegins /\ SqlRemember /\ UNCHANGED foreign
    BY <2>0, <2>2 DEF SnapshotBegins, SqlTypeOK
  <2>3. CASE SelectNext /\ SqlRemember /\ UNCHANGED foreign
    BY <2>0, <2>3 DEF SelectNext, SqlTypeOK
  <2>4. CASE SnapshotEnds /\ SqlRemember /\ UNCHANGED foreign
    BY <2>0, <2>4 DEF SnapshotEnds, SqlTypeOK
  <2>5. ASSUME NEW w \in Writer, Statement(w), SqlRemember, UNCHANGED foreign
        PROVE  SqlTypeOK'
    <3>1. session' \in [Writer -> Sessions]
      BY <2>5 DEF Statement, SqlTypeOK, Sessions
    <3>2. QED
      BY <2>0, <2>5, <3>1 DEF Statement, SqlTypeOK
  <2>6. ASSUME NEW w \in Writer, Execute(w), SqlRemember, UNCHANGED foreign
        PROVE  SqlTypeOK'
    <3>1. session[w].op = "put" => session[w].body \in Body
      BY SessionTyped
    <3>2. row' \in [Key -> Body \cup {None}]
      BY <2>6, <3>1 DEF Execute, SqlTypeOK
    <3>3. session' \in [Writer -> Sessions]
      BY <2>6 DEF Execute, SqlTypeOK, Sessions
    <3>4. QED
      BY <2>0, <2>6, <3>2, <3>3 DEF Execute, SqlTypeOK
  <2>7. ASSUME NEW w \in Writer, Bump(w), SqlRemember, UNCHANGED foreign
        PROVE  SqlTypeOK'
    <3>1. /\ session[w] = [op |-> "bump", result |-> session[w].result]
          /\ session[w].result \in {"ok", "absent", "removed"}
      BY <2>7, SessionTyped DEF Bump
    <3>2. session' \in [Writer -> Sessions]
      BY <2>7, <3>1 DEF Bump, SqlTypeOK, Sessions
    <3>3. QED
      BY <2>0, <2>7, <3>2 DEF Bump, SqlTypeOK
  <2>8. ASSUME NEW w \in Writer, SqlReturn(w), SqlRemember, UNCHANGED foreign
        PROVE  SqlTypeOK'
    <3>1. session' \in [Writer -> Sessions]
      BY <2>8 DEF SqlReturn, SqlTypeOK, Sessions
    <3>2. QED
      BY <2>0, <2>8, <3>1 DEF SqlReturn, SqlTypeOK
  <2>9. CASE OursDies /\ SqlRemember /\ UNCHANGED foreign
    <3>1. session' \in [Writer -> Sessions]
      BY <2>9 DEF OursDies, SqlTypeOK, Sessions, SqlResting
    <3>2. QED
      BY <2>0, <2>9, <3>1 DEF OursDies, SqlTypeOK
  <2>10. CASE TheirsDies /\ SqlRemember /\ UNCHANGED foreign
    <3>1. session' \in [Writer -> Sessions]
      BY <2>10 DEF TheirsDies, SqlTypeOK, Sessions, SqlResting
    <3>2. QED
      BY <2>0, <2>10, <3>1 DEF TheirsDies, SqlTypeOK
  <2>11. CASE UNCHANGED sqlVars
    BY <2>11 DEF sqlVars, SqlTypeOK
  <2>12. QED
    BY <2>1, <2>2, <2>3, <2>4, <2>5, <2>6, <2>7, <2>8, <2>9, <2>10, <2>11 DEF SqlNext
<1>3. QED
  BY <1>1, <1>2, PTL DEF SqlSpec

(* What a step does to the calls as their callers see them.                *)
LEMMA SqlCallAfter ==
    ASSUME NEW w \in Writer, NEW s, SqlTypeOK,
           session' = [session EXCEPT ![w] = s]
    PROVE  SqlCall' = [SqlCall EXCEPT ![w] =
                          IF s.op = "bump" THEN [op |-> "done", result |-> s.result]
                          ELSE s]
BY DEF SqlCall, SqlTypeOK

LEMMA SqlCallExecuted ==
    ASSUME NEW w \in Writer, NEW r, SqlTypeOK,
           session' = [session EXCEPT ![w] = [op |-> "bump", result |-> r]]
    PROVE  SqlCall' = [SqlCall EXCEPT ![w] = [op |-> "done", result |-> r]]
BY SqlCallAfter

(* The SQLite store implements the contract: each call takes effect with   *)
(* its statement, and a busy database fails it without one.                *)
THEOREM SqlKeepsPromise == SqlSpec => SqlPromise!ContractSpec
<1>1. SqlInit => SqlPromise!ContractInit
  <2> SUFFICES ASSUME SqlInit
               PROVE  SqlPromise!ContractInit
    OBVIOUS
  <2>1. SqlCall = [w \in Writer |-> SqlPromise!Idle]
    BY DEF SqlInit, SqlCall, SqlResting, SqlPromise!Idle
  <2>2. QED
    BY <2>1 DEF SqlInit, SqlPromise!ContractInit
<1>2. SqlTypeOK /\ [SqlNext]_sqlVars
        => [SqlPromise!ContractNext]_SqlPromise!contractVars
  <2> SUFFICES ASSUME SqlTypeOK, [SqlNext]_sqlVars
               PROVE  [SqlPromise!ContractNext]_SqlPromise!contractVars
    OBVIOUS
  <2>1. ASSUME session' = session, row' = row
        PROVE  UNCHANGED SqlPromise!contractVars
    BY <2>1 DEF SqlCall, SqlPromise!contractVars
  <2>2. CASE Open \/ SnapshotBegins \/ SelectNext \/ SnapshotEnds
    BY <2>1, <2>2 DEF Open, SnapshotBegins, SelectNext, SnapshotEnds
  <2>3. ASSUME NEW w \in Writer, Statement(w)
        PROVE  SqlPromise!Make(w)
    <3>1. PICK c \in SqlPromise!Puts \cup SqlPromise!Deletes :
             session' = [session EXCEPT ![w] = c]
      BY <2>3 DEF Statement, SqlPromise!Puts, SqlPromise!Deletes
    <3>2. c.op # "bump"
      BY DEF SqlPromise!Puts, SqlPromise!Deletes
    <3>3. SqlCall' = [SqlCall EXCEPT ![w] = c]
      BY <3>1, <3>2, SqlCallAfter
    <3>4. SqlCall[w] = SqlPromise!Idle
      BY <2>3 DEF Statement, SqlCall, SqlResting, SqlPromise!Idle
    <3>5. QED
      BY <2>3, <3>3, <3>4 DEF Statement, SqlPromise!Make
  <2>4. ASSUME NEW w \in Writer, Execute(w)
        PROVE  SqlPromise!PutTakes(w) \/ SqlPromise!DeleteTakes(w) \/ SqlPromise!Fails(w)
    <3>1. SqlCall[w] = session[w] /\ session[w].op \in {"put", "delete"}
      BY <2>4 DEF Execute, SqlCall
    <3> DEFINE result == IF session[w].op = "put" THEN "ok"
                         ELSE IF row[session[w].key] = None THEN "absent" ELSE "removed"
               put == row' = [row EXCEPT ![session[w].key] =
                                 IF session[w].op = "put" THEN session[w].body ELSE None]
    <3>2. CASE put /\ session' = [session EXCEPT ![w] = [op |-> "bump", result |-> result]]
      <4>1. SqlCall' = [SqlCall EXCEPT ![w] = SqlPromise!Result(result)]
        <5> HIDE DEF result
        <5>1. QED
          BY <3>2, SqlCallExecuted DEF SqlPromise!Result
      <4>2. CASE session[w].op = "put"
        BY <3>1, <3>2, <4>1, <4>2 DEF SqlPromise!PutTakes
      <4>3. CASE session[w].op = "delete"
        BY <3>1, <3>2, <4>1, <4>3 DEF SqlPromise!DeleteTakes
      <4>4. QED
        BY <3>1, <4>2, <4>3
    <3>3. CASE row' = row /\ session' = [session EXCEPT ![w] = [op |-> "done", result |-> "error"]]
      <4>1. SqlCall' = [SqlCall EXCEPT ![w] = SqlPromise!Result("error")]
        BY <3>3, SqlCallAfter DEF SqlPromise!Result
      <4>2. QED
        BY <3>1, <3>3, <4>1 DEF SqlPromise!Fails
    <3>4. QED
      BY <2>4, <3>2, <3>3 DEF Execute
  <2>5. ASSUME NEW w \in Writer, Bump(w)
        PROVE  UNCHANGED SqlPromise!contractVars
    <3>1. SqlCall' = [SqlCall EXCEPT ![w] = [op |-> "done", result |-> session[w].result]]
      BY <2>5, SqlCallAfter DEF Bump
    <3>2. SqlCall' = SqlCall
      BY <2>5, <3>1 DEF Bump, SqlCall
    <3>3. QED
      BY <2>5, <3>2 DEF Bump, SqlPromise!contractVars
  <2>6. ASSUME NEW w \in Writer, SqlReturn(w)
        PROVE  SqlPromise!Returns(w)
    <3>1. SqlCall' = [SqlCall EXCEPT ![w] = SqlPromise!Idle]
      BY <2>6, SqlCallAfter DEF SqlReturn, SqlResting, SqlPromise!Idle
    <3>2. SqlCall[w].op = "done"
      BY <2>6 DEF SqlReturn, SqlCall
    <3>3. QED
      BY <2>6, <3>1, <3>2 DEF SqlReturn, SqlPromise!Returns
  <2>7. ASSUME NEW S \in SUBSET Writer, row' = row,
               session' = [w \in Writer |-> IF w \in S THEN SqlResting ELSE session[w]]
        PROVE  SqlPromise!Dies
    <3>1. SqlCall' = [w \in Writer |-> IF w \in S THEN SqlPromise!Idle ELSE SqlCall[w]]
      <4>1. \A w \in Writer : session'[w] = IF w \in S THEN SqlResting ELSE session[w]
        BY <2>7
      <4>2. SqlResting.op # "bump" /\ SqlResting = SqlPromise!Idle
        BY DEF SqlResting, SqlPromise!Idle
      <4>3. QED
        BY <4>1, <4>2 DEF SqlCall
    <3>2. QED
      BY <2>7, <3>1 DEF SqlPromise!Dies
  <2>8. CASE OursDies
    <3>1. session' = [w \in Writer |-> IF w \in Writer \ foreign THEN SqlResting ELSE session[w]]
      BY <2>8 DEF OursDies
    <3>2. QED
      BY <2>7, <2>8, <3>1 DEF OursDies, SqlPromise!ContractNext
  <2>9. CASE TheirsDies
    <3>1. foreign \in SUBSET Writer
      BY DEF SqlTypeOK
    <3>2. QED
      BY <2>7, <2>9, <3>1 DEF TheirsDies, SqlPromise!ContractNext
  <2>10. CASE UNCHANGED sqlVars
    BY <2>1, <2>10 DEF sqlVars
  <2>11. QED
    BY <2>2, <2>3, <2>4, <2>5, <2>6, <2>8, <2>9, <2>10 DEF SqlNext, SqlPromise!ContractNext
<1>3. QED
  BY <1>1, <1>2, SqlTypeCorrect, PTL DEF SqlSpec, SqlPromise!ContractSpec

(* What a snapshot has read of a key was in its row since it began, and so *)
(* is what it would read now.                                              *)
SqlReaderInv ==
    lock = "reader" =>
        \A k \in Key : row[k] \in had[k] /\ (k \notin select => rows[k] \in had[k])

(* A snapshot over SQLite gives each key a document it had since the       *)
(* snapshot began, though another process writes between the SELECTs.      *)
THEOREM RowsAreOfTheirTimeAlways == SqlSpec => []RowsAreOfTheirTime
<1>1. SqlInit => SqlReaderInv
  BY SqlAssumption DEF SqlInit, SqlReaderInv
<1>2. SqlTypeOK /\ SqlReaderInv /\ [SqlNext]_sqlVars => SqlReaderInv'
  <2> SUFFICES ASSUME SqlTypeOK, SqlReaderInv, [SqlNext]_sqlVars, lock' = "reader",
                      NEW k \in Key
               PROVE  row'[k] \in had'[k] /\ (k \notin select' => rows'[k] \in had'[k])
    BY DEF SqlReaderInv
  <2>1. CASE UNCHANGED sqlVars
    BY <2>1 DEF sqlVars, SqlReaderInv
  <2>2. CASE SqlNext
    <3>1. had'[k] = (IF lock # "reader" THEN {} ELSE had[k]) \cup {row'[k]}
      BY <2>2 DEF SqlNext, SqlRemember
    <3>2. row'[k] \in had'[k]
      BY <3>1
    <3>3. CASE SnapshotBegins
      BY <3>2, <3>3 DEF SnapshotBegins
    <3>4. CASE SelectNext
      <4>1. PICK j \in select : rows' = [rows EXCEPT ![j] = row[j]] /\ select' = select \ {j}
        BY <3>4 DEF SelectNext
      <4>2. rows'[k] = IF k = j THEN row[k] ELSE rows[k]
        BY <4>1 DEF SqlTypeOK
      <4>3. QED
        BY <3>1, <3>2, <3>4, <4>1, <4>2 DEF SelectNext, SqlReaderInv
    <3>5. CASE lock' = lock /\ select' = select /\ rows' = rows
      BY <3>1, <3>2, <3>5 DEF SqlReaderInv
    <3>6. QED
      BY <2>2, <3>3, <3>4, <3>5, SqlAssumption
      DEF SqlNext, Open, SnapshotEnds, OursDies, TheirsDies, Statement, Execute, Bump, SqlReturn
  <2>3. QED
    BY <2>1, <2>2
<1>3. SqlReaderInv => RowsAreOfTheirTime
  BY DEF SqlReaderInv, RowsAreOfTheirTime
<1>4. QED
  BY <1>1, <1>2, <1>3, SqlTypeCorrect, PTL DEF SqlSpec

----------------------------------------------------------------------------
(* Files                                                                   *)

(* Where a writer has a path: of the document it replaces or removes, or   *)
(* of the one it makes.                                                    *)
Chosen == {"parent", "write", "fill", "rename", "unlink"}

(* What is known of a writer by where it is in its call.                   *)
LEMMA WriterTyped ==
    ASSUME FileTypeOK, NEW w \in Writer
    PROVE  /\ writer[w].at \in {"idle", "rmdir", "done", "look"} \cup Chosen
           /\ writer[w].at = "idle" => writer[w] = AtRest
           /\ writer[w].at \in Chosen \cup {"look"} =>
                  writer[w].key \in Key /\ writer[w].op \in {"put", "delete"}
           /\ writer[w].at \in Chosen =>
                  /\ writer[w].path \in Name
                  /\ writer[w].op = IF writer[w].at = "unlink" THEN "delete" ELSE "put"
           /\ writer[w].at \in Chosen \cup {"look"} /\ writer[w].op = "put" =>
                  /\ writer[w].body \in Body
                  /\ writer[w] = [at |-> writer[w].at, op |-> "put", key |-> writer[w].key,
                                  body |-> writer[w].body, path |-> writer[w].path]
           /\ writer[w].at \in Chosen \cup {"look"} /\ writer[w].op = "delete" =>
                  writer[w] = [at |-> writer[w].at, op |-> "delete",
                               key |-> writer[w].key, path |-> writer[w].path]
           /\ writer[w].at = "rmdir" => writer[w].result \in {"absent", "removed"}
           /\ writer[w].at \in {"rmdir", "done"} =>
                  /\ writer[w].result \in {"ok", "error", "absent", "removed"}
                  /\ writer[w] = [at |-> writer[w].at, result |-> writer[w].result]
<1>1. writer[w] \in Positions
  BY DEF FileTypeOK
<1>2. QED
  BY <1>1 DEF Positions, AtRest, Chosen

(* Of a set of numbers one is the least.                                   *)
LEMMA Least ==
    ASSUME NEW S \in SUBSET Nat, S # {}
    PROVE  \E x \in S : \A y \in S : x <= y
<1>1. IsWellFoundedOn(OpToRel(<, Nat), Nat)
  BY NatLessThanWellFounded
<1>2. PICK x \in S : \A y \in S : ~(<<y, x>> \in OpToRel(<, Nat))
  BY <1>1, WFMin
<1>3. \A y \in S : y \in Nat /\ x \in Nat
  OBVIOUS
<1>4. ASSUME NEW y \in S
      PROVE  x <= y
  <2>1. ~(y < x)
    BY <1>2, <1>3 DEF OpToRel
  <2>2. QED
    BY <2>1, <1>3
<1>5. QED
  BY <1>4

(* A format's document, where it has any file, is the first of them, and   *)
(* no two of them are that.                                                *)
FirstRight ==
    \A f \in Key :
        /\ Documents(f) # {} =>
              First(f) \in Documents(f) /\ \A m \in Documents(f) : First(f)[1] <= m[1]
        /\ \A q \in Documents(f) : (\A m \in Documents(f) : q[1] <= m[1]) => First(f) = q

LEMMA FirstIsFirst == FirstRight
<1> SUFFICES ASSUME NEW f \in Key
             PROVE  /\ Documents(f) # {} =>
                          /\ First(f) \in Documents(f)
                          /\ \A m \in Documents(f) : First(f)[1] <= m[1]
                    /\ \A q \in Documents(f) :
                          (\A m \in Documents(f) : q[1] <= m[1]) => First(f) = q
  BY DEF FirstRight
<1>1. \A n \in Documents(f) : n \in Name /\ n[1] \in Nat /\ n[2] = f
  BY StemAssumption DEF Documents, Name
<1>2. ASSUME Documents(f) # {}
      PROVE  First(f) \in Documents(f) /\ \A m \in Documents(f) : First(f)[1] <= m[1]
  <2> DEFINE S == {n[1] : n \in Documents(f)}
  <2>1. S \in SUBSET Nat /\ S # {}
    BY <1>1, <1>2
  <2> HIDE DEF S
  <2>2. PICK x \in S : \A y \in S : x <= y
    BY <2>1, Least
  <2>3. \E n \in Documents(f) : \A m \in Documents(f) : n[1] <= m[1]
    BY <2>2 DEF S
  <2>4. QED
    BY <2>3 DEF First
<1>3. ASSUME NEW q \in Documents(f), \A m \in Documents(f) : q[1] <= m[1]
      PROVE  First(f) = q
  <2>1. First(f) \in Documents(f) /\ First(f)[1] <= q[1] /\ q[1] <= First(f)[1]
    BY <1>2, <1>3
  <2>2. First(f)[1] = q[1] /\ First(f)[2] = q[2]
    BY <1>1, <2>1
  <2>3. QED
    BY <1>1, <2>1, <2>2 DEF Name
<1>4. QED
  BY <1>2, <1>3

LEMMA FirstIsFirstNext == FirstRight'
BY FirstIsFirst, PTL

LEMMA FileDocTyped ==
    file \in [Name -> Body \cup {None}] => FileDoc \in [Key -> Body \cup {None}]
<1> SUFFICES ASSUME file \in [Name -> Body \cup {None}], NEW f \in Key, Documents(f) # {}
             PROVE  file[First(f)] \in Body \cup {None}
  BY DEF FileDoc
<1>1. First(f) \in Documents(f)
  BY FirstIsFirst DEF FirstRight
<1>2. QED
  BY <1>1 DEF Documents

LEMMA FileDocTypedNext ==
    (file \in [Name -> Body \cup {None}])' => (FileDoc \in [Key -> Body \cup {None}])'
BY FileDocTyped, PTL

(* A document that is the only file of its format.                         *)
LEMMA DocumentIsFile ==
    ASSUME NEW p \in Name, \A n \in Documents(p[2]) : n = p
    PROVE  FileDoc[p[2]] = file[p]
<1>1. p[2] \in Key
  BY DEF Name
<1>2. CASE file[p] = None
  <2>1. Documents(p[2]) = {}
    BY <1>2 DEF Documents
  <2>2. QED
    BY <1>1, <1>2, <2>1 DEF FileDoc
<1>3. CASE file[p] # None
  <2>1. p \in Documents(p[2])
    BY <1>3 DEF Documents
  <2>2. First(p[2]) = p
    BY <1>1, <2>1, FirstIsFirst DEF FirstRight
  <2>3. QED
    BY <1>1, <2>1, <2>2 DEF FileDoc
<1>4. QED
  BY <1>2, <1>3

(* What becomes of the documents when a file is written or goes: those of  *)
(* other formats stay; a body written is the document, or is hidden by the *)
(* one there was; and the only file of its format is always the document.  *)
LEMMA FileWritten ==
    ASSUME FileTypeOK, NEW p \in Name, NEW b \in Body \cup {None},
           file' = [file EXCEPT ![p] = b]
    PROVE  /\ \A f \in Key : f # p[2] => Documents(f)' = Documents(f)
           /\ Documents(p[2])' \subseteq Documents(p[2]) \cup {p}
           /\ \E d \in Body \cup {None} : FileDoc' = [FileDoc EXCEPT ![p[2]] = d]
           /\ b # None => FileDoc' \in {FileDoc, [FileDoc EXCEPT ![p[2]] = b]}
           /\ (\A n \in Documents(p[2]) : n = p) => FileDoc' = [FileDoc EXCEPT ![p[2]] = b]
<1>1. \A n \in Name : file'[n] = IF n = p THEN b ELSE file[n]
  BY DEF FileTypeOK
<1>2. p[2] \in Key
  BY DEF Name
<1>3. \A f \in Key : f # p[2] => Documents(f)' = Documents(f)
  BY <1>1 DEF Documents
<1>4. Documents(p[2])' \subseteq Documents(p[2]) \cup {p}
  BY <1>1 DEF Documents
<1>5. ASSUME NEW f \in Key, f # p[2]
      PROVE  FileDoc'[f] = FileDoc[f]
  <2>1. Documents(f)' = Documents(f) /\ First(f)' = First(f)
    BY <1>3, <1>5 DEF First
  <2>2. \A n \in Documents(f) : file'[n] = file[n]
    BY <1>1, <1>5 DEF Documents
  <2>3. CASE Documents(f) = {}
    BY <2>1, <2>3 DEF FileDoc
  <2>4. CASE Documents(f) # {}
    <3>1. First(f) \in Documents(f)
      BY <2>4, FirstIsFirst DEF FirstRight
    <3>2. QED
      BY <2>1, <2>2, <2>4, <3>1 DEF FileDoc
  <2>5. QED
    BY <2>3, <2>4
<1>6. ASSUME NEW d, FileDoc'[p[2]] = d
      PROVE  FileDoc' = [FileDoc EXCEPT ![p[2]] = d]
  <2>1. FileDoc' = [f \in Key |-> FileDoc'[f]] /\ DOMAIN FileDoc = Key
    BY DEF FileDoc
  <2>2. \A f \in Key : FileDoc'[f] = [FileDoc EXCEPT ![p[2]] = d][f]
    BY <1>5, <1>6, <2>1
  <2> HIDE DEF FileDoc
  <2>3. QED
    BY <2>1, <2>2
<1>7. FileDoc'[p[2]] \in Body \cup {None}
  <2>1. (file \in [Name -> Body \cup {None}])'
    BY DEF FileTypeOK
  <2>2. QED
    BY <1>2, <2>1, FileDocTypedNext
<1>8. ASSUME b # None
      PROVE  FileDoc'[p[2]] = FileDoc[p[2]] \/ FileDoc'[p[2]] = b
  <2> DEFINE g == First(p[2])'
  <2>1. p \in Documents(p[2])'
    BY <1>1, <1>8 DEF Documents
  <2>2. g \in Documents(p[2])' /\ \A m \in Documents(p[2])' : g[1] <= m[1]
    BY <1>2, <2>1, FirstIsFirstNext DEF FirstRight
  <2>3. FileDoc'[p[2]] = file'[g]
    BY <1>2, <2>1 DEF FileDoc
  <2>4. CASE g = p
    BY <1>1, <2>3, <2>4
  <2>5. CASE g # p
    <3>1. g \in Documents(p[2]) /\ file'[g] = file[g]
      BY <1>1, <2>2, <2>5 DEF Documents
    <3>2. Documents(p[2]) \subseteq Documents(p[2])'
      BY <1>1, <1>8 DEF Documents
    <3>3. First(p[2]) = g
      BY <1>2, <2>2, <3>1, <3>2, FirstIsFirst DEF FirstRight
    <3>4. FileDoc[p[2]] = file[g]
      BY <1>2, <3>1, <3>3 DEF FileDoc
    <3>5. QED
      BY <2>3, <3>1, <3>4
  <2>6. QED
    BY <2>4, <2>5
<1>9. ASSUME \A n \in Documents(p[2]) : n = p
      PROVE  FileDoc'[p[2]] = b
  <2>1. CASE b = None
    <3>1. Documents(p[2])' = {}
      BY <1>1, <1>9, <2>1 DEF Documents
    <3>2. QED
      BY <1>2, <2>1, <3>1 DEF FileDoc
  <2>2. CASE b # None
    <3>1. Documents(p[2])' = {p}
      BY <1>1, <1>9, <2>2 DEF Documents
    <3>2. First(p[2])' = p
      BY <1>2, <3>1, FirstIsFirstNext DEF FirstRight
    <3>3. QED
      BY <1>1, <1>2, <3>1, <3>2 DEF FileDoc
  <2>3. QED
    BY <2>1, <2>2
<1>10. b # None => FileDoc' \in {FileDoc, [FileDoc EXCEPT ![p[2]] = b]}
  <2>1. FileDoc'[p[2]] = FileDoc[p[2]] => FileDoc' = FileDoc
    BY <1>5 DEF FileDoc
  <2>2. QED
    BY <1>6, <1>8, <2>1
<1>11. QED
  BY <1>3, <1>4, <1>6, <1>7, <1>9, <1>10

----------------------------------------------------------------------------
(* The inductive invariant of the file store.                              *)

(* There is one document at most of each format that is not amiss.         *)
OneDocument == \A f \in Key \ amiss : \A m, n \in Documents(f) : m = n

(* Calls that never overlap: one writer at most is in one.                 *)
Alone ==
    apart => \A v, w \in Writer : writer[v] # AtRest /\ writer[w] # AtRest => v = w

(* Where calls may overlap, nothing but the canonical name is in use.      *)
Canonical == ~apart => \A n \in Name : file[n] # None => n[1] = CanonicalStem

(* The path a writer at s has is of its format: the canonical one where    *)
(* calls may overlap. Where they never do it is that of the only document  *)
(* there is of a format that is not amiss, and what is to go is there.     *)
PathRight(s) ==
    s.at \in Chosen =>
        /\ s.path[2] = s.key
        /\ IF apart THEN /\ s.key \notin amiss => \A n \in Documents(s.key) : n = s.path
                         /\ s.at = "unlink" => file[s.path] # None
                    ELSE s.path[1] = CanonicalStem

(* Its temporary file has what it is to have by then.                      *)
TempRight(s, t) == (s.at = "fill" => t = "part") /\ (s.at = "rename" => t = s.body)

FileInv ==
    /\ FileTypeOK
    /\ OneDocument /\ Alone /\ Canonical
    /\ \A w \in Writer : PathRight(writer[w]) /\ TempRight(writer[w], temp[w])
    /\ \A w \in Writer : temp[w] # None => present

(* However a call came by its path, it is now that of the only document of *)
(* its format, if there is any, unless the format is amiss.                *)
LEMMA PathIsTheDocument ==
    ASSUME FileInv, NEW w \in Writer, writer[w].at \in Chosen
    PROVE  /\ writer[w].path \in Name /\ writer[w].path[2] = writer[w].key
           /\ writer[w].key \notin amiss => \A n \in Documents(writer[w].key) : n = writer[w].path
<1>1. writer[w].path \in Name /\ writer[w].path[2] = writer[w].key
  BY WriterTyped DEF FileInv, PathRight
<1>2. CASE apart
  BY <1>1, <1>2 DEF FileInv, PathRight
<1>3. ASSUME ~apart, NEW n \in Documents(writer[w].key)
      PROVE  n = writer[w].path
  <2>1. writer[w].path[1] = CanonicalStem
    BY <1>3 DEF FileInv, PathRight
  <2>2. n \in Name /\ n[2] = writer[w].key /\ n[1] = CanonicalStem
    BY <1>3 DEF FileInv, Canonical, Documents
  <2>3. QED
    BY <1>1, <2>1, <2>2 DEF Name
<1>4. QED
  BY <1>1, <1>2, <1>3

(* A format that is not amiss after a step was not before it, or is not in *)
(* doubt any more; and what the step overlooked is amiss.                  *)
LEMMA AmissAfter ==
    ASSUME NEW S, Overlooks(S), NEW f, f \notin amiss'
    PROVE  f \notin S /\ (f \notin amiss \/ ~InDoubt(f)')
BY DEF Overlooks

(* A format out of doubt: a write under way has the path of the only       *)
(* document there is.                                                      *)
LEMMA OutOfDoubt ==
    ASSUME NEW f \in Key, ~InDoubt(f)'
    PROVE  /\ (\A m, n \in Documents(f) : m = n)'
           /\ \A w \in Writer : writer'[w].at \in Chosen \ {"unlink"} /\ writer'[w].key = f
                                   => \A n \in Documents(f)' : n = writer'[w].path
<1>1. (\A m, n \in Documents(f) : m = n)'
  BY DEF InDoubt
<1>2. ASSUME NEW w \in Writer, writer'[w].at \in Chosen \ {"unlink"}, writer'[w].key = f,
             NEW n \in Documents(f)'
      PROVE  n = writer'[w].path
  <2>1. First(f)' \in Documents(f)'
    BY FirstIsFirstNext DEF FirstRight
  <2>2. First(f)' = n
    BY <1>1, <2>1
  <2>3. Existing(f)' = n
    BY <2>2 DEF Existing
  <2>4. n # None
    BY StemAssumption DEF Documents, Name
  <2>5. QED
    BY <1>2, <2>3, <2>4 DEF InDoubt, Chosen
<1>3. QED
  BY <1>1, <1>2

(* A step that writes no document leaves one of each format that is not    *)
(* amiss then.                                                             *)
LEMMA StaysOne ==
    ASSUME FileInv, UNCHANGED <<file, apart>>, NEW S, Overlooks(S)
    PROVE  OneDocument' /\ Canonical'
<1>1. \A f \in Key : Documents(f)' = Documents(f)
  BY DEF Documents
<1>2. ASSUME NEW f \in Key, f \notin amiss'
      PROVE  (\A m, n \in Documents(f) : m = n)'
  BY <1>1, <1>2, AmissAfter, OutOfDoubt DEF FileInv, OneDocument
<1>3. OneDocument'
  BY <1>2 DEF OneDocument
<1>4. QED
  BY <1>3 DEF FileInv, Canonical

(* Nor does it change whether a path is right.                             *)
LEMMA PathStays ==
    ASSUME FileInv, UNCHANGED <<file, apart>>, NEW S, Overlooks(S),
           NEW w \in Writer, writer'[w] = writer[w]
    PROVE  PathRight(writer[w])'
<1> SUFFICES ASSUME writer[w].at \in Chosen
             PROVE  PathRight(writer[w])'
  BY DEF PathRight
<1>1. /\ writer[w].key \in Key /\ writer[w].path[2] = writer[w].key
      /\ Documents(writer[w].key)' = Documents(writer[w].key)
      /\ writer[w].path \in Name
  BY WriterTyped, PathIsTheDocument DEF FileInv, Documents
<1>2. ASSUME apart, writer[w].key \notin amiss', NEW n \in Documents(writer[w].key)'
      PROVE  n = writer[w].path
  <2>1. CASE writer[w].key \notin amiss
    BY <1>1, <1>2, <2>1, PathIsTheDocument
  <2>2. CASE ~InDoubt(writer[w].key)'
    <3>1. CASE writer[w].at # "unlink"
      BY <1>1, <1>2, <2>2, <3>1, OutOfDoubt
    <3>2. CASE writer[w].at = "unlink"
      <4>1. writer[w].path \in Documents(writer[w].key)
        BY <1>1, <1>2, <3>2 DEF FileInv, PathRight, Documents
      <4>2. QED
        BY <1>1, <1>2, <2>2, <4>1, OutOfDoubt
    <3>3. QED
      BY <3>1, <3>2
  <2>3. QED
    BY <1>2, <2>1, <2>2, AmissAfter
<1>3. QED
  BY <1>1, <1>2 DEF FileInv, PathRight

(* A writer that goes on with the path it has.                             *)
LEMMA PathFollows ==
    ASSUME FileInv, UNCHANGED <<file, apart>>, Overlooks({}), NEW w \in Writer, NEW s,
           writer[w].at \in Chosen, s.at \in Chosen \ {"unlink"}, s.key = writer[w].key,
           s.path = writer[w].path, writer'[w] = s
    PROVE  PathRight(s)'
<1>1. /\ writer[w].key \in Key /\ writer[w].path[2] = writer[w].key
      /\ Documents(writer[w].key)' = Documents(writer[w].key)
  BY WriterTyped, PathIsTheDocument DEF FileInv, Documents
<1>2. ASSUME apart, writer[w].key \notin amiss', NEW n \in Documents(writer[w].key)'
      PROVE  n = writer[w].path
  <2>1. CASE writer[w].key \notin amiss
    BY <1>1, <1>2, <2>1, PathIsTheDocument
  <2>2. CASE ~InDoubt(writer[w].key)'
    BY <1>1, <1>2, <2>2, OutOfDoubt
  <2>3. QED
    BY <1>2, <2>1, <2>2, AmissAfter
<1>3. QED
  BY <1>1, <1>2 DEF FileInv, PathRight, Chosen

(* What is remembered is of its type.                                      *)
LEMMA RememberTyped ==
    ASSUME Remember, seen \in [Key -> SUBSET (Body \cup {None})], (file \in [Name -> Body \cup {None}])'
    PROVE  seen' \in [Key -> SUBSET (Body \cup {None})]
<1>1. (FileDoc \in [Key -> Body \cup {None}])'
  BY FileDocTypedNext
<1>2. ASSUME NEW f \in Key
      PROVE  {file'[n] : n \in Documents(f)'} \subseteq Body \cup {None}
  BY DEF Documents
<1>3. ASSUME NEW f \in Key
      PROVE  (IF reader'.at = "idle" THEN {}
              ELSE (seen[f] \cap {None, got'[f]})
                   \cup {FileDoc'[f]}
                   \cup (IF f \in amiss' THEN {file'[n] : n \in Documents(f)'} \cup {None} ELSE {}))
             \subseteq Body \cup {None}
  BY <1>1, <1>2
<1>4. QED
  BY <1>3 DEF Remember

ReaderType == [at : {"idle", "read"}, names : SUBSET Name, lost : SUBSET Key]

(* A step that writes no document keeps the invariant, if where the writer *)
(* gets to is right.                                                       *)
LEMMA WriterMoves ==
    ASSUME FileInv, NEW w \in Writer, NEW s \in Positions,
           writer' = [writer EXCEPT ![w] = s],
           NEW t \in Body \cup {None, "part"}, temp' = [temp EXCEPT ![w] = t],
           present' \in BOOLEAN, debris' \in BOOLEAN,
           writer[w] = AtRest /\ apart => \A v \in Writer : writer[v] = AtRest,
           PathRight(s)', TempRight(s, t), file' = file, apart' = apart,
           NEW S \in SUBSET Key, Overlooks(S),
           \/ present'
           \/ /\ t = None /\ \A v \in Writer : temp[v] # None => v = w
              /\ \A n \in Name : file[n] = None,
           reader' \in ReaderType, got' \in [Key -> Body \cup {None}], Remember
    PROVE  FileInv'
<1>1. \A v \in Writer : writer'[v] = IF v = w THEN s ELSE writer[v]
  BY DEF FileInv, FileTypeOK
<1>2. \A v \in Writer : temp'[v] = IF v = w THEN t ELSE temp[v]
  BY DEF FileInv, FileTypeOK
<1>3. OneDocument' /\ Canonical'
  BY StaysOne
<1>4. Alone'
  BY <1>1 DEF FileInv, Alone
<1>5. ASSUME NEW v \in Writer
      PROVE  PathRight(writer[v])' /\ TempRight(writer'[v], temp'[v])
  <2>1. PathRight(writer[v])'
    <3>1. CASE v = w
      BY <1>1, <3>1 DEF PathRight
    <3>2. CASE v # w
      BY <1>1, <3>2, PathStays
    <3>3. QED
      BY <3>1, <3>2
  <2>2. TempRight(writer'[v], temp'[v])
    BY <1>1, <1>2 DEF FileInv, TempRight
  <2>3. QED
    BY <2>1, <2>2
<1>6. seen' \in [Key -> SUBSET (Body \cup {None})]
  BY RememberTyped DEF FileInv, FileTypeOK
<1>7. FileTypeOK'
  <2>1. amiss' \subseteq Key
    BY DEF Overlooks, FileInv, FileTypeOK
  <2>2. QED
    BY <1>6, <2>1 DEF FileInv, FileTypeOK, ReaderType
<1>8. \A v \in Writer : temp'[v] # None => present'
  BY <1>2
<1>9. QED
  BY <1>3, <1>4, <1>5, <1>7, <1>8 DEF FileInv

(* Initially nobody is in a call and there is nothing but documents.       *)
LEMMA FileStarts == FileInit => FileInv
<1> SUFFICES ASSUME FileInit
             PROVE  FileInv
  OBVIOUS
<1>1. FileTypeOK
  <2>1. AtRest \in Positions
    BY DEF Positions
  <2>2. writer \in [Writer -> Positions]
    BY <2>1 DEF FileInit
  <2>3. present \in BOOLEAN /\ (~present => \A n \in Name : file[n] = None)
    BY DEF FileInit
  <2>4. QED
    BY <2>2, <2>3 DEF FileInit, FileTypeOK, Unread
<1>2. OneDocument /\ Alone /\ Canonical
  BY DEF FileInit, OneDocument, Alone, Canonical
<1>3. \A w \in Writer : PathRight(writer[w]) /\ TempRight(writer[w], temp[w])
  BY DEF FileInit, PathRight, TempRight, AtRest, Chosen
<1>4. QED
  BY <1>1, <1>2, <1>3 DEF FileInit, FileInv

(* A rename or an unlink writes the only document of its format, unless    *)
(* the format is amiss.                                                    *)
LEMMA WriterWrites ==
    ASSUME FileInv, NEW w \in Writer, writer[w].at \in Chosen, NEW s \in Positions,
           writer' = [writer EXCEPT ![w] = s], s.at \in {"rmdir", "done"},
           NEW t \in Body \cup {None, "part"}, t # None => present,
           temp' = [temp EXCEPT ![w] = t] \/ (temp' = temp /\ temp[w] = t),
           NEW b \in Body \cup {None}, file' = [file EXCEPT ![writer[w].path] = b],
           b # None => present, UNCHANGED <<present, apart, reader, got>>,
           debris' \in BOOLEAN, Overlooks({}), Remember
    PROVE  /\ FileInv'
           /\ writer[w].key \notin amiss => FileDoc' = [FileDoc EXCEPT ![writer[w].key] = b]
           /\ b # None => FileDoc' \in {FileDoc, [FileDoc EXCEPT ![writer[w].key] = b]}
           /\ \E d \in Body \cup {None} : FileDoc' = [FileDoc EXCEPT ![writer[w].key] = d]
<1>1. \A v \in Writer : writer'[v] = IF v = w THEN s ELSE writer[v]
  BY DEF FileInv, FileTypeOK
<1>2. temp' \in [Writer -> Body \cup {None, "part"}]
      /\ \A v \in Writer : temp'[v] = IF v = w THEN t ELSE temp[v]
  BY DEF FileInv, FileTypeOK
<1>0. PICK p \in Name : p = writer[w].path
  BY PathIsTheDocument
<1>3. /\ p[2] = writer[w].key /\ p[2] \in Key
      /\ p[2] \notin amiss => \A n \in Documents(p[2]) : n = p
  BY <1>0, PathIsTheDocument, WriterTyped DEF FileInv
<1>4. \A n \in Name : file'[n] = IF n = p THEN b ELSE file[n]
  BY <1>0 DEF FileInv, FileTypeOK
<1>5. /\ \A f \in Key : f # p[2] => Documents(f)' = Documents(f)
      /\ Documents(p[2])' \subseteq Documents(p[2]) \cup {p}
      /\ \E d \in Body \cup {None} : FileDoc' = [FileDoc EXCEPT ![p[2]] = d]
      /\ b # None => FileDoc' \in {FileDoc, [FileDoc EXCEPT ![p[2]] = b]}
      /\ (\A n \in Documents(p[2]) : n = p) => FileDoc' = [FileDoc EXCEPT ![p[2]] = b]
  BY <1>0, FileWritten DEF FileInv
<1>6. OneDocument'
  <2> SUFFICES ASSUME NEW f \in Key, f \notin amiss'
               PROVE  (\A m, n \in Documents(f) : m = n)'
    BY DEF OneDocument
  <2>1. CASE ~InDoubt(f)'
    BY <2>1, OutOfDoubt
  <2>2. CASE f \notin amiss /\ f = p[2]
    <3>1. \A n \in Documents(f)' : n = p
      BY <1>3, <1>5, <2>2
    <3>2. QED
      BY <3>1
  <2>3. CASE f \notin amiss /\ f # p[2]
    BY <1>5, <2>3 DEF FileInv, OneDocument
  <2>4. QED
    BY <2>1, <2>2, <2>3, AmissAfter
<1>7. Canonical'
  <2>1. ~apart => p[1] = CanonicalStem
    BY <1>0 DEF FileInv, PathRight
  <2>2. QED
    BY <1>4, <2>1 DEF FileInv, Canonical
<1>8. Alone'
  BY <1>1, WriterTyped DEF FileInv, Alone, AtRest, Chosen
<1>9. ASSUME NEW v \in Writer
      PROVE  PathRight(writer[v])' /\ TempRight(writer'[v], temp'[v])
  <2>1. CASE v = w
    BY <1>1, <2>1 DEF PathRight, TempRight, Chosen
  <2>2. CASE v # w
    <3>1. apart => writer[v] = AtRest
      BY <2>2, writer[w] # AtRest DEF FileInv, Alone, AtRest, Chosen
    <3>2. PathRight(writer[v])'
      BY <1>1, <2>2, <3>1 DEF FileInv, PathRight, AtRest, Chosen
    <3>3. QED
      BY <1>1, <1>2, <2>2, <3>2 DEF FileInv
  <2>3. QED
    BY <2>1, <2>2
<1>10. FileTypeOK'
  <2>1. file' \in [Name -> Body \cup {None}] /\ amiss' \subseteq Key
    BY DEF FileInv, FileTypeOK, Overlooks
  <2>2. seen' \in [Key -> SUBSET (Body \cup {None})]
    BY <2>1, RememberTyped DEF FileInv, FileTypeOK
  <2>3. ~present' => \A n \in Name : file'[n] = None
    BY <1>4 DEF FileInv, FileTypeOK
  <2>4. QED
    BY <1>2, <2>1, <2>2, <2>3 DEF FileInv, FileTypeOK
<1>11. \A v \in Writer : temp'[v] # None => present'
  BY <1>2 DEF FileInv
<1>12. FileInv'
  BY <1>6, <1>7, <1>8, <1>9, <1>10, <1>11 DEF FileInv
<1>13. QED
  BY <1>3, <1>5, <1>12

(* A writer's step that leaves the files alone but may touch its temporary *)
(* file, with the directory there or nothing in it.                        *)
LEMMA WriterGoesOn ==
    ASSUME FileInv, NEW w \in Writer, NEW s \in Positions,
           writer' = [writer EXCEPT ![w] = s],
           NEW t \in Body \cup {None, "part"},
           temp' = [temp EXCEPT ![w] = t] \/ (temp' = temp /\ temp[w] = t),
           present' \in BOOLEAN, present => present', t # None => present',
           debris' \in BOOLEAN,
           (writer[w] = AtRest /\ apart) => \A v \in Writer : writer[v] = AtRest,
           PathRight(s)', TempRight(s, t), file' = file, apart' = apart,
           NEW S \in SUBSET Key, Overlooks(S),
           UNCHANGED <<reader, got>>, Remember
    PROVE  FileInv'
<1>1. temp' = [temp EXCEPT ![w] = t]
  BY DEF FileInv, FileTypeOK
<1>2. \/ present'
      \/ /\ t = None /\ \A v \in Writer : temp[v] # None => v = w
         /\ \A n \in Name : file[n] = None
  BY DEF FileInv, FileTypeOK
<1>3. reader' \in ReaderType /\ got' \in [Key -> Body \cup {None}]
  BY DEF FileInv, FileTypeOK, ReaderType
<1>4. QED
  BY <1>1, <1>2, <1>3, WriterMoves

(* Two fields of a writer's record written at once.                        *)
LEMMA TwoFields ==
    ASSUME NEW S, NEW T, NEW f \in [S -> T], NEW w \in S, NEW a, NEW q
    PROVE  [f EXCEPT ![w].at = a, ![w].path = q]
           = [f EXCEPT ![w] = [[f[w] EXCEPT !.at = a] EXCEPT !.path = q]]
OBVIOUS

LEMMA PutGetsPath ==
    ASSUME NEW f \in [Writer -> Positions], NEW w \in Writer, NEW q,
           f[w] = [at |-> "look", op |-> "put", key |-> f[w].key, body |-> f[w].body,
                   path |-> f[w].path]
    PROVE  [f EXCEPT ![w].at = "parent", ![w].path = q]
           = [f EXCEPT ![w] = [at |-> "parent", op |-> "put", key |-> f[w].key,
                               body |-> f[w].body, path |-> q]]
<1>1. PICK r : r = f[w]
  OBVIOUS
<1>2. PICK s : s = [r EXCEPT !.at = "parent"]
  OBVIOUS
<1>3. s = [at |-> "parent", op |-> "put", key |-> r.key, body |-> r.body, path |-> r.path]
  BY <1>1, <1>2
<1>4. [s EXCEPT !.path = q]
      = [at |-> "parent", op |-> "put", key |-> r.key, body |-> r.body, path |-> q]
  BY <1>3
<1>5. QED
  BY <1>1, <1>2, <1>4, TwoFields

LEMMA DeleteGetsPath ==
    ASSUME NEW f \in [Writer -> Positions], NEW w \in Writer, NEW q,
           f[w] = [at |-> "look", op |-> "delete", key |-> f[w].key, path |-> f[w].path]
    PROVE  [f EXCEPT ![w].at = "unlink", ![w].path = q]
           = [f EXCEPT ![w] = [at |-> "unlink", op |-> "delete", key |-> f[w].key, path |-> q]]
<1>1. PICK r : r = f[w]
  OBVIOUS
<1>2. PICK s : s = [r EXCEPT !.at = "unlink"]
  OBVIOUS
<1>3. s = [at |-> "unlink", op |-> "delete", key |-> r.key, path |-> r.path]
  BY <1>1, <1>2
<1>4. [s EXCEPT !.path = q] = [at |-> "unlink", op |-> "delete", key |-> r.key, path |-> q]
  BY <1>3
<1>5. QED
  BY <1>1, <1>2, <1>4, TwoFields

LEMMA PutMovesOn ==
    ASSUME NEW f \in [Writer -> Positions], NEW w \in Writer, NEW a,
           f[w] = [at |-> f[w].at, op |-> "put", key |-> f[w].key, body |-> f[w].body,
                   path |-> f[w].path]
    PROVE  [f EXCEPT ![w].at = a]
           = [f EXCEPT ![w] = [at |-> a, op |-> "put", key |-> f[w].key,
                               body |-> f[w].body, path |-> f[w].path]]
<1>1. PICK r : r = f[w]
  OBVIOUS
<1>2. [r EXCEPT !.at = a]
      = [at |-> a, op |-> "put", key |-> r.key, body |-> r.body, path |-> r.path]
  BY <1>1
<1>3. [f EXCEPT ![w].at = a] = [f EXCEPT ![w] = [r EXCEPT !.at = a]]
  BY <1>1
<1>4. QED
  BY <1>1, <1>2, <1>3

(* What a look leaves a call with: the path of a document there is, or of  *)
(* the one it makes, and of the only one if its format is not amiss then.  *)
LEMMA LookRight ==
    ASSUME FileInv, NEW f \in Key, UNCHANGED <<file, apart>>,
           NEW found \in Documents(f) \cup {None}, NEW path,
           \/ path = found /\ found # None
           \/ path = <<CanonicalStem, f>> /\ found = None,
           Overlooks(IF Existing(f) \in {None, path} THEN {} ELSE {f})
    PROVE  /\ path \in Name /\ path[2] = f
           /\ f \notin amiss' => \A n \in Documents(f)' : n = path
           /\ ~apart => path[1] = CanonicalStem
           /\ found # None => file[path] # None
<1>1. path \in Name /\ path[2] = f
  BY StemAssumption DEF Documents, Name
<1>2. ~apart => path[1] = CanonicalStem
  BY DEF FileInv, Canonical, Documents
<1>3. ASSUME f \notin amiss', NEW n \in Documents(f)'
      PROVE  n = path
  <2>1. OneDocument'
    BY StaysOne
  <2>2. Documents(f)' = Documents(f)
    BY DEF Documents
  <2>3. \A m \in Documents(f) : m = n
    BY <1>3, <2>1, <2>2 DEF OneDocument
  <2>4. n \in Documents(f) /\ n # None
    BY <1>3, <2>2, StemAssumption DEF Documents, Name
  <2>5. Existing(f) = n
    BY <2>3, <2>4, FirstIsFirst DEF Existing, FirstRight
  <2>6. QED
    BY <1>3, <2>4, <2>5 DEF Overlooks
<1>4. QED
  BY <1>1, <1>2, <1>3 DEF Documents

(* Each action of a writer but the two that write a document.              *)
LEMMA WriterKeeps ==
    ASSUME FileInv, NEW w \in Writer, UNCHANGED <<reader, got, apart>>, Remember,
           \/ Look(w)
           \/ /\ \/ Call(w) \/ CreateParent(w) \/ OpenTemp(w) \/ FillTemp(w)
                 \/ RemoveDir(w) \/ Return(w)
              /\ Overlooks({})
    PROVE  FileInv'
<1> USE StemAssumption, StoreDataAssumption
<1>0. /\ FileTypeOK /\ present \in BOOLEAN /\ debris \in BOOLEAN
      /\ temp[w] \in Body \cup {None, "part"} /\ (temp[w] # None => present)
      /\ TempRight(writer[w], temp[w])
  BY DEF FileInv, FileTypeOK
<1>1. CASE Call(w) /\ Overlooks({})
  <2>1. PICK s \in Positions : s.at = "look" /\ writer' = [writer EXCEPT ![w] = s]
    BY <1>1 DEF Call, Positions
  <2>2. PathRight(s)' /\ TempRight(s, temp[w])
    BY <2>1 DEF PathRight, TempRight, Chosen
  <2>3. writer[w] = AtRest /\ (apart => \A v \in Writer : writer[v] = AtRest)
    BY <1>1 DEF Call
  <2>4. UNCHANGED <<present, file, temp, debris>>
    BY <1>1 DEF Call
  <2> QED
    BY <1>0, <1>1, <2>1, <2>2, <2>3, <2>4, WriterGoesOn
<1>2. ASSUME writer[w].at # "idle"
      PROVE  (writer[w] = AtRest /\ apart) => \A v \in Writer : writer[v] = AtRest
  BY <1>2 DEF AtRest
<1>3. CASE Look(w)
  <2>1. writer[w].at = "look" /\ UNCHANGED <<file, temp, debris>>
    BY <1>3 DEF Look
  <2>2. /\ writer[w].key \in Key /\ writer[w].op \in {"put", "delete"}
        /\ writer[w].op = "put" => /\ writer[w].body \in Body
                                   /\ writer[w] = [at |-> "look", op |-> "put", key |-> writer[w].key,
                                                   body |-> writer[w].body, path |-> writer[w].path]
        /\ writer[w].op = "delete" =>
              writer[w] = [at |-> "look", op |-> "delete",
                           key |-> writer[w].key, path |-> writer[w].path]
    BY <1>0, <2>1, WriterTyped
  <2>9. PICK f \in Key : f = writer[w].key
    BY <2>2
  <2>8. PICK found \in Documents(f) \cup {None} :
          LET q == IF writer[w].op = "put" /\ found = None THEN <<CanonicalStem, f>> ELSE found
          IN /\ \/ /\ writer[w].op = "put" /\ present' = TRUE
                   /\ writer' = [writer EXCEPT ![w].at = "parent", ![w].path = q]
                \/ Finished(w, "error") /\ present' = present
                \/ Finished(w, "absent") /\ present' = present
                \/ /\ writer[w].op = "delete" /\ q # None /\ present' = present
                   /\ writer' = [writer EXCEPT ![w].at = "unlink", ![w].path = q]
             /\ Overlooks(IF Existing(f) \in {None, q} THEN {} ELSE {f})
    BY <1>3, <2>2, <2>9 DEF Look
  <2>3. PICK q :
           /\ found \in Documents(f) \cup {None}
           /\ q = IF writer[w].op = "put" /\ found = None THEN <<CanonicalStem, f>> ELSE found
           /\ \/ /\ writer[w].op = "put" /\ present' = TRUE
                 /\ writer' = [writer EXCEPT ![w].at = "parent", ![w].path = q]
              \/ Finished(w, "error") /\ present' = present
              \/ Finished(w, "absent") /\ present' = present
              \/ /\ writer[w].op = "delete" /\ q # None /\ present' = present
                 /\ writer' = [writer EXCEPT ![w].at = "unlink", ![w].path = q]
           /\ Overlooks(IF Existing(f) \in {None, q} THEN {} ELSE {f})
    BY <2>8
  <2>4. PICK S \in SUBSET Key : Overlooks(S)
    BY <2>3
  <2>5. CASE /\ writer[w].op = "put" /\ present' = TRUE
             /\ writer' = [writer EXCEPT ![w].at = "parent", ![w].path = q]
    <3>5. PICK s : s = [at |-> "parent", op |-> "put", key |-> f, body |-> writer[w].body, path |-> q]
      OBVIOUS
    <3>0. /\ q \in Name /\ q[2] = f /\ (~apart => q[1] = CanonicalStem)
          /\ f \notin amiss' => \A n \in Documents(f)' : n = q
      BY <2>1, <2>3, <2>5, LookRight
    <3>1. writer' = [writer EXCEPT ![w] = s]
      <4>1. writer \in [Writer -> Positions]
        BY <1>0 DEF FileTypeOK
      <4>2. writer[w] = [at |-> "look", op |-> "put", key |-> writer[w].key,
                         body |-> writer[w].body, path |-> writer[w].path]
        BY <2>2, <2>5
      <4>3. [writer EXCEPT ![w].at = "parent", ![w].path = q] = [writer EXCEPT ![w] = s]
        BY <2>9, <3>5, <4>1, <4>2, PutGetsPath
      <4>4. QED
        BY <2>5, <4>3
    <3>2. s \in Positions
      BY <2>2, <2>5, <3>0, <3>5 DEF Positions
    <3>3. PathRight(s)' /\ TempRight(s, temp[w])
      BY <2>1, <3>0, <3>5 DEF PathRight, TempRight
    <3>4. QED
      BY <1>0, <1>2, <2>1, <2>4, <2>5, <3>1, <3>2, <3>3, WriterGoesOn
  <2>6. CASE /\ writer[w].op = "delete" /\ q # None /\ present' = present
             /\ writer' = [writer EXCEPT ![w].at = "unlink", ![w].path = q]
    <3>5. PICK s : s = [at |-> "unlink", op |-> "delete", key |-> f, path |-> q]
      OBVIOUS
    <3>0. /\ q \in Name /\ q[2] = f /\ (~apart => q[1] = CanonicalStem)
          /\ f \notin amiss' => \A n \in Documents(f)' : n = q
          /\ file[q] # None
      BY <2>1, <2>3, <2>6, LookRight
    <3>1. writer' = [writer EXCEPT ![w] = s]
      <4>1. writer \in [Writer -> Positions]
        BY <1>0 DEF FileTypeOK
      <4>2. writer[w] = [at |-> "look", op |-> "delete", key |-> writer[w].key,
                         path |-> writer[w].path]
        BY <2>2, <2>6
      <4>3. [writer EXCEPT ![w].at = "unlink", ![w].path = q] = [writer EXCEPT ![w] = s]
        BY <2>9, <3>5, <4>1, <4>2, DeleteGetsPath
      <4>4. QED
        BY <2>6, <4>3
    <3>2. s \in Positions
      BY <2>2, <2>6, <3>0, <3>5 DEF Positions
    <3>3. PathRight(s)' /\ TempRight(s, temp[w])
      BY <2>1, <3>0, <3>5 DEF PathRight, TempRight
    <3>4. QED
      BY <1>0, <1>2, <2>1, <2>4, <2>6, <3>1, <3>2, <3>3, WriterGoesOn
  <2>7. CASE \E r \in {"error", "absent"} : Finished(w, r) /\ present' = present
    <3>1. PICK r \in {"error", "absent"} :
             writer' = [writer EXCEPT ![w] = [at |-> "done", result |-> r]] /\ present' = present
      BY <2>7 DEF Finished
    <3>2. [at |-> "done", result |-> r] \in Positions
      BY DEF Positions
    <3>3. PathRight([at |-> "done", result |-> r])' /\ TempRight([at |-> "done", result |-> r], temp[w])
      BY DEF PathRight, TempRight, Chosen
    <3>4. QED
      BY <1>0, <1>2, <2>1, <2>4, <3>1, <3>2, <3>3, WriterGoesOn
  <2>10. QED
    BY <2>3, <2>5, <2>6, <2>7
<1>4. ASSUME NEW r \in {"ok", "error", "absent", "removed"}, Finished(w, r),
             writer[w].at # "idle", NEW t \in Body \cup {None, "part"},
             temp' = [temp EXCEPT ![w] = t] \/ (temp' = temp /\ temp[w] = t),
             present' \in BOOLEAN, debris' \in BOOLEAN, UNCHANGED file,
             \/ present => present'
             \/ /\ \A v \in Writer : temp[v] = None
                /\ \A n \in Name : file[n] = None,
             t # None => present', Overlooks({})
      PROVE  FileInv'
  <2> DEFINE s == [at |-> "done", result |-> r]
  <2>1. s \in Positions
    BY DEF Positions
  <2>2. PathRight(s)' /\ TempRight(s, t)
    BY DEF PathRight, TempRight, Chosen
  <2>3. writer' = [writer EXCEPT ![w] = s]
    BY <1>4 DEF Finished
  <2>4. temp' = [temp EXCEPT ![w] = t]
    BY <1>4 DEF FileInv, FileTypeOK
  <2>5. \/ present'
        \/ /\ t = None /\ \A v \in Writer : temp[v] # None => v = w
           /\ \A n \in Name : file[n] = None
    BY <1>0, <1>4 DEF FileInv, FileTypeOK
  <2>6. reader' \in ReaderType /\ got' \in [Key -> Body \cup {None}]
    BY DEF FileInv, FileTypeOK, ReaderType
  <2>7. (writer[w] = AtRest /\ apart) => \A v \in Writer : writer[v] = AtRest
    BY <1>2, <1>4
  <2> HIDE DEF s
  <2>8. QED
    BY <1>4, <2>1, <2>2, <2>3, <2>4, <2>5, <2>6, <2>7, WriterMoves
<1>5. ASSUME NEW a \in {"write", "fill", "rename"}, writer[w].at \in {"parent", "write", "fill"},
             Goes(w, a), NEW t \in Body \cup {None, "part"},
             temp' = [temp EXCEPT ![w] = t] \/ (temp' = temp /\ temp[w] = t),
             present' \in BOOLEAN, present => present', t # None => present',
             UNCHANGED <<file, debris>>,
             a = "fill" => t = "part", a = "rename" => t = writer[w].body, Overlooks({})
      PROVE  FileInv'
  <2>9. PICK s : s = [at |-> a, op |-> "put", key |-> writer[w].key,
                      body |-> writer[w].body, path |-> writer[w].path]
    OBVIOUS
  <2>1. /\ writer[w].key \in Key /\ writer[w].body \in Body /\ writer[w].path \in Name
        /\ writer[w] = [at |-> writer[w].at, op |-> "put", key |-> writer[w].key,
                        body |-> writer[w].body, path |-> writer[w].path]
    BY <1>0, <1>5, WriterTyped DEF Chosen
  <2>2. writer \in [Writer -> Positions]
    BY <1>0 DEF FileTypeOK
  <2>3. writer' = [writer EXCEPT ![w] = s]
    BY <1>5, <2>1, <2>2, <2>9, PutMovesOn DEF Goes
  <2>4. s \in Positions
    BY <1>5, <2>1, <2>9 DEF Positions
  <2>5. PathRight(s)' /\ TempRight(s, t)
    <3>1. writer'[w] = s /\ writer[w].at \in Chosen /\ s.at \in Chosen \ {"unlink"}
      BY <1>5, <2>2, <2>3, <2>9 DEF Chosen
    <3>2. s.key = writer[w].key /\ s.path = writer[w].path
      BY <2>9
    <3>3. PathRight(s)'
      BY <1>5, <3>1, <3>2, PathFollows
    <3>4. QED
      BY <1>5, <2>9, <3>3 DEF TempRight
  <2>6. (writer[w] = AtRest /\ apart) => \A v \in Writer : writer[v] = AtRest
    BY <1>2, <1>5
  <2>7. QED
    BY <1>0, <1>5, <2>3, <2>4, <2>5, <2>6, WriterGoesOn
<1>6. CASE CreateParent(w) /\ Overlooks({})
  BY <1>0, <1>4, <1>5, <1>6 DEF CreateParent
<1>7. CASE OpenTemp(w) /\ Overlooks({})
  BY <1>0, <1>4, <1>5, <1>7 DEF OpenTemp
<1>8. CASE FillTemp(w) /\ Overlooks({})
  <2>1. writer[w].at = "fill" /\ UNCHANGED <<present, file>>
    BY <1>8 DEF FillTemp
  <2>2. writer[w].body \in Body /\ present
    BY <1>0, <2>1, WriterTyped DEF Chosen, TempRight
  <2>3. CASE temp' = [temp EXCEPT ![w] = writer[w].body] /\ Goes(w, "rename") /\ UNCHANGED debris
    BY <1>0, <1>5, <1>8, <2>1, <2>2, <2>3
  <2>4. CASE temp' = [temp EXCEPT ![w] = None] /\ debris' = TRUE /\ Finished(w, "error")
    BY <1>0, <1>4, <1>8, <2>1, <2>2, <2>4
  <2>5. QED
    BY <1>8, <2>3, <2>4 DEF FillTemp
<1>9. CASE RemoveDir(w) /\ Overlooks({})
  <2>1. writer[w].result \in {"absent", "removed"}
    BY <1>0, <1>9, WriterTyped DEF RemoveDir
  <2>5. present' \in {present, present /\ Occupied}
    BY <1>9 DEF RemoveDir
  <2>6. present' \in BOOLEAN /\ (present /\ Occupied => present')
    BY <1>0, <2>5
  <2>2. \/ present => present'
        \/ (\A v \in Writer : temp[v] = None) /\ (\A n \in Name : file[n] = None)
    BY <2>6 DEF Occupied
  <2>3. temp[w] # None => present'
    BY <1>0, <2>6 DEF Occupied
  <2>4. QED
    BY <1>0, <1>4, <1>9, <2>1, <2>2, <2>3, <2>6 DEF RemoveDir
<1>10. CASE Return(w) /\ Overlooks({})
  <2>1. AtRest \in Positions /\ PathRight(AtRest)' /\ TempRight(AtRest, temp[w])
    BY DEF Positions, PathRight, TempRight, Chosen, AtRest
  <2>2. (writer[w] = AtRest /\ apart) => \A v \in Writer : writer[v] = AtRest
    BY <1>2, <1>10 DEF Return
  <2>3. writer' = [writer EXCEPT ![w] = AtRest] /\ UNCHANGED <<present, file, temp, debris>>
    BY <1>10 DEF Return
  <2> HIDE DEF AtRest
  <2>4. QED
    BY <1>0, <1>10, <2>1, <2>2, <2>3, WriterGoesOn
<1>11. QED
  BY <1>1, <1>3, <1>6, <1>7, <1>8, <1>9, <1>10

(* A rename writes the document of its call or leaves all as it is; of a   *)
(* format that is amiss it may leave the document hidden by another.       *)
LEMMA RenameWrites ==
    ASSUME FileInv, NEW w \in Writer, Rename(w), UNCHANGED <<reader, got, apart>>,
           Overlooks({}), Remember
    PROVE  /\ FileInv'
           /\ \/ /\ FileDoc' = [FileDoc EXCEPT ![writer[w].key] = writer[w].body]
                 /\ Finished(w, "ok")
              \/ writer[w].key \in amiss /\ FileDoc' = FileDoc /\ Finished(w, "ok")
              \/ UNCHANGED file /\ Finished(w, "error")
<1> USE StemAssumption, StoreDataAssumption
<1>0. /\ FileTypeOK /\ writer[w].at = "rename" /\ writer[w].at \in Chosen
      /\ temp[w] = writer[w].body /\ temp[w] \in Body /\ present
      /\ present \in BOOLEAN /\ debris \in BOOLEAN
  BY WriterTyped DEF FileInv, TempRight, Rename, Chosen, FileTypeOK
<1>1. CASE file' = [file EXCEPT ![writer[w].path] = temp[w]] /\ Finished(w, "ok") /\ UNCHANGED debris
  <2> DEFINE s == [at |-> "done", result |-> "ok"]
  <2>1. s \in Positions /\ s.at = "done"
    BY DEF Positions
  <2>2. writer' = [writer EXCEPT ![w] = s] /\ temp' = [temp EXCEPT ![w] = None]
        /\ UNCHANGED <<present, debris>>
    BY <1>1 DEF Finished, Rename
  <2> HIDE DEF s
  <2>3. /\ FileInv'
        /\ writer[w].key \notin amiss => FileDoc' = [FileDoc EXCEPT ![writer[w].key] = temp[w]]
        /\ FileDoc' \in {FileDoc, [FileDoc EXCEPT ![writer[w].key] = temp[w]]}
    BY <1>0, <1>1, <2>1, <2>2, WriterWrites
  <2>4. QED
    BY <1>0, <1>1, <2>3
<1>2. CASE UNCHANGED file /\ Finished(w, "error") /\ debris' \in {debris, TRUE}
  <2> DEFINE s == [at |-> "done", result |-> "error"]
  <2>1. s \in Positions /\ PathRight(s)' /\ TempRight(s, None)
    BY DEF Positions, PathRight, TempRight, Chosen
  <2>2. writer' = [writer EXCEPT ![w] = s] /\ temp' = [temp EXCEPT ![w] = None]
        /\ UNCHANGED present /\ debris' \in BOOLEAN
    BY <1>0, <1>2 DEF Finished, Rename
  <2>3. writer[w] # AtRest
    BY <1>0 DEF AtRest
  <2> HIDE DEF s
  <2>4. FileInv'
    BY <1>0, <1>2, <2>1, <2>2, <2>3, WriterGoesOn
  <2>5. QED
    BY <1>2, <2>4
<1>3. QED
  BY <1>1, <1>2 DEF Rename

(* An unlink removes the document of its call, if there is any; of a       *)
(* format that is amiss it may uncover another.                            *)
LEMMA UnlinkRemoves ==
    ASSUME FileInv, NEW w \in Writer, RemoveIfPresent(w),
           UNCHANGED <<reader, got, apart>>, Overlooks({}), Remember
    PROVE  /\ FileInv'
           /\ \/ /\ writer[w].key \notin amiss
                 /\ FileDoc' = [FileDoc EXCEPT ![writer[w].key] = None]
                 /\ writer' = [writer EXCEPT ![w] = [at |-> "rmdir", result |->
                       IF FileDoc[writer[w].key] = None THEN "absent" ELSE "removed"]]
              \/ /\ writer[w].key \in amiss
                 /\ \E d \in Body \cup {None} : FileDoc' = [FileDoc EXCEPT ![writer[w].key] = d]
                 /\ \E r \in {"absent", "removed"} :
                       writer' = [writer EXCEPT ![w] = [at |-> "rmdir", result |-> r]]
              \/ UNCHANGED file /\ Finished(w, "error")
<1>0. /\ FileTypeOK /\ writer[w].at = "unlink" /\ writer[w].at \in Chosen
      /\ present \in BOOLEAN /\ debris \in BOOLEAN /\ temp[w] \in Body \cup {None, "part"}
      /\ temp[w] # None => present
  BY DEF FileInv, RemoveIfPresent, Chosen, FileTypeOK
<1>1. CASE /\ file' = [file EXCEPT ![writer[w].path] = None]
           /\ writer' = [writer EXCEPT ![w] = [at |-> "rmdir", result |->
                 IF file[writer[w].path] = None THEN "absent" ELSE "removed"]]
  <2>1. /\ writer[w].path \in Name /\ writer[w].path[2] = writer[w].key
        /\ writer[w].key \notin amiss => \A n \in Documents(writer[w].key) : n = writer[w].path
    BY <1>0, PathIsTheDocument
  <2>2. writer[w].key \notin amiss => FileDoc[writer[w].key] = file[writer[w].path]
    BY <2>1, DocumentIsFile
  <2>3. PICK r \in {"absent", "removed"} :
           r = IF file[writer[w].path] = None THEN "absent" ELSE "removed"
    OBVIOUS
  <2> DEFINE s == [at |-> "rmdir", result |-> r]
  <2>4. writer' = [writer EXCEPT ![w] = s] /\ UNCHANGED <<present, debris, temp>>
    BY <1>1, <2>3 DEF RemoveIfPresent
  <2>5. s \in Positions /\ s.at = "rmdir"
    BY DEF Positions
  <2> HIDE DEF s
  <2>6. /\ FileInv'
        /\ writer[w].key \notin amiss => FileDoc' = [FileDoc EXCEPT ![writer[w].key] = None]
        /\ \E d \in Body \cup {None} : FileDoc' = [FileDoc EXCEPT ![writer[w].key] = d]
    BY <1>0, <1>1, <2>4, <2>5, WriterWrites
  <2>7. QED
    BY <2>2, <2>3, <2>4, <2>6 DEF s
<1>2. CASE UNCHANGED file /\ Finished(w, "error")
  <2> DEFINE s == [at |-> "done", result |-> "error"]
  <2>1. s \in Positions /\ PathRight(s)' /\ TempRight(s, temp[w])
    BY DEF Positions, PathRight, TempRight, Chosen
  <2>2. writer' = [writer EXCEPT ![w] = s] /\ UNCHANGED <<temp, present, debris>>
    BY <1>2 DEF Finished, RemoveIfPresent
  <2>3. writer[w] # AtRest
    BY <1>0 DEF AtRest
  <2> HIDE DEF s
  <2>4. FileInv'
    BY <1>0, <1>2, <2>1, <2>2, <2>3, WriterGoesOn
  <2>5. QED
    BY <1>2, <2>4
<1>3. QED
  BY <1>0, <1>1, <1>2 DEF RemoveIfPresent

(* A step of the reader, or a crash, leaves the documents as they are.     *)
LEMMA ReaderKeeps ==
    ASSUME FileInv, Remember, UNCHANGED <<present, file, temp, debris, writer, apart>>,
           Overlooks({}), reader' \in ReaderType, got' \in [Key -> Body \cup {None}]
    PROVE  FileInv'
<1>1. OneDocument' /\ Canonical'
  BY StaysOne
<1>2. Alone'
  BY DEF FileInv, Alone
<1>3. \A w \in Writer : PathRight(writer[w])'
  BY PathStays
<1>4. \A w \in Writer : TempRight(writer'[w], temp'[w])
  BY DEF FileInv
<1>5. seen' \in [Key -> SUBSET (Body \cup {None})]
  BY RememberTyped DEF FileInv, FileTypeOK
<1>6. FileTypeOK'
  BY <1>5 DEF FileInv, FileTypeOK, ReaderType, Overlooks
<1>7. QED
  BY <1>1, <1>2, <1>3, <1>4, <1>6 DEF FileInv

LEMMA CrashKeeps ==
    ASSUME FileInv, Remember, Crash, Overlooks({}), UNCHANGED apart
    PROVE  FileInv'
<1>1. \A w \in Writer : writer'[w] = AtRest /\ temp'[w] = None
  BY DEF Crash
<1>2. OneDocument' /\ Canonical'
  BY StaysOne DEF Crash
<1>3. Alone'
  BY <1>1 DEF Alone
<1>4. \A w \in Writer : PathRight(writer[w])' /\ TempRight(writer'[w], temp'[w])
  BY <1>1 DEF PathRight, TempRight, AtRest, Chosen
<1>5. seen' \in [Key -> SUBSET (Body \cup {None})]
  BY RememberTyped DEF FileInv, FileTypeOK, Crash
<1>6. FileTypeOK'
  <2>1. AtRest \in Positions
    BY DEF Positions
  <2>2. reader' \in [at : {"idle", "read"}, names : SUBSET Name, lost : SUBSET Key]
    BY DEF Crash, Unread
  <2>3. QED
    BY <1>5, <2>1, <2>2 DEF FileInv, FileTypeOK, Crash, Overlooks
<1>7. QED
  BY <1>1, <1>2, <1>3, <1>4, <1>6 DEF FileInv

LEMMA ReaderTyped ==
    ASSUME FileInv, ReaderStep
    PROVE  /\ reader' \in ReaderType
           /\ got' \in [Key -> Body \cup {None}]
<1>1. /\ reader \in ReaderType
      /\ got \in [Key -> Body \cup {None}] /\ file \in [Name -> Body \cup {None}]
      /\ \A n \in Name : n[2] \in Key
  BY DEF FileInv, FileTypeOK, ReaderType, Name
<1>2. CASE List
  <2>1. PICK names \in SUBSET {n \in Name : file[n] # None} :
           reader' = [at |-> "read", names |-> names,
                      lost |-> {n[2] : n \in {n \in Name : file[n] # None} \ names}]
    BY <1>2 DEF List
  <2>2. {n[2] : n \in {n \in Name : file[n] # None} \ names} \in SUBSET Key
    BY <1>1
  <2>3. QED
    BY <1>2, <2>1, <2>2 DEF List, ReaderType
<1>3. CASE ReadNext
  <2>1. PICK n \in reader.names :
           \/ /\ got' = IF got[n[2]] # None THEN got ELSE [got EXCEPT ![n[2]] = file[n]]
              /\ reader' = [reader EXCEPT !.names = @ \ {n}]
           \/ /\ reader' = [reader EXCEPT !.names = @ \ {n}, !.lost = @ \cup {n[2]}]
              /\ UNCHANGED got
    BY <1>3 DEF ReadNext
  <2>2. n \in Name /\ n[2] \in Key
    BY <1>1 DEF ReaderType
  <2>3. file[n] \in Body \cup {None}
    BY <1>1, <2>2
  <2>4. got' \in [Key -> Body \cup {None}]
    BY <1>1, <2>1, <2>3
  <2>5. reader' \in ReaderType
    <3>1. reader.names \ {n} \in SUBSET Name /\ reader.lost \cup {n[2]} \in SUBSET Key
          /\ reader = [at |-> reader.at, names |-> reader.names, lost |-> reader.lost]
      BY <1>1, <2>2 DEF ReaderType
    <3>2. \/ reader' = [at |-> reader.at, names |-> reader.names \ {n}, lost |-> reader.lost]
          \/ reader' = [at |-> reader.at, names |-> reader.names \ {n},
                        lost |-> reader.lost \cup {n[2]}]
      BY <2>1, <3>1
    <3>3. QED
      BY <1>1, <3>1, <3>2 DEF ReaderType
  <2>6. QED
    BY <2>4, <2>5
<1>4. CASE ReadEnd
  BY <1>1, <1>4 DEF ReadEnd, Unread, ReaderType
<1>5. QED
  BY <1>2, <1>3, <1>4 DEF ReaderStep

(* The invariant holds throughout.                                         *)
LEMMA FileInvKept == FileInv /\ [FileNext]_fileVars => FileInv'
<1> SUFFICES ASSUME FileInv, [FileNext]_fileVars
             PROVE  FileInv'
  OBVIOUS
<1>1. ASSUME NEW w \in Writer, WriterStep(w), UNCHANGED <<reader, got>>, Remember, UNCHANGED apart
      PROVE  FileInv'
  BY <1>1, WriterKeeps, RenameWrites, UnlinkRemoves DEF WriterStep
<1>2. ASSUME ReaderStep, UNCHANGED <<present, file, temp, debris, writer>>, Overlooks({}),
             Remember, UNCHANGED apart
      PROVE  FileInv'
  BY <1>2, ReaderKeeps, ReaderTyped
<1>3. CASE Crash /\ Overlooks({}) /\ Remember /\ UNCHANGED apart
  BY <1>3, CrashKeeps
<1>4. CASE UNCHANGED fileVars
  <2>1. OneDocument' /\ Alone' /\ Canonical'
    BY <1>4 DEF FileInv, OneDocument, Alone, Canonical, Documents, fileVars
  <2>2. \A w \in Writer : PathRight(writer[w])' /\ TempRight(writer'[w], temp'[w])
    BY <1>4 DEF FileInv, PathRight, TempRight, Documents, fileVars
  <2>3. FileTypeOK'
    BY <1>4 DEF FileInv, FileTypeOK, fileVars
  <2>4. QED
    BY <1>4, <2>1, <2>2, <2>3 DEF FileInv, fileVars
<1>5. QED
  BY <1>1, <1>2, <1>3, <1>4 DEF FileNext

(* However the steps of the store's writers, its reader and a crash fall,  *)
(* and whichever of them fail, a document of a format that is not amiss    *)
(* has one file, and a writer the path of that.                            *)
THEOREM FileInvariant == FileSpec => []FileInv
BY FileStarts, FileInvKept, PTL DEF FileSpec

(* The type invariant of the file store, which says too that there is no   *)
(* document without a directory.                                           *)
THEOREM FileTypeCorrect == FileSpec => []FileTypeOK
<1>1. FileInv => FileTypeOK
  BY DEF FileInv
<1>2. QED
  BY <1>1, FileInvariant, PTL

(* What a step does to the calls as their callers see them.                *)
LEMMA FileCallAfter ==
    ASSUME NEW w \in Writer, NEW s \in Positions, FileTypeOK,
           writer' = [writer EXCEPT ![w] = s]
    PROVE  FileCall' = [FileCall EXCEPT ![w] =
                           CASE s.at = "idle" -> [op |-> "idle"]
                             [] s.at \in {"rmdir", "done"} -> [op |-> "done", result |-> s.result]
                             [] OTHER -> IF s.op = "put"
                                         THEN [op |-> "put", key |-> s.key, body |-> s.body]
                                         ELSE [op |-> "delete", key |-> s.key]]
BY ZenonT(60) DEF FileCall, FileTypeOK

LEMMA FileCallDone ==
    ASSUME NEW w \in Writer, NEW r \in {"ok", "error", "absent", "removed"}, FileTypeOK,
           \/ Finished(w, r)
           \/ r \in {"absent", "removed"}
              /\ writer' = [writer EXCEPT ![w] = [at |-> "rmdir", result |-> r]]
    PROVE  FileCall' = [FileCall EXCEPT ![w] = FilePromise!Result(r)]
<1>1. PICK a \in {"done", "rmdir"} :
         /\ writer' = [writer EXCEPT ![w] = [at |-> a, result |-> r]]
         /\ [at |-> a, result |-> r] \in Positions
  BY DEF Finished, Positions
<1>2. QED
  BY <1>1, FileCallAfter DEF FilePromise!Result

(* What a caller sees of a writer under way.                               *)
LEMMA FileCallUnderWay ==
    ASSUME FileTypeOK, NEW w \in Writer, writer[w].at \in Chosen \cup {"look"}
    PROVE  /\ FileCall[w].key = writer[w].key /\ writer[w].key \in Key
           /\ FileCall[w].op = writer[w].op /\ writer[w].op \in {"put", "delete"}
           /\ writer[w].op = "put" => FileCall[w].body = writer[w].body
<1>1. writer[w].key \in Key /\ writer[w].op \in {"put", "delete"}
  BY WriterTyped
<1>2. FileCall[w] = IF writer[w].op = "put"
                    THEN [op |-> "put", key |-> writer[w].key, body |-> writer[w].body]
                    ELSE [op |-> "delete", key |-> writer[w].key]
  BY DEF FileCall, Chosen
<1>3. QED
  BY <1>1, <1>2

(* A writer that goes on in its call changes nothing its caller sees.      *)
LEMMA GoesOnUnseen ==
    ASSUME FileTypeOK, NEW w \in Writer, NEW a \in {"parent", "write", "fill", "rename", "unlink"},
           NEW q, writer[w].at \in Chosen \cup {"look"},
           IF writer[w].op = "put" THEN a # "unlink" ELSE a = "unlink",
           \/ writer' = [writer EXCEPT ![w].at = a]
           \/ writer[w].at = "look" /\ a \in {"parent", "unlink"}
              /\ writer' = [writer EXCEPT ![w].at = a, ![w].path = q]
    PROVE  FileCall' = FileCall
<1>1. \A v \in Writer \ {w} : writer'[v] = writer[v]
  BY DEF FileTypeOK
<1>2. writer'[w].at = a /\ writer'[w].op = writer[w].op /\ writer'[w].key = writer[w].key
      /\ (writer[w].op = "put" => writer'[w].body = writer[w].body)
  <2>1. PICK r : r = writer[w]
    OBVIOUS
  <2>2. /\ r.op = "put" => r = [at |-> r.at, op |-> "put", key |-> r.key,
                                body |-> r.body, path |-> r.path]
        /\ r.op = "delete" => r = [at |-> r.at, op |-> "delete", key |-> r.key, path |-> r.path]
        /\ r.op \in {"put", "delete"}
    BY <2>1, WriterTyped
  <2>3. PICK s : s = [r EXCEPT !.at = a]
    OBVIOUS
  <2>4. s.at = a /\ s.op = r.op /\ s.key = r.key /\ (r.op = "put" => s.body = r.body)
        /\ (r.op = "put" => s = [at |-> a, op |-> "put", key |-> r.key,
                                 body |-> r.body, path |-> r.path])
        /\ (r.op = "delete" => s = [at |-> a, op |-> "delete", key |-> r.key, path |-> r.path])
    BY <2>2, <2>3
  <2>5. CASE writer' = [writer EXCEPT ![w].at = a]
    <3>1. writer'[w] = s
      BY <2>1, <2>3, <2>5 DEF FileTypeOK
    <3>2. QED
      BY <2>1, <2>4, <3>1
  <2>6. CASE writer' = [writer EXCEPT ![w].at = a, ![w].path = q]
    <3>1. PICK t : t = [s EXCEPT !.path = q]
      OBVIOUS
    <3>2. t.at = a /\ t.op = r.op /\ t.key = r.key /\ (r.op = "put" => t.body = r.body)
      BY <2>2, <2>4, <3>1
    <3>3. writer' = [writer EXCEPT ![w] = t]
      BY <2>1, <2>3, <2>6, <3>1, TwoFields DEF FileTypeOK
    <3>4. writer'[w] = t
      BY <3>3 DEF FileTypeOK
    <3>5. QED
      BY <2>1, <3>2, <3>4
  <2>7. QED
    BY <2>5, <2>6
<1>3. FileCall'[w] = FileCall[w]
  BY <1>2 DEF FileCall, Chosen
<1>4. QED
  BY <1>1, <1>3 DEF FileCall

LEMMA SameFilesSameDocs ==
    ASSUME UNCHANGED file
    PROVE  FileDoc' = FileDoc
BY DEF FileDoc, Documents, First

(* Each action of a writer is one of the contract's, or unseen.            *)
LEMMA WriterPromise ==
    ASSUME FileInv, NEW w \in Writer, WriterStep(w), UNCHANGED <<reader, got, apart>>, Remember
    PROVE  [FilePromise!ContractNext]_FilePromise!contractVars
<1> USE StemAssumption, StoreDataAssumption
<1>0. FileTypeOK /\ OneDocument /\ FileDoc \in [Key -> Body \cup {None}]
  BY FileDocTyped DEF FileInv, FileTypeOK
<1>1. ASSUME FileCall' = FileCall, UNCHANGED file
      PROVE  UNCHANGED FilePromise!contractVars
  BY <1>1, SameFilesSameDocs DEF FilePromise!contractVars
<1>2. ASSUME UNCHANGED file, Finished(w, "error"), writer[w].at \in Chosen \cup {"look"}
      PROVE  FilePromise!Fails(w)
  BY <1>0, <1>2, FileCallDone, FileCallUnderWay, SameFilesSameDocs DEF FilePromise!Fails
<1>3. CASE Call(w)
  <2>1. PICK f \in Key, b \in Body :
           \/ writer' = [writer EXCEPT ![w] =
                 [at |-> "look", op |-> "put", key |-> f, body |-> b, path |-> None]]
           \/ writer' = [writer EXCEPT ![w] =
                 [at |-> "look", op |-> "delete", key |-> f, path |-> None]]
    BY <1>3 DEF Call
  <2>2. \E c \in FilePromise!Puts \cup FilePromise!Deletes : FileCall' = [FileCall EXCEPT ![w] = c]
    <3>1. CASE writer' = [writer EXCEPT ![w] =
                  [at |-> "look", op |-> "put", key |-> f, body |-> b, path |-> None]]
      <4>1. [at |-> "look", op |-> "put", key |-> f, body |-> b, path |-> None] \in Positions
        BY DEF Positions
      <4>2. FileCall' = [FileCall EXCEPT ![w] = [op |-> "put", key |-> f, body |-> b]]
        BY <1>0, <3>1, <4>1, FileCallAfter
      <4>3. [op |-> "put", key |-> f, body |-> b] \in FilePromise!Puts
        BY DEF FilePromise!Puts
      <4>4. QED
        BY <4>2, <4>3
    <3>2. CASE writer' = [writer EXCEPT ![w] =
                  [at |-> "look", op |-> "delete", key |-> f, path |-> None]]
      <4>1. [at |-> "look", op |-> "delete", key |-> f, path |-> None] \in Positions
        BY DEF Positions
      <4>2. FileCall' = [FileCall EXCEPT ![w] = [op |-> "delete", key |-> f]]
        BY <1>0, <3>2, <4>1, FileCallAfter
      <4>3. [op |-> "delete", key |-> f] \in FilePromise!Deletes
        BY DEF FilePromise!Deletes
      <4>4. QED
        BY <4>2, <4>3
    <3>3. QED
      BY <2>1, <3>1, <3>2
  <2>3. FileCall[w] = FilePromise!Idle
    BY <1>3 DEF Call, FileCall, AtRest, FilePromise!Idle
  <2>4. FileDoc' = FileDoc
    BY <1>3, SameFilesSameDocs DEF Call
  <2>5. FilePromise!Make(w)
    BY <2>2, <2>3, <2>4 DEF FilePromise!Make
  <2>6. QED
    BY <2>5 DEF FilePromise!ContractNext
<1>4. CASE Look(w)
  <2>1. /\ writer[w].at \in Chosen \cup {"look"} /\ writer[w].at = "look" /\ UNCHANGED file
        /\ writer[w].op \in {"put", "delete"} /\ writer[w].key \in Key
    BY <1>0, <1>4, WriterTyped DEF Look
  <2>2. CASE \E q : /\ writer[w].op = "put"
                    /\ writer' = [writer EXCEPT ![w].at = "parent", ![w].path = q]
    BY <1>0, <1>1, <2>1, <2>2, GoesOnUnseen
  <2>3. CASE Finished(w, "error")
    BY <1>2, <2>1, <2>3 DEF FilePromise!ContractNext
  <2>4. CASE /\ writer[w].op = "delete" /\ Finished(w, "absent")
             /\ Existing(writer[w].key) = None \/ writer[w].key \in amiss'
    <3>1. FileDoc' = [FileDoc EXCEPT ![writer[w].key] = FileDoc[writer[w].key]]
      BY <1>0, <2>1, SameFilesSameDocs
    <3>2. FileCall' = [FileCall EXCEPT ![w] = FilePromise!Result("absent")]
      BY <1>0, <2>4, FileCallDone
    <3>3. FileCall[w].key = writer[w].key /\ FileCall[w].op = "delete"
      BY <1>0, <2>1, <2>4, FileCallUnderWay
    <3>4. CASE Existing(writer[w].key) = None
      <4>1. Documents(writer[w].key) = {}
        BY <2>1, <3>4, FirstIsFirst DEF Existing, FirstRight, Documents, Name
      <4>2. FileDoc[writer[w].key] = None
        BY <2>1, <4>1 DEF FileDoc
      <4>3. FilePromise!DeleteTakes(w)
        BY <3>1, <3>2, <3>3, <4>2 DEF FilePromise!DeleteTakes
      <4>4. QED
        BY <4>3 DEF FilePromise!ContractNext
    <3>5. CASE writer[w].key \in amiss'
      <4>1. FileDoc[writer[w].key] \in Body \cup {None}
        BY <1>0, <2>1
      <4>2. FilePromise!GoesAmiss(w)
        BY <3>1, <3>2, <3>3, <3>5, <4>1 DEF FilePromise!GoesAmiss
      <4>3. QED
        BY <4>2 DEF FilePromise!ContractNext
    <3>6. QED
      BY <2>4, <3>4, <3>5
  <2>5. CASE \E q : /\ writer[w].op = "delete"
                    /\ writer' = [writer EXCEPT ![w].at = "unlink", ![w].path = q]
    BY <1>0, <1>1, <2>1, <2>5, GoesOnUnseen
  <2>6. PICK q :
           /\ \/ /\ writer[w].op = "put"
                 /\ writer' = [writer EXCEPT ![w].at = "parent", ![w].path = q]
              \/ Finished(w, "error")
              \/ writer[w].op = "delete" /\ q = None /\ Finished(w, "absent")
              \/ /\ writer[w].op = "delete"
                 /\ writer' = [writer EXCEPT ![w].at = "unlink", ![w].path = q]
           /\ Overlooks(IF Existing(writer[w].key) \in {None, q} THEN {} ELSE {writer[w].key})
    BY <1>4, <2>1 DEF Look
  <2>7. q = None => Existing(writer[w].key) = None \/ writer[w].key \in amiss'
    BY <2>6 DEF Overlooks
  <2>8. QED
    BY <2>2, <2>3, <2>4, <2>5, <2>6, <2>7
<1>5. ASSUME NEW a \in {"write", "fill", "rename"}, Goes(w, a), UNCHANGED file,
             writer[w].at \in {"parent", "write", "fill"}
      PROVE  UNCHANGED FilePromise!contractVars
  <2>1. writer[w].at \in Chosen /\ writer[w].op = "put"
    BY <1>0, <1>5, WriterTyped DEF Chosen
  <2>2. FileCall' = FileCall
    BY <1>0, <1>5, <2>1, GoesOnUnseen DEF Goes
  <2>3. QED
    BY <1>1, <1>5, <2>2
<1>6. CASE CreateParent(w) \/ OpenTemp(w) \/ FillTemp(w)
  BY <1>2, <1>5, <1>6 DEF CreateParent, OpenTemp, FillTemp, Chosen, FilePromise!ContractNext
<1>7. CASE Rename(w) /\ Overlooks({})
  <2>1. writer[w].at \in Chosen /\ writer[w].op = "put"
    BY <1>0, <1>7, WriterTyped DEF Rename, Chosen
  <2>2. CASE /\ FileDoc' = [FileDoc EXCEPT ![writer[w].key] = writer[w].body]
             /\ Finished(w, "ok")
    <3>1. FilePromise!PutTakes(w)
      BY <1>0, <2>1, <2>2, FileCallDone, FileCallUnderWay DEF FilePromise!PutTakes
    <3>2. QED
      BY <3>1 DEF FilePromise!ContractNext
  <2>3. CASE writer[w].key \in amiss /\ FileDoc' = FileDoc /\ Finished(w, "ok")
    <3>1. FilePromise!GoesAmiss(w)
      BY <1>0, <2>1, <2>3, FileCallDone, FileCallUnderWay DEF FilePromise!GoesAmiss
    <3>2. QED
      BY <3>1 DEF FilePromise!ContractNext
  <2>4. CASE UNCHANGED file /\ Finished(w, "error")
    BY <1>2, <2>1, <2>4 DEF FilePromise!ContractNext
  <2>5. QED
    BY <1>7, <2>2, <2>3, <2>4, RenameWrites
<1>8. CASE RemoveIfPresent(w) /\ Overlooks({})
  <2>1. writer[w].at \in Chosen /\ writer[w].op = "delete"
    BY <1>0, <1>8, WriterTyped DEF RemoveIfPresent, Chosen
  <2> DEFINE r == IF FileDoc[writer[w].key] = None THEN "absent" ELSE "removed"
  <2>2. CASE /\ FileDoc' = [FileDoc EXCEPT ![writer[w].key] = None]
             /\ writer' = [writer EXCEPT ![w] = [at |-> "rmdir", result |-> r]]
    <3>1. r \in {"absent", "removed"}
      OBVIOUS
    <3>2. FileCall' = [FileCall EXCEPT ![w] = FilePromise!Result(r)]
      <4> HIDE DEF r
      <4>1. QED
        BY <1>0, <2>2, <3>1, FileCallDone
    <3>3. FilePromise!DeleteTakes(w)
      BY <1>0, <2>1, <2>2, <3>2, FileCallUnderWay DEF FilePromise!DeleteTakes
    <3>4. QED
      BY <3>3 DEF FilePromise!ContractNext
  <2>3. CASE /\ writer[w].key \in amiss
             /\ \E d \in Body \cup {None} : FileDoc' = [FileDoc EXCEPT ![writer[w].key] = d]
             /\ \E a \in {"absent", "removed"} :
                   writer' = [writer EXCEPT ![w] = [at |-> "rmdir", result |-> a]]
    <3>1. \E a \in {"absent", "removed"} : FileCall' = [FileCall EXCEPT ![w] = FilePromise!Result(a)]
      BY <1>0, <2>3, FileCallDone
    <3>2. FileCall[w].key = writer[w].key /\ FileCall[w].op = "delete"
      BY <1>0, <2>1, FileCallUnderWay
    <3>3. FilePromise!GoesAmiss(w)
      BY <2>3, <3>1, <3>2 DEF FilePromise!GoesAmiss
    <3>4. QED
      BY <3>3 DEF FilePromise!ContractNext
  <2>4. CASE UNCHANGED file /\ Finished(w, "error")
    BY <1>2, <2>1, <2>4 DEF FilePromise!ContractNext
  <2>5. QED
    BY <1>8, <2>2, <2>3, <2>4, UnlinkRemoves
<1>9. CASE RemoveDir(w)
  <2>1. writer[w].at = "rmdir" /\ writer[w].result \in {"absent", "removed"}
    BY <1>0, <1>9, WriterTyped DEF RemoveDir
  <2>2. FileCall' = [FileCall EXCEPT ![w] = FilePromise!Result(writer[w].result)]
    BY <1>0, <1>9, <2>1, FileCallDone DEF RemoveDir
  <2>3. FileCall[w] = FilePromise!Result(writer[w].result)
    BY <2>1 DEF FileCall, FilePromise!Result
  <2>4. FileCall' = FileCall
    BY <2>2, <2>3 DEF FileCall
  <2>5. QED
    BY <1>1, <1>9, <2>4 DEF RemoveDir
<1>10. CASE Return(w)
  <2>1. FileCall[w].op = "done"
    BY <1>10 DEF Return, FileCall
  <2>2. AtRest \in Positions /\ AtRest.at = "idle"
    BY DEF Positions, AtRest
  <2>3. FileCall' = [FileCall EXCEPT ![w] = FilePromise!Idle]
    BY <1>0, <1>10, <2>2, FileCallAfter DEF Return, FilePromise!Idle
  <2>4. FilePromise!Returns(w)
    BY <1>10, <2>1, <2>3, SameFilesSameDocs DEF Return, FilePromise!Returns
  <2>5. QED
    BY <2>4 DEF FilePromise!ContractNext
<1>11. QED
  BY <1>3, <1>4, <1>6, <1>7, <1>8, <1>9, <1>10 DEF WriterStep

(* The file store implements the contract: a put takes effect with its     *)
(* rename and a delete with its unlink, or its finding nothing to unlink.  *)
THEOREM FileKeepsPromise == FileSpec => FilePromise!ContractSpec
<1>1. FileInit => FilePromise!ContractInit
  <2> SUFFICES ASSUME FileInit
               PROVE  FilePromise!ContractInit
    OBVIOUS
  <2>1. FileDoc \in [Key -> Body \cup {None}]
    BY FileStarts, FileDocTyped DEF FileInv, FileTypeOK
  <2>2. FileCall = [w \in Writer |-> FilePromise!Idle]
    BY DEF FileInit, FileCall, AtRest, FilePromise!Idle
  <2>3. QED
    BY <2>1, <2>2 DEF FilePromise!ContractInit
<1>2. FileInv /\ [FileNext]_fileVars => [FilePromise!ContractNext]_FilePromise!contractVars
  <2> SUFFICES ASSUME FileInv, [FileNext]_fileVars
               PROVE  [FilePromise!ContractNext]_FilePromise!contractVars
    OBVIOUS
  <2>1. ASSUME NEW w \in Writer, WriterStep(w), UNCHANGED <<reader, got>>, Remember,
               UNCHANGED apart
        PROVE  [FilePromise!ContractNext]_FilePromise!contractVars
    BY <2>1, WriterPromise
  <2>2. CASE UNCHANGED <<file, writer>>
    <3>1. FileCall' = FileCall
      BY <2>2 DEF FileCall
    <3>2. QED
      BY <2>2, <3>1, SameFilesSameDocs DEF FilePromise!contractVars
  <2>3. CASE Crash
    <3>1. FileCall' = [w \in Writer |-> IF w \in Writer THEN FilePromise!Idle ELSE FileCall[w]]
      BY <2>3 DEF Crash, FileCall, AtRest, FilePromise!Idle
    <3>2. FilePromise!Dies
      BY <2>3, <3>1, SameFilesSameDocs DEF Crash, FilePromise!Dies
    <3>3. QED
      BY <3>2 DEF FilePromise!ContractNext
  <2>4. QED
    BY <2>1, <2>2, <2>3 DEF FileNext, fileVars
<1>3. QED
  BY <1>1, <1>2, FileInvariant, PTL DEF FileSpec, FilePromise!ContractSpec

(* A file that goes was the document of its format, which has none then,   *)
(* unless the format is amiss.                                             *)
LEMMA DocumentGoes ==
    ASSUME FileInv, [FileNext]_fileVars, NEW n \in Name, file[n] # None, file'[n] = None,
           n[2] \notin amiss
    PROVE  FileDoc'[n[2]] = None
<1> USE StemAssumption, StoreDataAssumption
<1>1. file' # file
  OBVIOUS
<1>2. PICK w \in Writer : /\ WriterStep(w) /\ Remember /\ UNCHANGED <<reader, got, apart>>
  BY <1>1 DEF FileNext, fileVars, Crash
<1>3. CASE Rename(w)
  <2>1. temp[w] \in Body /\ file' = [file EXCEPT ![writer[w].path] = temp[w]]
    BY <1>1, <1>3, WriterTyped DEF Rename, FileInv, TempRight, Chosen
  <2>2. QED
    BY <2>1 DEF FileInv, FileTypeOK
<1>4. CASE RemoveIfPresent(w) /\ Overlooks({})
  <2>1. file' = [file EXCEPT ![writer[w].path] = None] /\ writer[w].at \in Chosen
    BY <1>1, <1>4 DEF RemoveIfPresent, Chosen
  <2>2. n = writer[w].path
    BY <2>1 DEF FileInv, FileTypeOK
  <2>3. writer[w].path[2] = writer[w].key
    BY <2>1, PathIsTheDocument
  <2>4. FileDoc' = [FileDoc EXCEPT ![writer[w].key] = None]
    BY <1>1, <1>2, <1>4, <2>2, <2>3, UnlinkRemoves
  <2>5. n[2] \in Key
    BY DEF Name
  <2>6. QED
    BY <2>2, <2>3, <2>4, <2>5 DEF FileDoc
<1>5. QED
  BY <1>1, <1>2, <1>3, <1>4
  DEF WriterStep, Call, Look, CreateParent, OpenTemp, FillTemp, RemoveDir, Return

(* While a directory is read, what a format has, and what has been read of *)
(* it, is something it has had; a format nothing was found of has had no   *)
(* document, unless one was lost; nor has one that is amiss, or of which a *)
(* file still to be read is gone.                                          *)
ReaderInv ==
    reader.at = "read" =>
        /\ \A f \in Key :
              /\ FileDoc[f] \in seen[f]
              /\ got[f] # None => got[f] \in seen[f]
              /\ f \in amiss => None \in seen[f]
              /\ got[f] = None /\ f \notin reader.lost /\ (\A n \in reader.names : n[2] # f)
                    => None \in seen[f]
        /\ \A n \in reader.names : file[n] = None => None \in seen[n[2]]

LEMMA ReaderInvKept == FileInv /\ FileInv' /\ ReaderInv /\ [FileNext]_fileVars => ReaderInv'
<1> SUFFICES ASSUME FileInv, FileInv', ReaderInv, [FileNext]_fileVars, reader'.at = "read"
             PROVE  ReaderInv'
  BY DEF ReaderInv
<1>1. CASE UNCHANGED fileVars
  <2>1. FileDoc' = FileDoc
    BY <1>1, SameFilesSameDocs DEF fileVars
  <2>2. QED
    BY <1>1, <2>1 DEF fileVars, ReaderInv
<1>2. CASE FileNext
  <2>1. \A f \in Key :
           /\ FileDoc'[f] \in seen'[f]
           /\ f \in amiss' => /\ None \in seen'[f]
                              /\ \A n \in Documents(f)' : file'[n] \in seen'[f]
           /\ None \in seen[f] => None \in seen'[f]
           /\ got'[f] \in seen[f] => got'[f] \in seen'[f]
    BY <1>2 DEF FileNext, Remember
  <2>2. /\ reader \in ReaderType /\ got \in [Key -> Body \cup {None}]
        /\ \A n \in Name : n[2] \in Key
    BY DEF FileInv, FileTypeOK, Name, ReaderType
  <2>3. CASE UNCHANGED <<reader, got>>
    <3>1. reader.at = "read"
      BY <2>3
    <3>2. ASSUME NEW n \in reader.names, file'[n] = None
          PROVE  None \in seen'[n[2]]
      <4>1. n \in Name /\ n[2] \in Key
        BY <2>2 DEF ReaderType
      <4>2. CASE file[n] = None \/ n[2] \in amiss
        BY <2>1, <3>1, <4>1, <4>2 DEF ReaderInv
      <4>3. CASE file[n] # None /\ n[2] \notin amiss
        BY <2>1, <3>2, <4>1, <4>3, DocumentGoes
      <4>4. QED
        BY <4>2, <4>3
    <3>3. QED
      BY <2>1, <2>3, <3>1, <3>2 DEF ReaderInv
  <2>4. CASE List /\ UNCHANGED file
    <3>1. PICK names \in SUBSET {n \in Name : file[n] # None} :
             /\ reader' = [at |-> "read", names |-> names,
                           lost |-> {n[2] : n \in {n \in Name : file[n] # None} \ names}]
             /\ got' = [f \in Key |-> None]
      BY <2>4 DEF List
    <3>2. ASSUME NEW f \in Key, f \notin reader'.lost, \A n \in reader'.names : n[2] # f
          PROVE  None \in seen'[f]
      <4>1. Documents(f) = {}
        BY <3>1, <3>2 DEF Documents
      <4>2. FileDoc'[f] = None
        BY <2>4, <4>1, SameFilesSameDocs DEF FileDoc
      <4>3. QED
        BY <2>1, <4>2
    <3>3. QED
      BY <2>1, <2>4, <3>1, <3>2 DEF ReaderInv
  <2>5. CASE ReadNext /\ UNCHANGED file
    <3>1. PICK n \in reader.names :
             \/ /\ got' = IF got[n[2]] # None THEN got ELSE [got EXCEPT ![n[2]] = file[n]]
                /\ reader' = [reader EXCEPT !.names = @ \ {n}]
             \/ /\ reader' = [reader EXCEPT !.names = @ \ {n}, !.lost = @ \cup {n[2]}]
                /\ UNCHANGED got
      BY <2>5 DEF ReadNext
    <3>2. /\ reader.at = "read" /\ reader'.names = reader.names \ {n}
          /\ n \in Name /\ n[2] \in Key /\ reader.lost \subseteq reader'.lost
      BY <2>2, <2>5, <3>1 DEF ReadNext, ReaderType
    <3>3. file[n] \in seen'[n[2]]
      <4>1. CASE file[n] = None
        BY <2>1, <3>2, <4>1 DEF ReaderInv
      <4>2. CASE file[n] # None /\ n[2] \in amiss'
        BY <2>1, <2>5, <3>2, <4>2 DEF Documents
      <4>3. CASE file[n] # None /\ n[2] \notin amiss'
        <5>1. n \in Documents(n[2]) /\ Documents(n[2])' = Documents(n[2])
          BY <2>5, <3>2, <4>3 DEF Documents
        <5>2. \A m \in Documents(n[2]) : m = n
          BY <3>2, <4>3, <5>1 DEF FileInv, OneDocument
        <5>3. FileDoc[n[2]] = file[n]
          BY <3>2, <5>2, DocumentIsFile
        <5>4. FileDoc'[n[2]] = file[n]
          BY <2>5, <5>3, SameFilesSameDocs
        <5>5. QED
          BY <2>1, <3>2, <5>4
      <4>4. QED
        BY <4>1, <4>2, <4>3
    <3>4. ASSUME NEW f \in Key
          PROVE  /\ got'[f] # None => got'[f] \in seen'[f]
                 /\ got'[f] = None /\ f \notin reader'.lost /\ (\A m \in reader'.names : m[2] # f)
                       => None \in seen'[f]
      <4>1. CASE f # n[2]
        <5>1. got'[f] = got[f] /\ (f \notin reader'.lost => f \notin reader.lost)
          BY <2>2, <3>1, <3>2, <4>1
        <5>2. QED
          BY <2>1, <3>2, <4>1, <5>1 DEF ReaderInv
      <4>2. CASE f = n[2] /\ got[f] # None
        BY <2>1, <2>2, <3>1, <3>2, <4>2 DEF ReaderInv
      <4>3. CASE f = n[2] /\ got[f] = None /\ got' = [got EXCEPT ![f] = file[n]]
        BY <2>2, <3>3, <4>3
      <4>4. CASE f = n[2] /\ got[f] = None /\ UNCHANGED got /\ f \in reader'.lost
        BY <4>4
      <4>5. QED
        BY <2>2, <3>1, <4>1, <4>2, <4>3, <4>4 DEF ReaderType
    <3>5. \A m \in reader'.names : file'[m] = None => None \in seen'[m[2]]
      BY <2>1, <2>2, <2>5, <3>2 DEF ReaderInv, ReaderType
    <3>6. QED
      BY <2>1, <3>4, <3>5 DEF ReaderInv
  <2>6. QED
    BY <1>2, <2>3, <2>4, <2>5 DEF FileNext, ReaderStep, ReadEnd, Crash, Unread
<1>3. QED
  BY <1>1, <1>2

(* A snapshot of the directory gives each format a document it had since   *)
(* the directory was listed, or none if its own was lost to a failure.     *)
THEOREM ReadingIsOfItsTimeAlways == FileSpec => []ReadingIsOfItsTime
<1>1. FileInit => ReaderInv
  BY DEF FileInit, ReaderInv, Unread
<1>2. ReaderInv => ReadingIsOfItsTime
  BY DEF ReaderInv, ReadingIsOfItsTime
<1>3. QED
  BY <1>1, <1>2, ReaderInvKept, FileInvariant, PTL DEF FileSpec


----------------------------------------------------------------------------
(* The move of the answers directory.                                      *)

(* No two of the documents found flat belong in one place.                 *)
Distinct == \A d, e \in was.flat : d[1] = e[1] => d = e

(* The document d has been moved, and nothing else is to be moved there.   *)
Moved(d) == place[d[1]] = d /\ \A e \in moves : e[1] # d[1]

(* What was found in place lies where nothing is to be moved to.           *)
Untouched(d) == \E i \in Identity : place[i] = d /\ d # Vacant /\ \A e \in moves : e[1] # i

LayoutInv ==
    /\ LayoutTypeOK /\ moves \subseteq was.flat
    /\ Distinct => \A d \in was.flat : d \in flat \/ Moved(d)
    /\ \A d \in was.placed : Untouched(d)

LEMMA LayoutInvKept == LayoutInv /\ [LayoutNext]_layoutVars => LayoutInv'
<1> SUFFICES ASSUME LayoutInv, [LayoutNext]_layoutVars
             PROVE  LayoutInv'
  OBVIOUS
<1> USE LayoutAssumption
<1>0. /\ flat \subseteq FlatName /\ moves \subseteq flat
      /\ was \in [flat : SUBSET FlatName, placed : SUBSET (FlatName \cup {NewDocument})]
      /\ place \in [Identity -> FlatName \cup {Vacant, NewDocument}]
      /\ \A d \in FlatName : d[1] \in Identity
  BY DEF LayoutInv, LayoutTypeOK, FlatName
<1>1. CASE MigrateBegins
  <2>1. /\ was' = [flat |-> flat, placed |-> {place[i] : i \in Identity} \ {Vacant}]
        /\ flat' = flat /\ place' = place /\ moves' \subseteq flat
        /\ \A e \in moves' : place[e[1]] = Vacant
    BY <1>1 DEF MigrateBegins, Blocked
  <2>2. LayoutTypeOK'
    BY <1>0, <2>1 DEF LayoutTypeOK
  <2>3. \A d \in was'.placed : Untouched(d)'
    BY <2>1 DEF Untouched
  <2>4. QED
    BY <2>1, <2>2, <2>3 DEF LayoutInv
<1>2. CASE MoveOne
  <2>1. PICK d \in moves :
           /\ moves' = moves \ {d} /\ was' = was
           /\ \/ flat' = flat \ {d} /\ place' = [place EXCEPT ![d[1]] = d]
              \/ UNCHANGED <<flat, place>>
    BY <1>2 DEF MoveOne
  <2>2. d \in FlatName /\ d[1] \in Identity /\ d \in was.flat
    BY <1>0 DEF LayoutInv
  <2>3. \A i \in Identity : place'[i] = place[i] \/ (i = d[1] /\ place'[i] = d)
    BY <1>0, <2>1
  <2>4. LayoutTypeOK'
    BY <1>0, <2>1, <2>2 DEF LayoutTypeOK
  <2>5. ASSUME NEW e \in was'.placed
        PROVE  Untouched(e)'
    <3>1. PICK i \in Identity : place[i] = e /\ e # Vacant /\ \A f \in moves : f[1] # i
      BY <2>1 DEF LayoutInv, Untouched
    <3>2. place'[i] = e
      BY <2>3, <3>1
    <3>3. QED
      BY <2>1, <3>1, <3>2 DEF Untouched
  <2>6. ASSUME Distinct, NEW e \in was.flat
        PROVE  e \in flat' \/ Moved(e)'
    <3>1. e \in FlatName /\ e[1] \in Identity
      BY <1>0
    <3>2. CASE e \in flat /\ e # d
      BY <2>1, <3>2
    <3>3. CASE e = d
      <4>1. \A f \in moves' : f \in was.flat /\ f # d
        BY <2>1 DEF LayoutInv
      <4>2. \A f \in moves' : f[1] # d[1]
        BY <2>2, <2>6, <4>1 DEF Distinct
      <4>3. CASE flat' = flat \ {d} /\ place' = [place EXCEPT ![d[1]] = d]
        BY <1>0, <2>2, <3>3, <4>2, <4>3 DEF Moved
      <4>4. CASE UNCHANGED <<flat, place>>
        BY <1>0, <3>3, <4>4
      <4>5. QED
        BY <2>1, <4>3, <4>4
    <3>4. CASE Moved(e)
      <4>1. e[1] # d[1]
        BY <3>4 DEF Moved
      <4>2. place'[e[1]] = e
        BY <2>3, <3>1, <3>4, <4>1 DEF Moved
      <4>3. QED
        BY <2>1, <3>4, <4>2 DEF Moved
    <3>5. QED
      BY <2>6, <3>2, <3>3, <3>4 DEF LayoutInv
  <2>7. QED
    BY <2>1, <2>4, <2>5, <2>6 DEF LayoutInv, Distinct
<1>3. CASE MigrateKilled
  BY <1>0, <1>3 DEF MigrateKilled, LayoutInv, LayoutTypeOK, Distinct, Moved, Untouched
<1>4. CASE PutMeanwhile
  <2>1. PICK i \in Identity : place[i] = Vacant /\ place' = [place EXCEPT ![i] = NewDocument]
    BY <1>4 DEF PutMeanwhile
  <2>2. \A j \in Identity : place[j] # Vacant => place'[j] = place[j]
    BY <1>0, <2>1
  <2>3. UNCHANGED <<flat, moves, was>>
    BY <1>4 DEF PutMeanwhile
  <2>4. LayoutTypeOK'
    BY <1>0, <2>1, <2>3 DEF LayoutTypeOK
  <2>5. \A d \in was.placed : Untouched(d)'
    BY <2>2, <2>3 DEF LayoutInv, Untouched
  <2>6. ASSUME Distinct, NEW d \in was.flat, Moved(d)
        PROVE  Moved(d)'
    <3>1. d \in FlatName /\ d[1] \in Identity /\ d # Vacant
      BY <1>0 DEF FlatName
    <3>2. QED
      BY <2>2, <2>3, <2>6, <3>1 DEF Moved
  <2>7. QED
    BY <2>3, <2>4, <2>5, <2>6 DEF LayoutInv, Distinct
<1>5. CASE UNCHANGED layoutVars
  BY <1>5 DEF layoutVars, LayoutInv, LayoutTypeOK, Distinct, Moved, Untouched
<1>6. QED
  BY <1>1, <1>2, <1>3, <1>4, <1>5 DEF LayoutNext

(* Wherever `migrate` is stopped, and whatever is put meanwhile, what it   *)
(* found in place stays there, and what it found flat, if no two such      *)
(* belong in one place, is there still or moved.                           *)
THEOREM LayoutInvariant == LayoutSpec => []LayoutInv
<1>1. LayoutInit => LayoutInv
  BY DEF LayoutInit, LayoutInv, LayoutTypeOK, Distinct, Moved, Untouched
<1>2. QED
  BY <1>1, LayoutInvKept, PTL DEF LayoutSpec

(* "a half-finished run leaves both halves readable": the move loses no    *)
(* document, however often it is killed or fails and is run again.         *)
THEOREM MigrateKeepsDocumentsAlways == LayoutSpec => []MigrateKeepsDocuments
<1>1. LayoutInv => MigrateKeepsDocuments
  BY DEF LayoutInv, LayoutTypeOK, MigrateKeepsDocuments, Distinct, Moved, Untouched, FlatName
<1>2. QED
  BY <1>1, LayoutInvariant, PTL

----------------------------------------------------------------------------
(* Fetching an image.                                                      *)

(* What is known of a command by where it is.                              *)
LEMMA FetcherTyped ==
    ASSUME FetchTypeOK, NEW f \in Fetcher
    PROVE  /\ fetcher[f].at \in {"idle", "start", "run", "measure", "verify", "publish", "record"}
           /\ fetcher[f].at = "idle" <=> fetcher[f] = Resting
           /\ fetcher[f] # Resting =>
                 /\ fetcher[f].source \in {Wanted, Other} /\ fetcher[f].expected \in BOOLEAN
                 /\ fetcher[f].next \in Nat
                 /\ fetcher[f].at # "start" => fetcher[f].next \in Nat \ {0}
                 /\ fetcher[f] = [at |-> fetcher[f].at, source |-> fetcher[f].source,
                                  expected |-> fetcher[f].expected, next |-> fetcher[f].next]
<1>1. fetcher[f] \in {Resting} \cup Fetching
  BY DEF FetchTypeOK
<1>2. QED
  BY <1>1 DEF Fetching, Resting

(* A command that goes on to another of its steps.                         *)
LEMMA FetcherMoves ==
    ASSUME FetchTypeOK, NEW f \in Fetcher, fetcher[f].at \notin {"idle", "start"},
           NEW a \in {"run", "measure", "verify", "publish", "record"},
           Moves(f, a)
    PROVE  /\ fetcher' \in [Fetcher -> {Resting} \cup Fetching]
           /\ fetcher' = [fetcher EXCEPT ![f] =
                 [at |-> a, source |-> fetcher[f].source,
                  expected |-> fetcher[f].expected, next |-> fetcher[f].next]]
<1>1. PICK r : r = fetcher[f]
  OBVIOUS
<1>2. /\ r = [at |-> r.at, source |-> r.source, expected |-> r.expected, next |-> r.next]
      /\ r.source \in {Wanted, Other} /\ r.expected \in BOOLEAN /\ r.next \in Nat \ {0}
  BY <1>1, FetcherTyped DEF Resting
<1>3. [r EXCEPT !.at = a] = [at |-> a, source |-> r.source, expected |-> r.expected, next |-> r.next]
  BY <1>2
<1>4. fetcher' = [fetcher EXCEPT ![f] = [r EXCEPT !.at = a]]
  BY <1>1 DEF Moves
<1>5. [at |-> a, source |-> r.source, expected |-> r.expected, next |-> r.next] \in Fetching
  BY <1>2 DEF Fetching
<1>6. QED
  BY <1>1, <1>3, <1>4, <1>5 DEF FetchTypeOK

(* A file that has been written to is one, and is there.                   *)
LEMMA Appended ==
    ASSUME NEW file0 \in Files, file0 # Absent, NEW source \in {Wanted, Other},
           NEW n \in 1..Units
    PROVE  Append(file0, <<source, n>>) \in Files /\ Append(file0, <<source, n>>) # Absent
<1> USE FetchAssumption
<1>1. file0 \in Seq({Wanted, Other} \X (1..Units))
  BY DEF Files
<1>2. <<source, n>> \in {Wanted, Other} \X (1..Units)
  OBVIOUS
<1>3. Append(file0, <<source, n>>) \in Seq({Wanted, Other} \X (1..Units))
  BY <1>1, <1>2
<1>4. Append(file0, <<source, n>>)[Len(file0) + 1] = <<source, n>> /\ Len(file0) \in Nat
      /\ Len(Append(file0, <<source, n>>)) = Len(file0) + 1
  BY <1>1, <1>2
<1>5. ASSUME Append(file0, <<source, n>>) = Absent
      PROVE  FALSE
  <2>1. Len(Absent) = 1 /\ Absent[1] = <<"none", 0>>
    BY DEF Absent
  <2>2. <<source, n>> = <<"none", 0>>
    BY <1>4, <1>5, <2>1
  <2>3. QED
    BY <2>2
<1>6. QED
  BY <1>3, <1>5 DEF Files

(* While commands never ran at once: at most one is under way; nothing is  *)
(* published until it is; what is about to be published against a digest   *)
(* has it; and what is recorded is what is published.                      *)
FetchInv ==
    /\ FetchTypeOK
    /\ ~shared =>
          /\ \A f, g \in Fetcher : fetcher[f] # Resting /\ fetcher[g] # Resting => f = g
          /\ \A f \in Fetcher :
                /\ fd[f] # "image"
                /\ fetcher[f].at \in {"start", "run", "measure", "verify", "publish"}
                      => image = Absent
                /\ fetcher[f].at = "publish" /\ fetcher[f].expected
                      => part \in {Absent, Whole(Wanted)}
          /\ image = Absent => sidecar = Absent
          /\ sidecar \in {Absent, image}
          /\ checked => image \in {Absent, Whole(Wanted)}

LEMMA FetchStarts == FetchInit => FetchInv
<1> SUFFICES ASSUME FetchInit
             PROVE  FetchInv
  OBVIOUS
<1>1. Absent \in Files /\ Resting.at = "idle"
  BY DEF Files, Resting
<1>2. FetchTypeOK
  <2>1. fetcher \in [Fetcher -> {Resting} \cup Fetching]
        /\ \A f \in Fetcher : fd[f] = "none" /\ fetcher[f].at = "idle"
    BY <1>1 DEF FetchInit
  <2>2. fetches \in 0..MaxFetches
    BY FetchAssumption DEF FetchInit
  <2>3. QED
    BY <1>1, <2>1, <2>2 DEF FetchInit, FetchTypeOK
<1>3. \A f \in Fetcher : fetcher[f] = Resting /\ fd[f] = "none"
  BY DEF FetchInit
<1>4. QED
  BY <1>1, <1>2, <1>3 DEF FetchInit, FetchInv

LEMMA FetchTypeKept == FetchTypeOK /\ [FetchNext]_fetchVars => FetchTypeOK'
<1> SUFFICES ASSUME FetchTypeOK, [FetchNext]_fetchVars
             PROVE  FetchTypeOK'
  OBVIOUS
<1> USE FetchAssumption
<1>1. CASE UNCHANGED fetchVars
  BY <1>1 DEF fetchVars, FetchTypeOK
<1>2. Absent \in Files
  BY DEF Files
<1>3. CASE Clears
  BY <1>2, <1>3 DEF Clears, Elsewhere, FetchTypeOK
<1>4. ASSUME NEW f \in Fetcher, Begin(f)
      PROVE  FetchTypeOK'
  <2>1. PICK source \in {Wanted, Other}, expected \in BOOLEAN :
           fetcher' = [fetcher EXCEPT ![f] =
              [at |-> "start", source |-> source, expected |-> expected, next |-> 0]]
    BY <1>4 DEF Begin
  <2>2. [at |-> "start", source |-> source, expected |-> expected, next |-> 0] \in Fetching
    BY DEF Fetching
  <2>3. fetcher' \in [Fetcher -> {Resting} \cup Fetching]
    BY <2>1, <2>2 DEF FetchTypeOK
  <2>4. \A g \in Fetcher : fd[g] # "none" <=> fetcher'[g].at = "run"
    BY <1>4, <2>1 DEF FetchTypeOK, Begin, Resting
  <2>5. QED
    BY <1>4, <2>3, <2>4 DEF FetchTypeOK, Begin
<1>5. ASSUME NEW f \in Fetcher, StartTool(f)
      PROVE  FetchTypeOK'
  <2>1. part' \in Files /\ part' # Absent /\ Len(part') + 1 \in Nat \ {0}
    <3>1. part' \in Seq({Wanted, Other} \X (1..Units)) /\ part' # Absent
      <4>1. CASE part = Absent
        <5>1. part' = <<>> /\ Len(Absent) = 1
          BY <1>5, <4>1 DEF StartTool, Absent
        <5>2. QED
          BY <5>1
      <4>2. CASE part # Absent
        BY <1>5, <4>2 DEF StartTool, FetchTypeOK, Files
      <4>3. QED
        BY <4>1, <4>2
    <3>2. QED
      BY <3>1 DEF Files
  <2>2. fetcher[f].at = "start"
        /\ fetcher' = [fetcher EXCEPT ![f].at = "run", ![f].next = Len(part') + 1]
    BY <1>5 DEF StartTool
  <2>3. PICK r : r = fetcher[f]
    OBVIOUS
  <2>4. r = [at |-> r.at, source |-> r.source, expected |-> r.expected, next |-> r.next]
        /\ r.source \in {Wanted, Other} /\ r.expected \in BOOLEAN
    BY <2>2, <2>3, FetcherTyped
  <2>5. PICK s : s = [r EXCEPT !.at = "run"]
    OBVIOUS
  <2>6. s = [at |-> "run", source |-> r.source, expected |-> r.expected, next |-> r.next]
    BY <2>4, <2>5
  <2>7. PICK t : t = [s EXCEPT !.next = Len(part') + 1]
    OBVIOUS
  <2>8. t = [at |-> "run", source |-> r.source, expected |-> r.expected, next |-> Len(part') + 1]
    BY <2>6, <2>7
  <2>9. fetcher' = [fetcher EXCEPT ![f] = t]
    BY <2>2, <2>3, <2>5, <2>7 DEF FetchTypeOK
  <2>10. t \in Fetching /\ t.at = "run"
    BY <2>1, <2>4, <2>8 DEF Fetching
  <2>11. QED
    BY ZenonT(60), <1>5, <2>1, <2>9, <2>10 DEF StartTool, FetchTypeOK
<1>6. ASSUME NEW f \in Fetcher, Receive(f)
      PROVE  FetchTypeOK'
  <2>1. /\ fetcher[f].at = "run" /\ fetcher[f].source \in {Wanted, Other}
        /\ fetcher[f].next \in 1..Units
    <3>1. fetcher[f].at = "run" /\ fetcher[f].next <= Units
      BY <1>6 DEF Receive
    <3>2. fetcher[f] # Resting
      BY <3>1 DEF Resting
    <3>3. fetcher[f].source \in {Wanted, Other} /\ fetcher[f].next \in Nat \ {0}
      BY <3>1, <3>2, FetcherTyped
    <3>4. QED
      BY <3>1, <3>3
  <2>2. part' \in Files /\ image' \in Files /\ (part # Absent => part' # Absent)
        /\ (image # Absent => image' # Absent)
    BY <1>6, <2>1, Appended DEF Receive, FetchTypeOK
  <2>3. PICK r : r = fetcher[f]
    OBVIOUS
  <2>4. r = [at |-> "run", source |-> r.source, expected |-> r.expected, next |-> r.next]
        /\ r.source \in {Wanted, Other} /\ r.expected \in BOOLEAN /\ r.next \in Nat
    BY <2>1, <2>3, FetcherTyped DEF Resting
  <2>5. PICK t : t = [r EXCEPT !.next = r.next + 1]
    OBVIOUS
  <2>6. t = [at |-> "run", source |-> r.source, expected |-> r.expected, next |-> r.next + 1]
    BY <2>4, <2>5
  <2>7. fetcher' = [fetcher EXCEPT ![f] = t]
    BY <1>6, <2>3, <2>5 DEF Receive
  <2>8. t \in Fetching /\ t.at = "run"
    BY <2>4, <2>6 DEF Fetching
  <2>9. QED
    BY <1>6, <2>1, <2>2, <2>7, <2>8 DEF Receive, FetchTypeOK
<1>7. ASSUME NEW f \in Fetcher, ToolEnds(f) \/ ToolEndsEmpty(f)
      PROVE  FetchTypeOK'
  <2>1. fetcher[f].at = "run" /\ Closes(f) /\ (Moves(f, "measure") \/ Stops(f))
        /\ UNCHANGED <<part, image, sidecar, fetches, checked, shared>>
    BY <1>7 DEF ToolEnds, ToolEndsEmpty
  <2>2. CASE Moves(f, "measure")
    BY <2>1, <2>2, FetcherMoves DEF FetchTypeOK, Closes
  <2>3. CASE Stops(f)
    BY <2>1, <2>3 DEF FetchTypeOK, Closes, Stops, Resting
  <2>4. QED
    BY <2>1, <2>2, <2>3
<1>8. ASSUME NEW f \in Fetcher, fetcher[f].at \notin {"idle", "start", "run"},
             UNCHANGED <<image, sidecar, fetches, checked, shared>>,
             \/ part' = Absent /\ Elsewhere("part", "gone") /\ Stops(f)
             \/ /\ UNCHANGED <<part, fd>>
                /\ Stops(f) \/ \E a \in {"verify", "publish"} : Moves(f, a)
      PROVE  FetchTypeOK'
  <2>1. fd[f] = "none"
    BY <1>8 DEF FetchTypeOK
  <2>2. CASE part' = Absent /\ Elsewhere("part", "gone") /\ Stops(f)
    BY <1>2, <1>8, <2>1, <2>2 DEF Elsewhere, FetchTypeOK, Stops, Resting
  <2>3. CASE UNCHANGED <<part, fd>> /\ Stops(f)
    BY <1>8, <2>1, <2>3 DEF FetchTypeOK, Stops, Resting
  <2>4. ASSUME UNCHANGED <<part, fd>>, NEW a \in {"verify", "publish"}, Moves(f, a)
        PROVE  FetchTypeOK'
    BY <1>8, <2>1, <2>4, FetcherMoves DEF FetchTypeOK
  <2>5. QED
    BY <1>8, <2>2, <2>3, <2>4
<1>9. ASSUME NEW f \in Fetcher, Measure(f) \/ Verify(f)
      PROVE  FetchTypeOK'
  BY <1>8, <1>9 DEF Measure, Verify
<1>10. ASSUME NEW f \in Fetcher, Publish(f)
      PROVE  FetchTypeOK'
  <2>1. fetcher[f].at = "publish" /\ UNCHANGED <<sidecar, fetches, shared>>
    BY <1>10 DEF Publish
  <2>2. CASE part = Absent
    BY <1>8, <1>10, <2>1, <2>2 DEF Publish
  <2>3. CASE part # Absent
    <3>1. /\ image' = part /\ part' = Absent /\ checked' = fetcher[f].expected /\ Moves(f, "record")
          /\ fd' = [g \in Fetcher |-> IF fd[g] = "image" THEN "gone"
                                      ELSE IF fd[g] = "part" THEN "image" ELSE fd[g]]
      BY <1>10, <2>3 DEF Publish
    <3>2. fetcher[f].expected \in BOOLEAN
      BY <2>1, FetcherTyped DEF Resting
    <3>3. \A g \in Fetcher : fd'[g] # "part" /\ (fd'[g] = "none" <=> fd[g] = "none")
      BY <3>1 DEF FetchTypeOK
    <3>4. QED
      BY <1>2, <2>1, <2>3, <3>1, <3>2, <3>3, FetcherMoves DEF FetchTypeOK
  <2>4. QED
    BY <2>2, <2>3
<1>11. ASSUME NEW f \in Fetcher, Record(f)
      PROVE  FetchTypeOK'
  BY <1>11 DEF FetchTypeOK, Record, Stops, Resting
<1>12. ASSUME NEW f \in Fetcher, Killed(f)
      PROVE  FetchTypeOK'
  BY <1>12 DEF FetchTypeOK, Killed, Stops, Closes, Resting
<1>13. QED
  BY <1>1, <1>3, <1>4, <1>5, <1>6, <1>7, <1>9, <1>10, <1>11, <1>12 DEF FetchNext

LEMMA FetchInvKept == FetchInv /\ [FetchNext]_fetchVars => FetchInv'
<1> SUFFICES ASSUME FetchInv, [FetchNext]_fetchVars
             PROVE  FetchInv'
  OBVIOUS
<1>0. FetchTypeOK /\ FetchTypeOK'
  BY FetchTypeKept DEF FetchInv
<1>1. CASE UNCHANGED fetchVars
  BY <1>0, <1>1 DEF fetchVars, FetchInv
<1>2. CASE shared'
  BY <1>0, <1>2 DEF FetchInv
<1>3. ASSUME ~shared', NEW f \in Fetcher,
             UNCHANGED <<part, image, sidecar, checked, shared>>, fetcher[f] # Resting,
             fetcher' = [fetcher EXCEPT ![f] = Resting],
             \A g \in Fetcher : fd'[g] = "image" => fd[g] = "image"
      PROVE  FetchInv'
  <2>1. \A g \in Fetcher : fetcher'[g] # Resting => fetcher'[g] = fetcher[g] /\ g # f
    BY <1>0, <1>3 DEF FetchTypeOK
  <2>2. \A g \in Fetcher : fetcher'[g] = Resting
    BY <1>3, <2>1 DEF FetchInv
  <2>3. QED
    BY <1>0, <1>3, <2>2 DEF FetchInv, Resting
<1>4. ASSUME ~shared', ~shared, NEW f \in Fetcher, fetcher[f] # Resting
      PROVE  /\ \A g \in Fetcher \ {f} : fetcher[g] = Resting /\ fd[g] = "none"
             /\ fd[f] # "image"
             /\ fetcher[f].at \in {"start", "run", "measure", "verify", "publish"}
                   => image = Absent
             /\ image = Absent => sidecar = Absent
             /\ sidecar \in {Absent, image}
             /\ checked => image \in {Absent, Whole(Wanted)}
  <2>1. \A g \in Fetcher \ {f} : fetcher[g] = Resting
    BY <1>4 DEF FetchInv
  <2>2. \A g \in Fetcher \ {f} : fetcher[g].at # "run"
    BY <2>1 DEF Resting
  <2>3. QED
    BY <1>0, <1>4, <2>1, <2>2 DEF FetchInv, FetchTypeOK
(* The one command under way goes on.                                      *)
<1>5. ASSUME ~shared', ~shared, NEW f \in Fetcher, fetcher[f] # Resting,
             NEW r \in Fetching, fetcher' = [fetcher EXCEPT ![f] = r],
             \A g \in Fetcher : fd'[g] # "image",
             UNCHANGED <<image, sidecar, checked>>,
             r.at # "record" => image = Absent,
             r.at = "publish" /\ r.expected => part' \in {Absent, Whole(Wanted)}
      PROVE  FetchInv'
  <2>1. \A g \in Fetcher : fetcher'[g] = IF g = f THEN r ELSE Resting
    BY <1>0, <1>4, <1>5 DEF FetchTypeOK
  <2>2. QED
    BY <1>0, <1>4, <1>5, <2>1 DEF FetchInv, Resting
<1>6. ASSUME ~shared', NEW f \in Fetcher, Begin(f)
      PROVE  FetchInv'
  <2>1. ~shared /\ \A g \in Fetcher : fetcher[g] = Resting
    BY <1>0, <1>6 DEF Begin, FetchTypeOK
  <2>2. PICK source \in {Wanted, Other}, expected \in BOOLEAN :
           fetcher' = [fetcher EXCEPT ![f] =
              [at |-> "start", source |-> source, expected |-> expected, next |-> 0]]
    BY <1>6 DEF Begin
  <2>3. \A g \in Fetcher : IF g = f THEN fetcher'[g] =
              [at |-> "start", source |-> source, expected |-> expected, next |-> 0]
              ELSE fetcher'[g] = Resting
    BY <1>0, <2>1, <2>2 DEF FetchTypeOK
  <2>4. image = Absent /\ UNCHANGED <<part, image, sidecar, fd, checked>>
    BY <1>6 DEF Begin
  <2>5. QED
    BY <1>0, <2>1, <2>3, <2>4 DEF FetchInv, Resting
<1>7. ASSUME ~shared', NEW f \in Fetcher, StartTool(f)
      PROVE  FetchInv'
  <2>1. /\ ~shared /\ fetcher[f].at = "start" /\ fetcher[f] # Resting
        /\ UNCHANGED <<image, sidecar, checked>>
    BY <1>7 DEF StartTool, Resting
  <2>2. \A g \in Fetcher : fd'[g] # "image"
    BY <1>0, <1>4, <1>7, <2>1 DEF StartTool, FetchTypeOK
  <2>3. fetcher'[f] \in Fetching /\ fetcher'[f].at = "run"
        /\ fetcher' = [fetcher EXCEPT ![f] = fetcher'[f]]
    <3>1. fetcher'[f] \in {Resting} \cup Fetching
      BY <1>0 DEF FetchTypeOK
    <3>2. fd'[f] = "part"
      BY <1>0, <1>7 DEF StartTool, FetchTypeOK
    <3>3. fetcher'[f].at = "run"
      BY <1>0, <3>2 DEF FetchTypeOK
    <3>4. fetcher'[f] # Resting
      BY <3>3 DEF Resting
    <3>5. \A g \in Fetcher \ {f} : fetcher'[g] = fetcher[g]
      BY <1>0, <1>7 DEF StartTool, FetchTypeOK
    <3>6. QED
      BY <1>0, <3>1, <3>3, <3>4, <3>5 DEF FetchTypeOK
  <2>4. PICK r \in Fetching : r = fetcher'[f]
    BY <2>3
  <2>5. image = Absent
    BY <1>4, <1>7, <2>1
  <2>6. QED
    BY <1>5, <1>7, <2>1, <2>2, <2>3, <2>4, <2>5
<1>8. ASSUME ~shared', NEW f \in Fetcher, Receive(f)
      PROVE  FetchInv'
  <2>1. /\ ~shared /\ fetcher[f].at = "run" /\ fetcher[f] # Resting
        /\ UNCHANGED <<sidecar, fd, checked>>
    BY <1>8 DEF Receive, Resting
  <2>2. \A g \in Fetcher : fd'[g] # "image"
    BY <1>4, <1>8, <2>1 DEF FetchInv
  <2>3. UNCHANGED image /\ image = Absent
    BY <1>4, <1>8, <2>1 DEF Receive
  <2>4. fetcher'[f] \in Fetching /\ fetcher'[f].at = "run"
        /\ fetcher' = [fetcher EXCEPT ![f] = fetcher'[f]]
    <3>1. fetcher'[f] \in {Resting} \cup Fetching
      BY <1>0 DEF FetchTypeOK
    <3>2. fd'[f] # "none"
      BY <1>0, <2>1 DEF FetchTypeOK
    <3>3. fetcher'[f].at = "run"
      BY <1>0, <3>2 DEF FetchTypeOK
    <3>4. fetcher'[f] # Resting
      BY <3>3 DEF Resting
    <3>5. \A g \in Fetcher \ {f} : fetcher'[g] = fetcher[g]
      BY <1>0, <1>8 DEF Receive, FetchTypeOK
    <3>6. QED
      BY <1>0, <3>1, <3>3, <3>4, <3>5 DEF FetchTypeOK
  <2>5. PICK r \in Fetching : r = fetcher'[f]
    BY <2>4
  <2>6. QED
    BY <1>5, <1>8, <2>1, <2>2, <2>3, <2>4, <2>5
<1>9. ASSUME ~shared', NEW f \in Fetcher, NEW a \in {"measure", "verify", "publish"},
             Moves(f, a), fetcher[f].at \in {"run", "measure", "verify"},
             UNCHANGED <<part, image, sidecar, checked, shared>>,
             a = "publish" /\ fetcher[f].expected => part \in {Absent, Whole(Wanted)},
             \A g \in Fetcher : fd'[g] = "image" => fd[g] = "image"
      PROVE  FetchInv'
  <2>1. ~shared /\ fetcher[f] # Resting
    BY <1>9 DEF Resting
  <2>2. \A g \in Fetcher : fd'[g] # "image"
    BY <1>9, <2>1 DEF FetchInv
  <2> DEFINE r == [at |-> a, source |-> fetcher[f].source,
                   expected |-> fetcher[f].expected, next |-> fetcher[f].next]
  <2>3. fetcher' = [fetcher EXCEPT ![f] = r] /\ r \in {Resting} \cup Fetching
    <3>1. fetcher' = [fetcher EXCEPT ![f] = r]
      BY <1>0, <1>9, FetcherMoves
    <3>2. fetcher'[f] = r
      BY <1>0, <3>1 DEF FetchTypeOK
    <3>3. QED
      BY <1>0, <3>1, <3>2 DEF FetchTypeOK
  <2>4. r \in Fetching
    BY <2>3 DEF Resting
  <2>5. image = Absent
    BY <1>4, <1>9, <2>1
  <2>6. r.at = a /\ r.expected = fetcher[f].expected
    OBVIOUS
  <2> HIDE DEF r
  <2>7. QED
    BY <1>5, <1>9, <2>1, <2>2, <2>3, <2>4, <2>5, <2>6
<1>10. ASSUME ~shared', NEW f \in Fetcher, fetcher[f] # Resting, Stops(f),
              part' = Absent, Elsewhere("part", "gone"),
              UNCHANGED <<image, sidecar, checked, shared>>
       PROVE  FetchInv'
  <2>1. \A g \in Fetcher : fetcher'[g] = Resting
    BY <1>0, <1>4, <1>10 DEF Stops, FetchTypeOK
  <2>2. \A g \in Fetcher : fd'[g] # "image"
    BY <1>0, <1>10 DEF FetchInv, Elsewhere
  <2>3. QED
    BY <1>0, <1>10, <2>1, <2>2 DEF FetchInv, Resting
<1>11. ASSUME ~shared', NEW f \in Fetcher, ToolEnds(f) \/ ToolEndsEmpty(f)
       PROVE  FetchInv'
  BY <1>0, <1>3, <1>9, <1>11 DEF ToolEnds, ToolEndsEmpty, Closes, Stops, Resting, FetchTypeOK
<1>12. ASSUME ~shared', NEW f \in Fetcher, Measure(f)
       PROVE  FetchInv'
  BY <1>9, <1>10, <1>12 DEF Measure, Resting
<1>13. ASSUME ~shared', NEW f \in Fetcher, Verify(f)
       PROVE  FetchInv'
  BY <1>9, <1>10, <1>13 DEF Verify, Resting
<1>14. ASSUME ~shared', NEW f \in Fetcher, Publish(f)
       PROVE  FetchInv'
  <2>1. ~shared /\ fetcher[f].at = "publish" /\ fetcher[f] # Resting
    BY <1>14 DEF Publish, Resting
  <2>2. CASE part = Absent
    BY <1>3, <1>14, <2>1, <2>2 DEF Publish, Stops
  <2>3. CASE part # Absent
    <3>1. /\ image' = part /\ checked' = fetcher[f].expected /\ Moves(f, "record")
          /\ UNCHANGED <<sidecar, shared>>
          /\ fd' = [g \in Fetcher |-> IF fd[g] = "image" THEN "gone"
                                      ELSE IF fd[g] = "part" THEN "image" ELSE fd[g]]
      BY <1>14, <2>3 DEF Publish
    <3>2. \A g \in Fetcher : fd[g] = "none"
      BY <1>0, <1>4, <1>14, <2>1 DEF FetchTypeOK
    <3>3. \A g \in Fetcher : fd'[g] = "none"
      BY <3>1, <3>2
    <3>4. sidecar' = Absent
      BY <1>4, <1>14, <2>1, <3>1
    <3>5. checked' => image' = Whole(Wanted)
      BY <2>1, <2>3, <3>1 DEF FetchInv
    <3>6. \A g \in Fetcher : IF g = f THEN fetcher'[g].at = "record" ELSE fetcher'[g] = Resting
      BY <1>0, <1>4, <1>14, <2>1, <3>1, FetcherMoves DEF FetchTypeOK
    <3>7. QED
      BY <1>0, <2>3, <3>1, <3>3, <3>4, <3>5, <3>6 DEF FetchInv, Resting
  <2>4. QED
    BY <2>2, <2>3
<1>15. ASSUME ~shared', NEW f \in Fetcher, Record(f)
       PROVE  FetchInv'
  <2>1. ~shared /\ fetcher[f] # Resting /\ UNCHANGED <<part, image, fd, checked, shared>>
    BY <1>15 DEF Record, Resting
  <2>2. \A g \in Fetcher : fetcher'[g] = Resting
    BY <1>0, <1>4, <1>15, <2>1 DEF Record, Stops, FetchTypeOK
  <2>3. sidecar' \in {sidecar, image} /\ (image = Absent => sidecar' = sidecar)
    BY <1>15 DEF Record
  <2>4. QED
    BY <1>0, <1>15, <2>1, <2>2, <2>3 DEF FetchInv, Resting
<1>16. ASSUME ~shared', NEW f \in Fetcher, Killed(f)
       PROVE  FetchInv'
  BY <1>0, <1>3, <1>16 DEF Killed, Stops, Closes, FetchTypeOK
<1>17. CASE ~shared' /\ Clears
  <2>1. ~shared /\ UNCHANGED <<fetcher, checked, shared>> /\ part' \in {part, Absent}
    BY <1>17 DEF Clears
  <2>2. \A g \in Fetcher : fd'[g] # "image"
    BY <2>1, <1>17 DEF Clears, Elsewhere, FetchInv
  <2>3. UNCHANGED <<image, sidecar>> \/ (image' = Absent /\ sidecar' = Absent)
    BY <1>17 DEF Clears
  <2>4. QED
    BY <1>0, <2>1, <2>2, <2>3 DEF FetchInv
<1>18. QED
  BY <1>1, <1>2, <1>6, <1>7, <1>8, <1>11, <1>12, <1>13, <1>14, <1>15, <1>16, <1>17 DEF FetchNext

(* While the commands have the directory in turn, one at most is at work,  *)
(* and what it publishes is what it has measured and verified.             *)
THEOREM FetchInvariant == FetchSpec => []FetchInv
BY FetchStarts, FetchInvKept, PTL DEF FetchSpec

(* "A partial download must never become a catalogue entry": an image      *)
(* fetched alone against a digest is the file of that digest, whatever was *)
(* left on its partial file, and so is the one recorded.                   *)
THEOREM PublishedIsVerifiedAlways == FetchSpec => []PublishedIsVerified
<1>1. FetchInv => PublishedIsVerified
  BY DEF FetchInv, PublishedIsVerified
<1>2. QED
  BY <1>1, FetchInvariant, PTL

----------------------------------------------------------------------------
(* The catalogue, and a download.                                          *)

(* What a build puts into the catalogue.                                   *)
LEMMA EntryTyped ==
    ASSUME img \in [Id -> Version \cup {Nil}], side \in [Id -> Sidecars \cup {Nil}], NEW i \in Id
    PROVE  Entry(i) \in Entries \cup {Nil}
<1>1. ASSUME NEW j \in Id, img[j] # Nil
      PROVE  /\ SizeOf(img[j]) \in {SizeOf(v) : v \in Version}
             /\ Plain(j) = [path |-> j, size |-> SizeOf(img[j]), url |-> Nil,
                            digest |-> IF side[j] = Nil THEN Nil ELSE side[j].digest]
             /\ Plain(j) \in Entries
  <2>1. img[j] \in Version
    BY <1>1
  <2>2. (IF side[j] = Nil THEN Nil ELSE side[j].digest) \in Version \cup {Nil}
    BY DEF Sidecars
  <2>3. QED
    BY <2>1, <2>2 DEF Plain, Entries
<1>2. CASE img[i] # Nil
  BY <1>1, <1>2 DEF Entry
<1>3. ASSUME side[i] # Nil, side[i].source # Nil, side[i].url # Nil, img[side[i].source] # Nil
      PROVE  [Plain(side[i].source) EXCEPT !.digest = Nil, !.url = side[i].url] \in Entries
  <2>1. side[i].source \in Id /\ side[i].url \in Url
    BY <1>3 DEF Sidecars
  <2>2. PICK j \in Id : j = side[i].source
    BY <2>1
  <2>3. PICK u \in Url : u = side[i].url
    BY <2>1
  <2>4. PICK e : e = Plain(j)
    OBVIOUS
  <2>5. e = [path |-> e.path, size |-> e.size, url |-> e.url, digest |-> e.digest]
        /\ e.path \in Id /\ e.size \in {SizeOf(v) : v \in Version}
    BY <1>1, <1>3, <2>2, <2>4 DEF Entries
  <2>6. PICK d : d = [e EXCEPT !.digest = Nil]
    OBVIOUS
  <2>7. d = [path |-> e.path, size |-> e.size, url |-> e.url, digest |-> Nil]
    BY <2>5, <2>6
  <2>8. [d EXCEPT !.url = u] = [path |-> e.path, size |-> e.size, url |-> u, digest |-> Nil]
    BY <2>7
  <2>9. [d EXCEPT !.url = u] \in Entries
    BY <2>5, <2>8 DEF Entries
  <2>10. QED
    BY <2>2, <2>3, <2>4, <2>6, <2>9
<1>4. QED
  BY <1>2, <1>3 DEF Entry, Prepared

(* The age of the cached listing bounds how long it has been wrong; and an *)
(* image that was not replaced while an answer was being made is the one   *)
(* whose validator the answer has, whatever of it was there before.        *)
OfOneImage ==
    ~raced /\ ~tag.pinned =>
        /\ client.at = "open" => tag.mtime = img[client.entry.path]
        /\ client.at = "stream" => tag.mtime = reading
        /\ \A j \in 1..Len(have) : have[j][1] = tag.mtime

MediaInv ==
    /\ MediaTypeOK
    /\ cache # Nil => behind <= cache.age
    /\ ListingIsRecent
    /\ OfOneImage

LEMMA ListedTyped ==
    ASSUME MediaInv, Listed
    PROVE  /\ cache' \in [version : Nat, age : 0..Backstop, entries : [Id -> Entries \cup {Nil}]] \cup {Nil}
           /\ behind' \in 0..(Backstop - 1) /\ (cache' # Nil => behind' <= cache'.age)
           /\ Listing \in [Id -> Entries \cup {Nil}]
<1> USE CatalogAssumption
<1>1. Build \in [Id -> Entries \cup {Nil}]
  BY EntryTyped DEF Build, MediaInv, MediaTypeOK
<1>2. /\ cache \in [version : Nat, age : 0..Backstop, entries : [Id -> Entries \cup {Nil}]] \cup {Nil}
      /\ moved \in Nat /\ behind \in 0..Backstop /\ (cache # Nil => behind <= cache.age)
  BY DEF MediaInv, MediaTypeOK
<1>3. CASE Fresh
  BY <1>2, <1>3 DEF Listed, Listing, Fresh
<1>4. CASE ~Fresh
  BY <1>1, <1>2, <1>4 DEF Listed, Listing
<1>5. QED
  BY <1>3, <1>4

(* A client that goes on with the request it is in.                        *)
LEMMA ClientTyped ==
    ASSUME MediaTypeOK
    PROVE  /\ client.at \in {"idle", "send", "open", "stream", "complete"}
           /\ client.at = "idle" => client = Asleep
           /\ client.at # "idle" =>
                 /\ client.entry \in Entries /\ client.total \in Nat /\ client.entry.path \in Id
                 /\ \A a \in {"open", "stream", "complete"} :
                       /\ [client EXCEPT !.at = a] \in Requests
                       /\ [client EXCEPT !.at = a] = [at |-> a, entry |-> client.entry,
                              lag |-> client.lag, total |-> client.total]
<1>1. client \in Requests
  BY DEF MediaTypeOK
<1>2. client.at \in {"idle", "send", "open", "stream", "complete"} /\ (client.at = "idle" => client = Asleep)
  BY <1>1 DEF Requests, Asleep
<1>3. ASSUME client.at # "idle"
      PROVE  /\ client = [at |-> client.at, entry |-> client.entry, lag |-> client.lag,
                          total |-> client.total]
             /\ client.entry \in Entries /\ client.total \in Nat /\ client.lag \in 0..Backstop
  BY <1>1, <1>3 DEF Requests, Asleep
<1>4. ASSUME client.at # "idle", NEW a \in {"open", "stream", "complete"}
      PROVE  /\ [client EXCEPT !.at = a] \in Requests
             /\ [client EXCEPT !.at = a] = [at |-> a, entry |-> client.entry,
                    lag |-> client.lag, total |-> client.total]
  <2>1. [client EXCEPT !.at = a] = [at |-> a, entry |-> client.entry,
                    lag |-> client.lag, total |-> client.total]
    BY <1>3, <1>4
  <2>2. QED
    BY <1>3, <1>4, <2>1 DEF Requests
<1>5. ASSUME client.at # "idle"
      PROVE  client.entry.path \in Id
  BY <1>3, <1>5 DEF Entries
<1>6. QED
  BY <1>2, <1>3, <1>4, <1>5

LEMMA MediaStarts == MediaInit => MediaInv
<1> SUFFICES ASSUME MediaInit
             PROVE  MediaInv
  OBVIOUS
<1> USE CatalogAssumption, MediaAssumption
<1>1. client = Asleep /\ Asleep \in Requests /\ Asleep.at = "idle"
  BY DEF MediaInit, Asleep, Requests
<1>2. MediaTypeOK
  <2>1. side \in [Id -> Sidecars \cup {Nil}] /\ img \in [Id -> Version \cup {Nil}]
    BY DEF MediaInit, CatalogInit
  <2>2. moved \in 0..changes /\ changes \in 0..MaxChanges /\ behind \in 0..Backstop
        /\ requests \in 0..MaxRequests
    BY DEF MediaInit, CatalogInit
  <2>3. have \in Seq((Version \cup {Nil}) \X (Url \cup {Nil}))
    BY DEF MediaInit
  <2>4. QED
    BY <1>1, <2>1, <2>2, <2>3 DEF MediaInit, CatalogInit, MediaTypeOK
<1>3. QED
  BY <1>1, <1>2 DEF MediaInit, CatalogInit, MediaInv, ListingIsRecent, OfOneImage

(* A change of the directory is one a listing may show.                    *)
LEMMA ChangesTyped ==
    ASSUME MediaInv, Changes
    PROVE  /\ img' \in [Id -> Version \cup {Nil}] /\ side' \in [Id -> Sidecars \cup {Nil}]
           /\ moved' \in 0..changes' /\ changes' \in 0..MaxChanges
           /\ reading' \in Version \cup {Nil} /\ (reading # Nil => reading' # Nil)
           /\ UNCHANGED <<cache, behind>>
<1> USE CatalogAssumption
<1>0. /\ img \in [Id -> Version \cup {Nil}] /\ side \in [Id -> Sidecars \cup {Nil}]
      /\ moved \in 0..changes /\ changes \in 0..MaxChanges /\ reading \in Version \cup {Nil}
  BY DEF MediaInv, MediaTypeOK
<1>1. ASSUME Changing, NamesChange \/ UNCHANGED moved
      PROVE  moved' \in 0..changes' /\ changes' \in 0..MaxChanges /\ UNCHANGED <<cache, behind>>
  BY <1>0, <1>1 DEF Changing, NamesChange
<1>2. ASSUME NEW j \in Id, NEW v \in Version, NEW inPlace \in BOOLEAN, Puts(j, v, inPlace),
             reading' = IF inPlace /\ reading # Nil /\ client.entry.path = j THEN v ELSE reading
      PROVE  /\ img' \in [Id -> Version \cup {Nil}] /\ side' \in [Id -> Sidecars \cup {Nil}]
             /\ reading' \in Version \cup {Nil} /\ (reading # Nil => reading' # Nil)
             /\ Changing /\ (NamesChange \/ UNCHANGED moved)
  BY <1>0, <1>2 DEF Puts
<1>3. ASSUME NEW j \in Id, Removes(j), UNCHANGED reading
      PROVE  /\ img' \in [Id -> Version \cup {Nil}] /\ side' \in [Id -> Sidecars \cup {Nil}]
             /\ reading' \in Version \cup {Nil} /\ (reading # Nil => reading' # Nil)
             /\ Changing /\ (NamesChange \/ UNCHANGED moved)
  BY <1>0, <1>3 DEF Removes
<1>4. ASSUME NEW j \in Id, NEW s \in Sidecars, WritesSidecar(j, s), UNCHANGED reading
      PROVE  /\ img' \in [Id -> Version \cup {Nil}] /\ side' \in [Id -> Sidecars \cup {Nil}]
             /\ reading' \in Version \cup {Nil} /\ (reading # Nil => reading' # Nil)
             /\ Changing /\ (NamesChange \/ UNCHANGED moved)
  BY <1>0, <1>4 DEF WritesSidecar
<1>5. ASSUME NEW j \in Id, MediaAdd(j)
      PROVE  \E s \in Sidecars : WritesSidecar(j, s)
  <2>1. img[j] \in Version
    BY <1>0, <1>5 DEF MediaAdd
  <2>2. [digest |-> img[j], source |-> Nil, url |-> Nil, len |-> Nil] \in Sidecars
    BY <2>1 DEF Sidecars
  <2>3. QED
    BY <1>5, <2>2 DEF MediaAdd
<1>6. ASSUME NEW j \in Id, NEW source \in Id, NEW url \in Url, MediaPrepare(j, source, url)
      PROVE  \E s \in Sidecars : WritesSidecar(j, s)
  <2>1. Entry(source) \in Entries
    BY <1>0, <1>6, EntryTyped DEF MediaPrepare
  <2>2. [digest |-> Entry(source).digest, source |-> source, url |-> url,
         len |-> Entry(source).size] \in Sidecars
    BY <2>1 DEF Entries, Sidecars
  <2>3. QED
    BY <1>6, <2>2 DEF MediaPrepare
<1>7. QED
  BY <1>1, <1>2, <1>3, <1>4, <1>5, <1>6 DEF Changes

LEMMA MediaInvKept == MediaInv /\ [MediaNext]_mediaVars => MediaInv'
<1> SUFFICES ASSUME MediaInv, [MediaNext]_mediaVars
             PROVE  MediaInv'
  OBVIOUS
<1> USE CatalogAssumption, MediaAssumption
<1>0. MediaTypeOK /\ Asleep \in Requests /\ Asleep.at = "idle"
  BY DEF MediaInv, Asleep, Requests
<1>1. CASE UNCHANGED mediaVars
  BY <1>1 DEF mediaVars, catalogVars, MediaInv, MediaTypeOK, ListingIsRecent, OfOneImage
<1>2. CASE Resolve /\ UNCHANGED wanted
  <2>1. Listed /\ client.at = "idle"
    BY <1>0, <1>2 DEF Resolve
  <2>2. PICK e : e = Listing[wanted]
    OBVIOUS
  <2>3. e \in Entries \cup {Nil}
    BY <1>0, <2>1, <2>2, ListedTyped DEF MediaTypeOK
  <2>4. client' = IF e = Nil \/ (e.url # Nil /\ img[e.path] = Nil) THEN Asleep
                  ELSE [at |-> "send", entry |-> e, lag |-> behind',
                        total |-> IF e.url = Nil THEN e.size ELSE SizeOf(img[e.path]) + 1]
    BY <1>2, <2>2 DEF Resolve
  <2>5. client' \in Requests /\ client'.at \in {"idle", "send"}
        /\ (client'.at = "send" => client'.lag = behind')
    <3>1. CASE client' = Asleep
      BY <1>0, <3>1
    <3>2. CASE client' # Asleep
      <4>1. e \in Entries /\ (e.url # Nil => img[e.path] # Nil)
        BY <2>3, <2>4, <3>2
      <4>2. e.path \in Id /\ e.size \in Nat
        BY <4>1 DEF Entries
      <4>3. e.url # Nil => img[e.path] \in Version
        BY <1>0, <4>1, <4>2 DEF MediaTypeOK
      <4>4. (IF e.url = Nil THEN e.size ELSE SizeOf(img[e.path]) + 1) \in Nat
        BY <4>2, <4>3
      <4>5. behind' \in 0..Backstop
        BY <2>1, ListedTyped
      <4>6. PICK n \in Nat : n = IF e.url = Nil THEN e.size ELSE SizeOf(img[e.path]) + 1
        BY <4>4
      <4>7. client' = [at |-> "send", entry |-> e, lag |-> behind', total |-> n]
        BY <2>4, <3>2, <4>6
      <4>8. QED
        BY <4>1, <4>5, <4>7 DEF Requests
    <3>3. QED
      BY <3>1, <3>2
  <2>6. MediaTypeOK'
    BY <1>0, <1>2, <2>1, <2>5, ListedTyped DEF Resolve, MediaTypeOK
  <2>7. ListingIsRecent'
    BY <2>1, <2>5, ListedTyped DEF ListingIsRecent
  <2>8. OfOneImage'
    BY <1>2, <2>5 DEF Resolve, OfOneImage, MediaInv
  <2>9. QED
    BY <2>1, <2>6, <2>7, <2>8, ListedTyped DEF MediaInv
<1>3. CASE Send /\ UNCHANGED wanted
  <2>1. client.at = "send" /\ UNCHANGED <<catalogVars, reading, raced, requests>>
    BY <1>3 DEF Send
  <2>2. PICK e : e = client.entry
    OBVIOUS
  <2>3. e \in Entries /\ client.total \in Nat
    BY <1>0, <2>1, <2>2, ClientTyped
  <2> DEFINE resumes == tag # Nil /\ tag = ETag(e)
  <2>4. CASE client' = Asleep /\ UNCHANGED <<have, tag>>
    BY <1>0, <1>3, <2>1, <2>4
    DEF catalogVars, MediaInv, MediaTypeOK, ListingIsRecent, OfOneImage
  <2>5. CASE /\ ~(resumes /\ Len(have) >= client.total)
             /\ client' = [client EXCEPT !.at = "open"]
             /\ have' = IF resumes THEN have ELSE <<>>
             /\ tag' = ETag(e)
    <3>1. client' \in Requests /\ client'.at = "open" /\ client'.entry = e
          /\ client'.total = client.total
      BY <1>0, <2>1, <2>2, <2>5, ClientTyped
    <3>2. Len(have) \in Nat /\ (~resumes => have' = <<>>) /\ (resumes => have' = have)
      BY <1>0, <2>5 DEF MediaTypeOK
    <3>3. Len(have') <= client'.total
      BY <2>3, <2>5, <3>1, <3>2
    <3>4. have' \in Seq((Version \cup {Nil}) \X (Url \cup {Nil}))
      <4>1. have \in Seq((Version \cup {Nil}) \X (Url \cup {Nil}))
        BY <1>0 DEF MediaTypeOK
      <4>2. have' = have \/ have' = <<>>
        BY <3>2
      <4>3. <<>> \in Seq((Version \cup {Nil}) \X (Url \cup {Nil}))
        OBVIOUS
      <4>4. CASE have' = have
        BY <4>1, <4>4
      <4>5. CASE have' = <<>>
        BY <4>3, <4>5
      <4>6. QED
        BY <4>2, <4>4, <4>5
    <3>5. MediaTypeOK'
      BY <1>0, <1>3, <2>1, <3>1, <3>3, <3>4 DEF catalogVars, MediaTypeOK
    <3>6. ~tag'.pinned => tag'.mtime = img[e.path]
      BY <2>5 DEF ETag
    <3>7. ASSUME ~raced', ~tag'.pinned, NEW j \in 1..Len(have')
          PROVE  have'[j][1] = tag'.mtime
      <4>1. CASE resumes
        BY <2>1, <2>5, <3>2, <3>7, <4>1 DEF MediaInv, OfOneImage
      <4>2. CASE ~resumes
        BY <3>2, <3>7, <4>2
      <4>3. QED
        BY <4>1, <4>2
    <3>8. OfOneImage'
      BY <2>1, <3>1, <3>6, <3>7 DEF catalogVars, OfOneImage
    <3>9. QED
      BY <2>1, <3>1, <3>5, <3>8 DEF catalogVars, MediaInv, ListingIsRecent
  <2>6. QED
    BY <1>3, <2>2, <2>4, <2>5 DEF Send
<1>4. CASE Opens /\ UNCHANGED wanted
  <2>1. /\ client.at = "open" /\ reading' = img[client.entry.path]
        /\ client' = IF reading' = Nil THEN Asleep ELSE [client EXCEPT !.at = "stream"]
        /\ UNCHANGED <<catalogVars, have, tag, raced, requests, wanted>>
    BY <1>4 DEF Opens
  <2>2. client.entry.path \in Id
    BY <1>0, <2>1, ClientTyped
  <2>3. reading' \in Version \cup {Nil}
    BY <1>0, <2>1, <2>2 DEF MediaTypeOK
  <2>4. CASE reading' = Nil
    BY <1>0, <2>1, <2>3, <2>4 DEF catalogVars, MediaInv, MediaTypeOK, ListingIsRecent, OfOneImage
  <2>5. CASE reading' # Nil
    <3>1. client' \in Requests /\ client'.at = "stream" /\ client'.total = client.total
      BY <1>0, <2>1, <2>5, ClientTyped
    <3>2. MediaTypeOK'
      BY <1>0, <2>1, <2>3, <2>5, <3>1 DEF catalogVars, MediaTypeOK
    <3>3. QED
      BY <2>1, <3>1, <3>2 DEF catalogVars, MediaInv, ListingIsRecent, OfOneImage
  <2>6. QED
    BY <2>4, <2>5
<1>5. CASE Streams /\ UNCHANGED wanted
  <2>1. /\ client.at = "stream" /\ Len(have) < client.total
        /\ UNCHANGED <<catalogVars, tag, raced, requests, wanted>>
    BY <1>5 DEF Streams
  <2>2. CASE have' = Append(have, <<reading, client.entry.url>>) /\ UNCHANGED <<client, reading>>
    <3>1. client.entry \in Entries /\ client.total \in Nat
      BY <1>0, <2>1, ClientTyped
    <3>2. <<reading, client.entry.url>> \in (Version \cup {Nil}) \X (Url \cup {Nil})
      BY <1>0, <3>1 DEF MediaTypeOK, Entries
    <3>3. have \in Seq((Version \cup {Nil}) \X (Url \cup {Nil})) /\ Len(have) \in Nat
      BY <1>0 DEF MediaTypeOK
    <3>4. /\ have' \in Seq((Version \cup {Nil}) \X (Url \cup {Nil}))
          /\ Len(have') = Len(have) + 1
          /\ \A j \in 1..Len(have) : have'[j] = have[j]
          /\ have'[Len(have) + 1] = <<reading, client.entry.url>>
      BY <2>2, <3>2, <3>3
    <3>5. MediaTypeOK'
      BY <1>0, <2>1, <2>2, <3>1, <3>3, <3>4 DEF catalogVars, MediaTypeOK
    <3>6. ASSUME ~raced', ~tag'.pinned, NEW j \in 1..Len(have')
          PROVE  have'[j][1] = tag'.mtime
      <4>1. CASE j = Len(have) + 1
        <5>1. have'[j] = <<reading, client.entry.url>>
          BY <3>4, <4>1
        <5>2. have'[j][1] = reading
          BY <5>1
        <5>3. QED
          BY <2>1, <3>6, <5>2 DEF MediaInv, OfOneImage
      <4>2. CASE j # Len(have) + 1
        <5>1. j \in 1..Len(have)
          BY <3>3, <3>4, <4>2
        <5>2. QED
          BY <2>1, <3>4, <3>6, <5>1 DEF MediaInv, OfOneImage
      <4>3. QED
        BY <4>1, <4>2
    <3>7. OfOneImage'
      BY <2>1, <2>2, <3>6 DEF MediaInv, OfOneImage
    <3>8. QED
      BY <2>1, <2>2, <3>5, <3>7 DEF catalogVars, MediaInv, ListingIsRecent
  <2>3. CASE client' = Asleep /\ reading' = Nil /\ UNCHANGED have
    BY <1>0, <2>1, <2>3 DEF catalogVars, MediaInv, MediaTypeOK, ListingIsRecent, OfOneImage
  <2>4. QED
    BY <1>5, <2>2, <2>3 DEF Streams
<1>6. CASE CutOff /\ UNCHANGED wanted
  BY <1>0, <1>6 DEF CutOff, catalogVars, MediaInv, MediaTypeOK, ListingIsRecent, OfOneImage
<1>7. CASE Completes /\ UNCHANGED wanted
  <2>1. /\ client.at = "stream" /\ client' = [client EXCEPT !.at = "complete"]
        /\ UNCHANGED <<catalogVars, have, tag, reading, raced, requests, wanted>>
    BY <1>7 DEF Completes
  <2>2. client' \in Requests /\ client'.at = "complete" /\ client'.total = client.total
    BY <1>0, <2>1, ClientTyped
  <2>3. MediaTypeOK'
    BY <1>0, <2>1, <2>2 DEF catalogVars, MediaTypeOK
  <2>4. QED
    BY <2>1, <2>2, <2>3 DEF catalogVars, MediaInv, ListingIsRecent, OfOneImage
<1>8. CASE Changes /\ UNCHANGED wanted
  <2>1. /\ raced' = (raced \/ client.at \in {"send", "open", "stream"})
        /\ UNCHANGED <<client, have, tag, requests>>
    BY <1>8 DEF Changes
  <2>2. raced' \in BOOLEAN /\ (client.at \in {"send", "open", "stream"} => raced')
        /\ (raced => raced')
    BY <1>0, <2>1 DEF MediaTypeOK
  <2>3. MediaTypeOK'
    BY <1>0, <1>8, <2>1, <2>2, ChangesTyped DEF MediaTypeOK
  <2>4. OfOneImage'
    BY <1>0, <2>1, <2>2 DEF MediaInv, OfOneImage, MediaTypeOK
  <2>5. QED
    BY <1>8, <2>1, <2>3, <2>4, ChangesTyped DEF MediaInv, ListingIsRecent
<1>9. CASE Tick /\ UNCHANGED <<client, have, tag, reading, raced, requests, wanted>>
  <2>1. /\ cache # Nil /\ cache.age < Backstop /\ UNCHANGED <<img, side, moved, changes>>
        /\ cache' = [cache EXCEPT !.age = @ + 1]
        /\ behind' \in {0, behind + 1}
    BY <1>9 DEF Tick
  <2>2. PICK c : c = cache
    OBVIOUS
  <2>3. /\ c = [version |-> c.version, age |-> c.age, entries |-> c.entries]
        /\ c.version \in Nat /\ c.age \in 0..(Backstop - 1) /\ c.entries \in [Id -> Entries \cup {Nil}]
    BY <1>0, <2>1, <2>2 DEF MediaTypeOK
  <2>4. [c EXCEPT !.age = c.age + 1] = [version |-> c.version, age |-> c.age + 1, entries |-> c.entries]
    BY <2>3
  <2>5. cache' = [version |-> c.version, age |-> c.age + 1, entries |-> c.entries]
    BY <2>1, <2>2, <2>4
  <2>6. /\ cache' \in [version : Nat, age : 0..Backstop, entries : [Id -> Entries \cup {Nil}]]
        /\ cache'.age = c.age + 1
    BY <2>3, <2>5
  <2>7. behind \in 0..Backstop /\ behind <= c.age
    BY <1>0, <2>1, <2>2 DEF MediaInv, MediaTypeOK
  <2>8. behind' \in 0..Backstop /\ behind' <= cache'.age
    BY <2>1, <2>3, <2>6, <2>7
  <2>9. MediaTypeOK'
    BY <1>0, <1>9, <2>1, <2>6, <2>8 DEF MediaTypeOK
  <2>10. QED
    BY <1>9, <2>1, <2>8, <2>9 DEF MediaInv, ListingIsRecent, OfOneImage
<1>10. QED
  BY <1>1, <1>2, <1>3, <1>4, <1>5, <1>6, <1>7, <1>8, <1>9 DEF MediaNext

(* The listing that is answered from is no older than the backstop, and    *)
(* what is sent is of one image, whatever changes in the directory.        *)
THEOREM MediaInvariant == MediaSpec => []MediaInv
BY MediaStarts, MediaInvKept, PTL DEF MediaSpec

(* A request is answered from what the directory held within the backstop. *)
THEOREM ListingIsRecentAlways == MediaSpec => []ListingIsRecent
<1>1. MediaInv => ListingIsRecent
  BY DEF MediaInv
<1>2. QED
  BY <1>1, MediaInvariant, PTL

(* A download put together over any number of answers is of one image.     *)
THEOREM DownloadIsOneImageAlways == MediaSpec => []DownloadIsOneImage
<1>1. MediaInv => DownloadIsOneImage
  <2> SUFFICES ASSUME MediaInv, client.at = "complete", ~raced, ~tag.pinned,
                      \A j \in 1..Len(have) : have[j][2] = Nil,
                      NEW j \in 1..Len(have), NEW k \in 1..Len(have)
               PROVE  have[j] = have[k]
    BY DEF DownloadIsOneImage, OneImage
  <2>1. have[j][1] = have[k][1] /\ have[j][2] = have[k][2]
    BY DEF MediaInv, OfOneImage
  <2>2. have[j] \in (Version \cup {Nil}) \X (Url \cup {Nil})
        /\ have[k] \in (Version \cup {Nil}) \X (Url \cup {Nil})
    BY DEF MediaInv, MediaTypeOK
  <2>3. QED
    BY <2>1, <2>2
<1>2. QED
  BY <1>1, MediaInvariant, PTL

----------------------------------------------------------------------------
(* All of them at once, as MCDisk states it.                               *)

(* Each part steps as it does alone, or not at all.                        *)
LEMMA PartsOfDisk ==
    Spec => FileSpec /\ SqlSpec /\ LayoutSpec /\ FetchSpec /\ MediaSpec
<1>1. Init => FileInit /\ SqlInit /\ LayoutInit /\ FetchInit /\ MediaInit
  BY DEF Init
<1>2. [Next]_vars => /\ [FileNext]_fileVars /\ [SqlNext]_sqlVars /\ [LayoutNext]_layoutVars
                     /\ [FetchNext]_fetchVars /\ [MediaNext]_mediaVars
  BY DEF Next, vars
<1>3. QED
  BY <1>1, <1>2, PTL DEF Spec, FileSpec, SqlSpec, LayoutSpec, FetchSpec, MediaSpec

(* Every part's state is of its type.                                      *)
THEOREM DiskTypeCorrect == Spec => []TypeOK
<1>1. LayoutInv => LayoutTypeOK
  BY DEF LayoutInv
<1>2. FetchInv => FetchTypeOK
  BY DEF FetchInv
<1>3. MediaInv => MediaTypeOK
  BY DEF MediaInv
<1>4. FileTypeOK /\ SqlTypeOK /\ LayoutTypeOK /\ FetchTypeOK /\ MediaTypeOK => TypeOK
  BY DEF TypeOK
<1>5. QED
  BY <1>1, <1>2, <1>3, <1>4, PartsOfDisk, FileTypeCorrect, SqlTypeCorrect,
     LayoutInvariant, FetchInvariant, MediaInvariant, PTL

(* A snapshot of either store gives documents of the time since it began.  *)
THEOREM SnapshotsAreOfTheirTimeAlways == Spec => []SnapshotsAreOfTheirTime
<1>1. ReadingIsOfItsTime /\ RowsAreOfTheirTime => SnapshotsAreOfTheirTime
  BY DEF SnapshotsAreOfTheirTime
<1>2. QED
  BY <1>1, PartsOfDisk, ReadingIsOfItsTimeAlways, RowsAreOfTheirTimeAlways, PTL

(* Whichever store a behaviour is of, it keeps the one promise.            *)
THEOREM StoresKeepPromiseAlways == Spec => StoresKeepPromise
<1>1. Init /\ FilePromise!ContractInit /\ SqlPromise!ContractInit => Promise!ContractInit
  BY DEF FilePromise!ContractInit, SqlPromise!ContractInit, Promise!ContractInit,
         FilePromise!Idle, SqlPromise!Idle, Promise!Idle
<1>2. [Next]_vars /\ [FilePromise!ContractNext]_FilePromise!contractVars
        /\ [SqlPromise!ContractNext]_SqlPromise!contractVars
      => [Promise!ContractNext]_Promise!contractVars
  <2> SUFFICES ASSUME [Next]_vars, [FilePromise!ContractNext]_FilePromise!contractVars,
                      [SqlPromise!ContractNext]_SqlPromise!contractVars
               PROVE  [Promise!ContractNext]_Promise!contractVars
    OBVIOUS
  <2>1. subject' = subject
    BY DEF Next, vars
  <2>2. CASE subject = "sqlite"
    <3>1. /\ (IF subject = "sqlite" THEN row ELSE FileDoc) = row
          /\ (IF subject = "sqlite" THEN row ELSE FileDoc)' = row'
          /\ (IF subject = "sqlite" THEN SqlCall ELSE FileCall) = SqlCall
          /\ (IF subject = "sqlite" THEN SqlCall ELSE FileCall)' = SqlCall'
      BY <2>1, <2>2
    <3>2. ASSUME NEW w \in Writer
          PROVE  /\ SqlPromise!Make(w) => Promise!Make(w)
                 /\ SqlPromise!PutTakes(w) => Promise!PutTakes(w)
                 /\ SqlPromise!DeleteTakes(w) => Promise!DeleteTakes(w)
                 /\ SqlPromise!Fails(w) => Promise!Fails(w)
                 /\ SqlPromise!Returns(w) => Promise!Returns(w)
                 /\ SqlPromise!GoesAmiss(w) => Promise!GoesAmiss(w)
      <4>1. SqlPromise!Make(w) => Promise!Make(w)
        BY <3>1 DEF SqlPromise!Make, Promise!Make, SqlPromise!Idle, Promise!Idle, SqlPromise!Puts, Promise!Puts, SqlPromise!Deletes, Promise!Deletes
      <4>2. SqlPromise!PutTakes(w) => Promise!PutTakes(w)
        BY <3>1 DEF SqlPromise!PutTakes, Promise!PutTakes, SqlPromise!Result, Promise!Result
      <4>3. SqlPromise!DeleteTakes(w) => Promise!DeleteTakes(w)
        <5> DEFINE D == IF subject = "sqlite" THEN row ELSE FileDoc
                   C == IF subject = "sqlite" THEN SqlCall ELSE FileCall
        <5>1. Promise!DeleteTakes(w) <=>
                 /\ C[w].op = "delete" /\ D' = [D EXCEPT ![C[w].key] = None]
                 /\ C' = [C EXCEPT ![w] = [op |-> "done", result |->
                             IF D[C[w].key] = None THEN "absent" ELSE "removed"]]
          BY Zenon DEF Promise!DeleteTakes, Promise!Result
        <5>2. D = row /\ D' = row' /\ C = SqlCall /\ C' = SqlCall'
          BY <3>1
        <5> HIDE DEF C, D
        <5>3. QED
          BY <5>1, <5>2 DEF SqlPromise!DeleteTakes, SqlPromise!Result
      <4>4. SqlPromise!Fails(w) => Promise!Fails(w)
        BY <3>1 DEF SqlPromise!Fails, Promise!Fails, SqlPromise!Result, Promise!Result
      <4>5. SqlPromise!Returns(w) => Promise!Returns(w)
        BY <3>1 DEF SqlPromise!Returns, Promise!Returns, SqlPromise!Idle, Promise!Idle
      <4>6. ~SqlPromise!GoesAmiss(w)
        BY DEF SqlPromise!GoesAmiss
      <4>7. QED
        BY <4>1, <4>2, <4>3, <4>4, <4>5, <4>6
    <3>3. SqlPromise!Dies => Promise!Dies
      BY <3>1 DEF SqlPromise!Dies, Promise!Dies, SqlPromise!Idle, Promise!Idle
    <3>4. UNCHANGED SqlPromise!contractVars => UNCHANGED Promise!contractVars
      BY <3>1 DEF SqlPromise!contractVars, Promise!contractVars
    <3>5. QED
      BY <3>2, <3>3, <3>4 DEF SqlPromise!ContractNext, Promise!ContractNext
  <2>3. CASE subject # "sqlite"
    <3>1. /\ (IF subject = "sqlite" THEN row ELSE FileDoc) = FileDoc
          /\ (IF subject = "sqlite" THEN row ELSE FileDoc)' = FileDoc'
          /\ (IF subject = "sqlite" THEN SqlCall ELSE FileCall) = FileCall
          /\ (IF subject = "sqlite" THEN SqlCall ELSE FileCall)' = FileCall'
          /\ (IF subject = "sqlite" THEN {} ELSE amiss) = amiss
          /\ (IF subject = "sqlite" THEN {} ELSE amiss)' = amiss'
      BY <2>1, <2>3
    <3>2. ASSUME NEW w \in Writer
          PROVE  /\ FilePromise!Make(w) => Promise!Make(w)
                 /\ FilePromise!PutTakes(w) => Promise!PutTakes(w)
                 /\ FilePromise!DeleteTakes(w) => Promise!DeleteTakes(w)
                 /\ FilePromise!Fails(w) => Promise!Fails(w)
                 /\ FilePromise!Returns(w) => Promise!Returns(w)
                 /\ FilePromise!GoesAmiss(w) => Promise!GoesAmiss(w)
      <4>1. FilePromise!Make(w) => Promise!Make(w)
        BY <3>1 DEF FilePromise!Make, Promise!Make, FilePromise!Idle, Promise!Idle, FilePromise!Puts, Promise!Puts, FilePromise!Deletes, Promise!Deletes
      <4>2. FilePromise!PutTakes(w) => Promise!PutTakes(w)
        BY <3>1 DEF FilePromise!PutTakes, Promise!PutTakes, FilePromise!Result, Promise!Result
      <4>3. FilePromise!DeleteTakes(w) => Promise!DeleteTakes(w)
        <5> DEFINE D == IF subject = "sqlite" THEN row ELSE FileDoc
                   C == IF subject = "sqlite" THEN SqlCall ELSE FileCall
        <5>1. Promise!DeleteTakes(w) <=>
                 /\ C[w].op = "delete" /\ D' = [D EXCEPT ![C[w].key] = None]
                 /\ C' = [C EXCEPT ![w] = [op |-> "done", result |->
                             IF D[C[w].key] = None THEN "absent" ELSE "removed"]]
          BY Zenon DEF Promise!DeleteTakes, Promise!Result
        <5>2. D = FileDoc /\ D' = FileDoc' /\ C = FileCall /\ C' = FileCall'
          BY <3>1
        <5> HIDE DEF C, D
        <5>3. QED
          BY <5>1, <5>2 DEF FilePromise!DeleteTakes, FilePromise!Result
      <4>4. FilePromise!Fails(w) => Promise!Fails(w)
        BY <3>1 DEF FilePromise!Fails, Promise!Fails, FilePromise!Result, Promise!Result
      <4>5. FilePromise!Returns(w) => Promise!Returns(w)
        BY <3>1 DEF FilePromise!Returns, Promise!Returns, FilePromise!Idle, Promise!Idle
      <4>6. FilePromise!GoesAmiss(w) => Promise!GoesAmiss(w)
        <5> DEFINE D == IF subject = "sqlite" THEN row ELSE FileDoc
                   C == IF subject = "sqlite" THEN SqlCall ELSE FileCall
                   A == IF subject = "sqlite" THEN {} ELSE amiss
        <5>1. Promise!GoesAmiss(w) <=>
                 /\ C[w].op \in {"put", "delete"}
                 /\ C[w].key \in A \cup A'
                 /\ \/ /\ C[w].op = "put"
                       /\ C' = [C EXCEPT ![w] = [op |-> "done", result |-> "ok"]]
                       /\ D' = D
                    \/ /\ C[w].op = "delete"
                       /\ \E r \in {"absent", "removed"} :
                             C' = [C EXCEPT ![w] = [op |-> "done", result |-> r]]
                       /\ \E d \in Body \cup {None} : D' = [D EXCEPT ![C[w].key] = d]
          BY Zenon DEF Promise!GoesAmiss, Promise!Result
        <5>2. D = FileDoc /\ D' = FileDoc' /\ C = FileCall /\ C' = FileCall' /\ A = amiss /\ A' = amiss'
          BY <3>1
        <5> HIDE DEF A, C, D
        <5>3. QED
          BY <5>1, <5>2 DEF FilePromise!GoesAmiss, FilePromise!Result
      <4>7. QED
        BY <4>1, <4>2, <4>3, <4>4, <4>5, <4>6
    <3>3. FilePromise!Dies => Promise!Dies
      BY <3>1 DEF FilePromise!Dies, Promise!Dies, FilePromise!Idle, Promise!Idle
    <3>4. UNCHANGED FilePromise!contractVars => UNCHANGED Promise!contractVars
      BY <3>1 DEF FilePromise!contractVars, Promise!contractVars
    <3>5. QED
      BY <3>2, <3>3, <3>4 DEF FilePromise!ContractNext, Promise!ContractNext
  <2>4. QED
    BY <2>2, <2>3
<1>3. QED
  BY <1>1, <1>2, PartsOfDisk, FileKeepsPromise, SqlKeepsPromise, PTL
  DEF Spec, StoresKeepPromise, FilePromise!ContractSpec, SqlPromise!ContractSpec,
      Promise!ContractSpec

=============================================================================
