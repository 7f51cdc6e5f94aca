------------------------------- MODULE MCDisk --------------------------------
(***************************************************************************)
(* What is kept on disk, for TLC: the two answer stores, the move of an    *)
(* answers directory to its new layout, the images that are fetched, and   *)
(* the catalogue and the downloads of them. They share no state; as in     *)
(* MCServer only one of them moves in a behaviour: `subject` names it.     *)
(***************************************************************************)
EXTENDS FileStore, SqliteStore, Layout, Fetch, MediaServe, TLC

CONSTANT Subjects

VARIABLE subject

vars == <<fileVars, sqlVars, layoutVars, fetchVars, mediaVars, subject>>

(* Two versions of one length, and one that is shorter.                    *)
MCSize(v) == IF v = "v3" THEN 1 ELSE 2

(* A directory with an image in it, or none; more come with the changes.   *)
MCImages == {f \in [Id -> {"v1", "v3", Nil}] : Cardinality({i \in Id : f[i] # Nil}) <= 1}

(* The names an operator gave are all on one side of the canonical one.    *)
MCNames == \A m, n \in Name : file[m] # None /\ file[n] # None => m[1] <= n[1] + 1

MCSymmetry == UNION {Permutations(S) : S \in {Writer, Key, Body}}

Init ==
    /\ subject \in Subjects
    /\ subject # "files" => file = [n \in Name |-> None] /\ apart = TRUE
    /\ subject # "sqlite" => foreign = {} /\ schema = 0
    /\ subject # "layout" => flat = {} /\ place = [i \in Identity |-> Vacant]
    /\ subject # "media" => img = [i \in Id |-> Nil] /\ wanted = CHOOSE i \in Id : TRUE
    /\ subject = "media" => img \in MCImages
    /\ FileInit /\ SqlInit /\ LayoutInit /\ FetchInit /\ MediaInit
    /\ MCNames

Next ==
    \/ /\ subject = "files" /\ FileNext
       /\ UNCHANGED <<sqlVars, layoutVars, fetchVars, mediaVars, subject>>
    \/ /\ subject = "sqlite" /\ SqlNext
       /\ UNCHANGED <<fileVars, layoutVars, fetchVars, mediaVars, subject>>
    \/ /\ subject = "layout" /\ LayoutNext
       /\ UNCHANGED <<fileVars, sqlVars, fetchVars, mediaVars, subject>>
    \/ /\ subject = "fetch" /\ FetchNext
       /\ UNCHANGED <<fileVars, sqlVars, layoutVars, mediaVars, subject>>
    \/ /\ subject = "media" /\ MediaNext
       /\ UNCHANGED <<fileVars, sqlVars, layoutVars, fetchVars, subject>>

Spec == Init /\ [][Next]_vars

TypeOK == FileTypeOK /\ SqlTypeOK /\ LayoutTypeOK /\ FetchTypeOK /\ MediaTypeOK

(* Both stores keep the one promise: every call takes effect at once or    *)
(* not at all, under overlapping calls of this process and others, failed  *)
(* writes and processes that die; a listing that fails, which the file     *)
(* store takes for an empty directory, leaves amiss the formats of which a *)
(* document was overlooked, and no others.                                 *)
Promise == INSTANCE StoreContract WITH
    doc <- IF subject = "sqlite" THEN row ELSE FileDoc,
    call <- IF subject = "sqlite" THEN SqlCall ELSE FileCall,
    amiss <- IF subject = "sqlite" THEN {} ELSE amiss

StoresKeepPromise == Promise!ContractSpec

(* What a snapshot gives is of the time since it began, over either store, *)
(* and what it leaves out for a failure is what the failure was about.     *)
SnapshotsAreOfTheirTime == ReadingIsOfItsTime /\ RowsAreOfTheirTime

=============================================================================
