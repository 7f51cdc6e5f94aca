------------------------------ MODULE FileStore ------------------------------
(***************************************************************************)
(* One identity's directory in the file store (store/file.rs), its writers *)
(* a system call at a time and one reader. A document is a file named by a *)
(* stem and the format its extension declares; stems are numbered in the   *)
(* order file names sort. Modes and owners of files are left out.          *)
(*                                                                         *)
(* The operator's own edits and hidden or foreign files are left out: with *)
(* two documents of one format in a directory, which only an edit or two   *)
(* overlapping writes of a document the operator named can leave, a delete *)
(* uncovers the second. A behaviour is therefore either of calls that      *)
(* never overlap, over documents however named, or of calls that do, over  *)
(* documents under the canonical name: `apart` says which.                 *)
(*                                                                         *)
(* A listing of the directory may fail or break off, which the code takes  *)
(* for a directory without what it did not see: then too a put may leave a *)
(* second document of a format. `amiss` says of which formats a call       *)
(* overlooked the document, until that has been set right.                 *)
(***************************************************************************)
EXTENDS StoreData, Integers, FiniteSets

CONSTANTS Stem,             \* the stems of file names, in their order
          CanonicalStem     \* the one a new document gets

ASSUME StemAssumption ==
    /\ Stem \subseteq Nat /\ CanonicalStem \in Stem
    /\ None \notin Stem \X Key /\ None # "part"

VARIABLES present,  \* whether the identity has a directory
          file,     \* the file of each name in it: its body, or None
          temp,     \* each writer's temporary file: None, "part" or its body
          debris,   \* a temporary file some dead or failed write left
          writer,   \* each writer's call and where it stands in it
          apart,    \* whether calls never overlap
          amiss,    \* the formats whose document a call has overlooked
          reader,   \* the reader's position, the names it has still to read, and
                    \* the formats of which it lost a document there was
          got,      \* what it has read of each format
          seen      \* every document each format has had since it began

fileVars == <<present, file, temp, debris, writer, apart, amiss, reader, got, seen>>

Name == Stem \X Key

(* The first document of a format in file name order: the one that answers *)
(* requests and the one a write replaces.                                  *)
Documents(f) == {n \in Name : file[n] # None /\ n[2] = f}

First(f) == CHOOSE n \in Documents(f) : \A m \in Documents(f) : n[1] <= m[1]

Existing(f) == IF Documents(f) = {} THEN None ELSE First(f)

FileDoc == [f \in Key |-> IF Documents(f) = {} THEN None ELSE file[First(f)]]

AtRest == [at |-> "idle"]

Unread == [at |-> "idle", names |-> {}, lost |-> {}]

FileInit ==
    /\ apart \in BOOLEAN
    /\ file \in [Name -> Body \cup {None}]
    /\ \A f \in Key : \A m, n \in Documents(f) : m = n
    /\ ~apart => \A n \in Name : file[n] # None => n[1] = CanonicalStem
    /\ present = (\E n \in Name : file[n] # None)
    /\ temp = [w \in Writer |-> None]
    /\ debris = FALSE
    /\ writer = [w \in Writer |-> AtRest]
    /\ amiss = {}
    /\ reader = Unread
    /\ got = [f \in Key |-> None]
    /\ seen = [f \in Key |-> {}]

-----------------------------------------------------------------------------
(* put and remove.                                                         *)

(* A format is in doubt while there are two documents of it, or a write is *)
(* under way that is about to add one to the one there is.                 *)
InDoubt(f) ==
    \/ \E m, n \in Documents(f) : m # n
    \/ \E w \in Writer : /\ writer[w].at \in {"parent", "write", "fill", "rename"}
                         /\ writer[w].key = f
                         /\ Existing(f) \notin {None, writer[w].path}

(* What is overlooked is amiss, and stays so while it is in doubt.         *)
Overlooks(S) == amiss' = S \cup {f \in amiss : InDoubt(f)'}

Goes(w, at) == writer' = [writer EXCEPT ![w].at = at]

Finished(w, result) == writer' = [writer EXCEPT ![w] = [at |-> "done", result |-> result]]

Call(w) ==
    /\ writer[w] = AtRest
    /\ apart => \A v \in Writer : writer[v] = AtRest
    /\ \E f \in Key, b \in Body :
          \/ writer' = [writer EXCEPT ![w] =
                [at |-> "look", op |-> "put", key |-> f, body |-> b, path |-> None]]
          \/ writer' = [writer EXCEPT ![w] =
                [at |-> "look", op |-> "delete", key |-> f, path |-> None]]
    /\ UNCHANGED <<present, file, temp, debris>>

(* A change of Look: the canonical name, whatever is there.                *)
LookCanonical(w) ==
    /\ writer[w].at = "look"
    /\ UNCHANGED <<file, temp, debris>>
    /\ present' = (present \/ writer[w].op = "put")
    /\ IF writer[w].op = "put"
       THEN writer' = [writer EXCEPT ![w].at = "parent",
                                     ![w].path = <<CanonicalStem, writer[w].key>>]
       ELSE IF Existing(writer[w].key) = None
       THEN Finished(w, "absent")
       ELSE writer' = [writer EXCEPT ![w].at = "unlink", ![w].path = Existing(writer[w].key)]
    /\ Overlooks({})

(* `existing`: the document a write replaces and a delete removes. A put   *)
(* makes the directory first; one removed again before it is listed lists  *)
(* like an empty one, so that the two are one step. Making it may fail. A  *)
(* listing that fails finds nothing (`.ok()?`), and of one that breaks off *)
(* the first of what it has seen is taken (`flatten`).                     *)
Look(w) ==
    /\ writer[w].at = "look"
    /\ UNCHANGED <<file, temp, debris>>
    /\ \E found \in Documents(writer[w].key) \cup {None} :
       LET f == writer[w].key
           put == writer[w].op = "put"
           path == IF put /\ found = None THEN <<CanonicalStem, f>> ELSE found
       IN /\ \/ /\ put /\ present' = TRUE
                /\ writer' = [writer EXCEPT ![w].at = "parent", ![w].path = path]
             \/ put /\ ~present /\ UNCHANGED present /\ Finished(w, "error")
             \/ ~put /\ path = None /\ UNCHANGED present /\ Finished(w, "absent")
             \/ /\ ~put /\ path # None /\ UNCHANGED present
                /\ writer' = [writer EXCEPT ![w].at = "unlink", ![w].path = path]
          /\ Overlooks(IF Existing(f) \in {None, path} THEN {} ELSE {f})

(* The directory once more, at the top of write_atomic.                    *)
CreateParent(w) ==
    /\ writer[w].at = "parent"
    /\ \/ present' = TRUE /\ Goes(w, "write")
       \/ ~present /\ UNCHANGED present /\ Finished(w, "error")
    /\ UNCHANGED <<file, temp, debris>>

(* fs::write opens the temporary file and fills it; either may fail, and   *)
(* the open does where a delete has just removed the directory.            *)
OpenTemp(w) ==
    /\ writer[w].at = "write"
    /\ \/ present /\ temp' = [temp EXCEPT ![w] = "part"] /\ Goes(w, "fill")
       \/ Finished(w, "error") /\ UNCHANGED temp
    /\ UNCHANGED <<present, file, debris>>

FillTemp(w) ==
    /\ writer[w].at = "fill"
    /\ \/ /\ temp' = [temp EXCEPT ![w] = writer[w].body]
          /\ Goes(w, "rename")
          /\ UNCHANGED debris
       \/ /\ temp' = [temp EXCEPT ![w] = None]
          /\ debris' = TRUE
          /\ Finished(w, "error")
    /\ UNCHANGED <<present, file>>

(* `preserve` and `rename`; where one of them fails the temporary goes, if *)
(* that does not fail too.                                                 *)
Rename(w) ==
    /\ writer[w].at = "rename"
    /\ temp' = [temp EXCEPT ![w] = None]
    /\ \/ /\ file' = [file EXCEPT ![writer[w].path] = temp[w]] /\ Finished(w, "ok")
          /\ UNCHANGED debris
       \/ /\ UNCHANGED file /\ Finished(w, "error")
          /\ debris' \in {debris, TRUE}
    /\ UNCHANGED present

(* A document that is gone by now is no error; one that cannot go is.      *)
RemoveIfPresent(w) ==
    /\ writer[w].at = "unlink"
    /\ \/ /\ file' = [file EXCEPT ![writer[w].path] = None]
          /\ writer' = [writer EXCEPT ![w] =
                [at |-> "rmdir",
                 result |-> IF file[writer[w].path] = None THEN "absent" ELSE "removed"]]
       \/ UNCHANGED file /\ Finished(w, "error")
    /\ UNCHANGED <<present, temp, debris>>

(* remove_dir refuses a directory that still holds anything, and may fail  *)
(* of one that does not: nobody asks.                                      *)
Occupied ==
    \/ debris
    \/ \E n \in Name : file[n] # None
    \/ \E w \in Writer : temp[w] # None

RemoveDir(w) ==
    /\ writer[w].at = "rmdir"
    /\ present' \in {present, present /\ Occupied}
    /\ Finished(w, writer[w].result)
    /\ UNCHANGED <<file, temp, debris>>

Return(w) ==
    /\ writer[w].at = "done"
    /\ writer' = [writer EXCEPT ![w] = AtRest]
    /\ UNCHANGED <<present, file, temp, debris>>

(* The process dies: what it was writing stays, under a temporary name.    *)
Crash ==
    /\ writer' = [w \in Writer |-> AtRest]
    /\ temp' = [w \in Writer |-> None]
    /\ debris' = (debris \/ \E w \in Writer : temp[w] # None)
    /\ reader' = Unread
    /\ got' = [f \in Key |-> None]
    /\ UNCHANGED <<present, file>>

-----------------------------------------------------------------------------
(* documents_in: list the directory, then read each document. A listing    *)
(* that fails is of no name, one that breaks off is of some of them.       *)

List ==
    /\ reader.at = "idle"
    /\ LET there == {n \in Name : file[n] # None}
       IN \E names \in SUBSET there :
             reader' = [at |-> "read", names |-> names, lost |-> {n[2] : n \in there \ names}]
    /\ got' = [f \in Key |-> None]

(* A change of ReadNext: a document that cannot be read ends the listing.  *)
ReadOrGiveUp ==
    /\ reader.at = "read"
    /\ \E n \in reader.names :
          /\ \A m \in reader.names : n[1] <= m[1]
          /\ LET f == n[2] IN
             \/ /\ got' = IF got[f] # None THEN got ELSE [got EXCEPT ![f] = file[n]]
                /\ reader' = [reader EXCEPT !.names = @ \ {n}]
             \/ /\ got[f] = None /\ file[n] # None
                /\ reader' = [reader EXCEPT !.names = {}, !.lost = @ \cup {f}]
                /\ UNCHANGED got

(* In file name order; names of one stem differ in their extension, and    *)
(* any order of them will do. A second document of a format is a problem,  *)
(* and so is one that cannot be read, or not any more; none of them ends   *)
(* the listing.                                                            *)
ReadNext ==
    /\ reader.at = "read"
    /\ \E n \in reader.names :
          /\ \A m \in reader.names : n[1] <= m[1]
          /\ LET f == n[2] IN
             \/ /\ got' = IF got[f] # None THEN got ELSE [got EXCEPT ![f] = file[n]]
                /\ reader' = [reader EXCEPT !.names = @ \ {n}]
             \/ /\ got[f] = None /\ file[n] # None
                /\ reader' = [reader EXCEPT !.names = @ \ {n}, !.lost = @ \cup {f}]
                /\ UNCHANGED got

ReadEnd ==
    /\ reader.at = "read" /\ reader.names = {}
    /\ reader' = Unread
    /\ got' = [f \in Key |-> None]

WriterStep(w) ==
    \/ Look(w)
    \/ /\ \/ Call(w) \/ CreateParent(w) \/ OpenTemp(w) \/ FillTemp(w)
          \/ Rename(w) \/ RemoveIfPresent(w) \/ RemoveDir(w) \/ Return(w)
       /\ Overlooks({})

ReaderStep == List \/ ReadNext \/ ReadEnd

(* What each format has had since the reader began: of one that is amiss,  *)
(* any document of it there is, or none. A document that has been replaced *)
(* can no longer be read and is forgotten, unless it has been.             *)
Remember ==
    seen' = [f \in Key |->
        IF reader'.at = "idle" THEN {}
        ELSE (seen[f] \cap {None, got'[f]})
             \cup {FileDoc'[f]}
             \cup (IF f \in amiss' THEN {file'[n] : n \in Documents(f)'} \cup {None} ELSE {})]

FileNext ==
    /\ \/ \E w \in Writer : WriterStep(w) /\ UNCHANGED <<reader, got>>
       \/ ReaderStep /\ UNCHANGED <<present, file, temp, debris, writer>> /\ Overlooks({})
       \/ Crash /\ Overlooks({})
    /\ Remember
    /\ UNCHANGED apart

FileSpec == FileInit /\ [][FileNext]_fileVars

-----------------------------------------------------------------------------
(* Where a writer can be in a call.                                        *)
Positions ==
    {AtRest}
    \cup [at : {"look"}, op : {"put"}, key : Key, body : Body, path : {None}]
    \cup [at : {"look"}, op : {"delete"}, key : Key, path : {None}]
    \cup [at : {"parent", "write", "fill", "rename"}, op : {"put"}, key : Key,
          body : Body, path : Name]
    \cup [at : {"unlink"}, op : {"delete"}, key : Key, path : Name]
    \cup [at : {"rmdir"}, result : {"absent", "removed"}]
    \cup [at : {"done"}, result : {"ok", "error", "absent", "removed"}]

FileTypeOK ==
    /\ present \in BOOLEAN /\ debris \in BOOLEAN /\ apart \in BOOLEAN
    /\ file \in [Name -> Body \cup {None}]
    /\ temp \in [Writer -> Body \cup {None, "part"}]
    /\ writer \in [Writer -> Positions]
    /\ amiss \subseteq Key
    /\ reader \in [at : {"idle", "read"}, names : SUBSET Name, lost : SUBSET Key]
    /\ got \in [Key -> Body \cup {None}]
    /\ seen \in [Key -> SUBSET (Body \cup {None})]
    /\ ~present => \A n \in Name : file[n] = None

(* The call a caller of the store sees.                                    *)
FileCall == [w \in Writer |->
    CASE writer[w].at = "idle" -> [op |-> "idle"]
      [] writer[w].at \in {"rmdir", "done"} -> [op |-> "done", result |-> writer[w].result]
      [] OTHER -> IF writer[w].op = "put"
                  THEN [op |-> "put", key |-> writer[w].key, body |-> writer[w].body]
                  ELSE [op |-> "delete", key |-> writer[w].key]]

FilePromise == INSTANCE StoreContract WITH doc <- FileDoc, call <- FileCall, amiss <- amiss

(* What a snapshot gives for a format was its document at some moment since*)
(* the directory was listed, never half written or long gone; and one that *)
(* is there throughout is missing only if the listing left it out or it    *)
(* could not be read itself: no failure costs another format its answer.   *)
ReadingIsOfItsTime ==
    reader.at = "read" /\ reader.names = {} =>
        \A f \in Key : \/ got[f] \in seen[f]
                       \/ got[f] = None /\ f \in reader.lost

=============================================================================
