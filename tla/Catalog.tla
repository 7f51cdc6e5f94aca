------------------------------- MODULE Catalog -------------------------------
(***************************************************************************)
(* The media directory and the catalogue of it (boot/catalog.rs), and the  *)
(* commands that write sidecars (media_add and media_prepare in cli.rs).   *)
(* An image is a version of its content, which decides its size, and whose *)
(* modification time is its own; a sidecar is what it records. Names that  *)
(* are no usable identifiers, hidden files and other extensions, which are *)
(* passed over or reported, are left out.                                  *)
(***************************************************************************)
EXTENDS Integers, FiniteSets

CONSTANTS Id,           \* the stems of images and sidecars
          Version,      \* versions of an image's content
          SizeOf(_),    \* how long each is
          Url,          \* what a prepared entry points its installer at
          Nil,
          Backstop,     \* RELOAD_BACKSTOP, in ticks
          MaxChanges    \* bounds the changes to the directory

ASSUME CatalogAssumption ==
    /\ Backstop \in Nat \ {0} /\ MaxChanges \in Nat
    /\ \A v \in Version : SizeOf(v) \in Nat
    /\ Nil \notin Version \cup Nat

VARIABLES img,      \* the version of each image file, or Nil
          side,     \* each sidecar, or Nil
          moved,    \* the directory's modification time
          cache,    \* the cached listing, or Nil
          behind,   \* for how many ticks it has not been what a build would give
          changes

catalogVars == <<img, side, moved, cache, behind, changes>>

Sidecars == [digest : Version \cup {Nil}, source : Id \cup {Nil},
             url : Url \cup {Nil}, len : {SizeOf(v) : v \in Version} \cup {Nil}]

(* The entry of an image: pinned by the digest its sidecar records.        *)
Plain(i) ==
    [path |-> i, size |-> SizeOf(img[i]),
     digest |-> IF side[i] = Nil THEN Nil ELSE side[i].digest, url |-> Nil]

(* The entry of a sidecar that names another's image, whose length must be *)
(* the one it was prepared for. Its digest is nobody's.                    *)
Prepared(i) ==
    LET s == side[i] IN
    IF s = Nil \/ s.source = Nil \/ s.url = Nil THEN Nil
    ELSE IF img[s.source] = Nil THEN Nil
    ELSE IF s.len # Nil /\ s.len # SizeOf(img[s.source]) THEN Nil
    ELSE [Plain(s.source) EXCEPT !.digest = Nil, !.url = s.url]

Entry(i) == IF img[i] # Nil THEN Plain(i) ELSE Prepared(i)

Build == [i \in Id |-> Entry(i)]

CatalogInit ==
    /\ img \in [Id -> Version \cup {Nil}]
    /\ side = [i \in Id |-> Nil]
    /\ moved = 0
    /\ cache = Nil
    /\ behind = 0
    /\ changes = 0

(* A change of Fresh: the directory has not moved.                         *)
FreshUnmoved == cache # Nil /\ cache.version = moved

(* `listing`: the cached one while the directory has not moved and it is   *)
(* younger than the backstop.                                              *)
Fresh == /\ cache # Nil
         /\ cache.version = moved
         /\ cache.age < Backstop

Listing == IF Fresh THEN cache.entries ELSE Build

Listed ==
    /\ cache' = IF Fresh THEN cache ELSE [version |-> moved, age |-> 0, entries |-> Build]
    /\ behind' = IF Fresh THEN behind ELSE 0

Tick ==
    /\ cache # Nil /\ cache.age < Backstop
    /\ cache' = [cache EXCEPT !.age = @ + 1]
    /\ behind' = IF cache.entries = Build THEN 0 ELSE behind + 1
    /\ UNCHANGED <<img, side, moved, changes>>

-----------------------------------------------------------------------------
(* Changes to the directory.                                               *)

(* A name that comes or goes moves the directory's time; the timestamp may *)
(* be too coarse to show it. A file written in place never does.           *)
NamesChange == moved' \in {moved, moved + 1}

Changing ==
    /\ changes < MaxChanges
    /\ changes' = changes + 1
    /\ UNCHANGED <<cache, behind>>

(* An image is put under a name, over another or where none was, by a      *)
(* rename or by writing over it. A copy has a modification time of its     *)
(* own, and so is another version.                                         *)
Puts(i, v, inPlace) ==
    /\ Changing
    /\ \A j \in Id : img[j] # v
    /\ img' = [img EXCEPT ![i] = v]
    /\ IF inPlace THEN img[i] # Nil /\ UNCHANGED moved ELSE NamesChange
    /\ UNCHANGED side

Removes(i) ==
    /\ Changing
    /\ img[i] # Nil
    /\ img' = [img EXCEPT ![i] = Nil]
    /\ NamesChange
    /\ UNCHANGED side

WritesSidecar(i, s) ==
    /\ Changing
    /\ side' = [side EXCEPT ![i] = s]
    /\ IF side[i] = Nil THEN NamesChange ELSE UNCHANGED moved
    /\ UNCHANGED img

(* `media add` of a file that is there: its digest.                        *)
MediaAdd(i) ==
    /\ img[i] # Nil
    /\ WritesSidecar(i, [digest |-> img[i], source |-> Nil, url |-> Nil, len |-> Nil])

(* `media prepare`: of any entry, under any name, with the digest of its   *)
(* source, whatever is under that name already.                            *)
MediaPrepare(i, source, url) ==
    /\ Entry(source) # Nil
    /\ WritesSidecar(i, [digest |-> Entry(source).digest, source |-> source, url |-> url,
                         len |-> Entry(source).size])

=============================================================================
