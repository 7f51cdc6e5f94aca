----------------------------- MODULE MediaServe ------------------------------
(***************************************************************************)
(* One client downloading an image from the media listener (boot/media.rs) *)
(* and resuming where it was cut off, while the directory changes. What is *)
(* sent is counted in units, each tagged with the version it was read from *)
(* and the answer URL patched into it; a patched image is its source with  *)
(* some of it overwritten and a unit appended.                             *)
(***************************************************************************)
EXTENDS Catalog, Sequences

CONSTANT MaxRequests    \* bounds the requests of a behaviour

ASSUME MediaAssumption == MaxRequests \in Nat

VARIABLES wanted,   \* the entry it downloads
          client,   \* its position and the request it is in
          have,     \* the units it has put together
          tag,      \* the validator they came with, or Nil
          reading,  \* the file the answer is read from: its version, or Nil
          raced,    \* whether an image changed while an answer was being made
          requests

mediaVars == <<catalogVars, wanted, client, have, tag, reading, raced, requests>>

Asleep == [at |-> "idle"]

MediaInit ==
    /\ CatalogInit
    /\ wanted \in Id
    /\ client = Asleep
    /\ have = <<>> /\ tag = Nil /\ reading = Nil
    /\ raced = FALSE
    /\ requests = 0

(* The catalogue's entry, and for a prepared one the plan, computed over   *)
(* the image as it is now.                                                 *)
Resolve ==
    /\ client = Asleep /\ requests < MaxRequests
    /\ requests' = requests + 1
    /\ Listed
    /\ LET e == Listing[wanted] IN
       client' = IF e = Nil \/ (e.url # Nil /\ img[e.path] = Nil)
                 THEN Asleep
                 ELSE [at |-> "send", entry |-> e, lag |-> behind',
                       total |-> IF e.url = Nil THEN e.size ELSE SizeOf(img[e.path]) + 1]
    /\ UNCHANGED <<img, side, moved, changes, have, tag, reading, raced>>

(* A change of ETag: no modification time.                                 *)
ETagOfSize(e) == IF e.digest # Nil THEN [pinned |-> TRUE, digest |-> e.digest]
                 ELSE [pinned |-> FALSE, size |-> e.size, mtime |-> Nil]

(* The validator: the digest somebody recorded, or the entry's size and    *)
(* the file's modification time.                                           *)
ETag(e) == IF e.digest # Nil THEN [pinned |-> TRUE, digest |-> e.digest]
           ELSE [pinned |-> FALSE, size |-> e.size, mtime |-> img[e.path]]

(* `send`: a part, where the client asks to resume, its validator still    *)
(* holds and the part exists; else all of it.                              *)
Send ==
    /\ client.at = "send"
    /\ LET e == client.entry
           resumes == tag # Nil /\ tag = ETag(e)
       IN IF resumes /\ Len(have) >= client.total
          THEN client' = Asleep /\ UNCHANGED <<have, tag>>
          ELSE /\ client' = [client EXCEPT !.at = "open"]
               /\ have' = IF resumes THEN have ELSE <<>>
               /\ tag' = ETag(e)
    /\ UNCHANGED <<catalogVars, reading, raced, requests>>

(* `produce`, in a task of its own, opens the file by its name.            *)
Opens ==
    /\ client.at = "open"
    /\ reading' = img[client.entry.path]
    /\ client' = IF reading' = Nil THEN Asleep ELSE [client EXCEPT !.at = "stream"]
    /\ UNCHANGED <<catalogVars, have, tag, raced, requests>>

(* A file shorter than was promised ends the answer early.                 *)
Streams ==
    /\ client.at = "stream" /\ Len(have) < client.total
    /\ LET e == client.entry IN
       IF Len(have) + 1 <= SizeOf(reading) + (IF e.url = Nil THEN 0 ELSE 1)
       THEN have' = Append(have, <<reading, e.url>>) /\ UNCHANGED <<client, reading>>
       ELSE client' = Asleep /\ reading' = Nil /\ UNCHANGED have
    /\ UNCHANGED <<catalogVars, tag, raced, requests>>

(* The connection breaks, or the transfer has taken MEDIA_TIMEOUT.         *)
CutOff ==
    /\ client.at \in {"open", "stream"} /\ Len(have) < client.total
    /\ client' = Asleep /\ reading' = Nil
    /\ UNCHANGED <<catalogVars, have, tag, raced, requests>>

Completes ==
    /\ client.at = "stream" /\ Len(have) = client.total
    /\ client' = [client EXCEPT !.at = "complete"]
    /\ UNCHANGED <<catalogVars, have, tag, reading, raced, requests>>

(* A file that is written over changes under who has it open; one that is  *)
(* renamed over does not.                                                  *)
Changes ==
    /\ \E i \in Id :
          \/ \E v \in Version, inPlace \in BOOLEAN :
                /\ Puts(i, v, inPlace)
                /\ reading' = IF inPlace /\ reading # Nil /\ client.entry.path = i
                              THEN v ELSE reading
          \/ Removes(i) /\ UNCHANGED reading
          \/ MediaAdd(i) /\ UNCHANGED reading
          \/ \E source \in Id, url \in Url : MediaPrepare(i, source, url) /\ UNCHANGED reading
    /\ raced' = (raced \/ client.at \in {"send", "open", "stream"})
    /\ UNCHANGED <<client, have, tag, requests>>

MediaNext ==
    /\ \/ Resolve \/ Send \/ Opens \/ Streams \/ CutOff \/ Completes
       \/ Changes
       \/ Tick /\ UNCHANGED <<client, have, tag, reading, raced, requests>>
    /\ UNCHANGED wanted

MediaSpec == MediaInit /\ [][MediaNext]_mediaVars

-----------------------------------------------------------------------------

Entries == [path : Id, size : {SizeOf(v) : v \in Version},
            digest : Version \cup {Nil}, url : Url \cup {Nil}]

Requests == {Asleep} \cup
    [at : {"send", "open", "stream", "complete"}, entry : Entries, lag : 0..Backstop, total : Nat]

MediaTypeOK ==
    /\ img \in [Id -> Version \cup {Nil}]
    /\ side \in [Id -> Sidecars \cup {Nil}]
    /\ cache \in [version : Nat, age : 0..Backstop, entries : [Id -> Entries \cup {Nil}]] \cup {Nil}
    /\ moved \in 0..changes /\ changes \in 0..MaxChanges
    /\ behind \in 0..Backstop
    /\ requests \in 0..MaxRequests
    /\ wanted \in Id /\ client \in Requests
    /\ have \in Seq((Version \cup {Nil}) \X (Url \cup {Nil}))
    /\ client.at \in {"open", "stream", "complete"} => Len(have) <= client.total
    /\ reading \in Version \cup {Nil} /\ (client.at = "stream" => reading # Nil)
    /\ raced \in BOOLEAN

(* What a request is answered from is what the directory held within the   *)
(* backstop, though a file written over or a coarse timestamp moves        *)
(* nothing the cache compares.                                             *)
ListingIsRecent == client.at = "send" => client.lag < Backstop

OneImage(units) == \A j, k \in 1..Len(units) : units[j] = units[k]

(* A download of an image as it is, put together over any number of        *)
(* answers, is of one version of it, however often it was replaced between *)
(* them, as long as it was not replaced while one was being made.          *)
DownloadIsOneImage ==
    client.at = "complete" /\ ~raced /\ ~tag.pinned
    /\ (\A j \in 1..Len(have) : have[j][2] = Nil) => OneImage(have)

=============================================================================
