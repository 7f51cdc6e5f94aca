-------------------------------- MODULE Fetch --------------------------------
(***************************************************************************)
(* `media add URL` (boot/fetch.rs and media_add in cli.rs): an image is    *)
(* downloaded by an outside tool onto a partial file, which takes its name *)
(* only once its digest matches, and is then recorded in a sidecar. A file *)
(* is the sequence of the units written to it, each of a source and a      *)
(* position; the tool appends, from wherever the partial file ends.        *)
(***************************************************************************)
EXTENDS Integers, Sequences, FiniteSets

CONSTANTS Fetcher,      \* commands fetching one name into one directory
          Wanted,       \* the source whose digest is the expected one
          Other,        \* another: a wrong URL, a mirror that is not what it claims
          Units,        \* the length of either
          MaxFetches    \* bounds the commands of a behaviour

ASSUME FetchAssumption == Units \in Nat /\ MaxFetches \in Nat

VARIABLES part,     \* the partial file; Absent is no file
          image,    \* the file the catalogue sees
          sidecar,  \* the file whose digest is recorded beside it
          fetcher,  \* each command's position, source, and what it expects
          fd,       \* where the file each downloader writes to is now
          fetches,
          checked,  \* whether the image was published against a digest
          shared    \* whether two commands ever ran at once

fetchVars == <<part, image, sidecar, fetcher, fd, fetches, checked, shared>>

Absent == <<<<"none", 0>>>>
Whole(source) == [i \in 1..Units |-> <<source, i>>]
Resting == [at |-> "idle"]

FetchInit ==
    /\ part = Absent /\ image = Absent /\ sidecar = Absent
    /\ fetcher = [f \in Fetcher |-> Resting]
    /\ fd = [f \in Fetcher |-> "none"]
    /\ fetches = 0
    /\ checked = FALSE /\ shared = FALSE

Moves(f, at) == fetcher' = [fetcher EXCEPT ![f].at = at]
Stops(f) == fetcher' = [fetcher EXCEPT ![f] = Resting]
Closes(f) == fd' = [fd EXCEPT ![f] = "none"]
Elsewhere(from, to) == fd' = [g \in Fetcher |-> IF fd[g] = from THEN to ELSE fd[g]]

(* A URL wants a digest, or --unverified; an image that is there is left.  *)
Begin(f) ==
    /\ fetcher[f] = Resting /\ fetches < MaxFetches
    /\ fetches' = fetches + 1
    /\ image = Absent
    /\ \E source \in {Wanted, Other}, expected \in BOOLEAN :
          fetcher' = [fetcher EXCEPT ![f] =
              [at |-> "start", source |-> source, expected |-> expected, next |-> 0]]
    /\ shared' = (shared \/ \E g \in Fetcher : fetcher[g] # Resting)
    /\ UNCHANGED <<part, image, sidecar, fd, checked>>

(* The tool resumes from the end of the partial file.                      *)
StartTool(f) ==
    /\ fetcher[f].at = "start"
    /\ part' = IF part = Absent THEN <<>> ELSE part
    /\ fd' = [fd EXCEPT ![f] = "part"]
    /\ fetcher' = [fetcher EXCEPT ![f].at = "run", ![f].next = Len(part') + 1]
    /\ UNCHANGED <<image, sidecar, fetches, checked, shared>>

Receive(f) ==
    /\ fetcher[f].at = "run" /\ fetcher[f].next <= Units
    /\ LET unit == <<fetcher[f].source, fetcher[f].next>> IN
       /\ part' = IF fd[f] = "part" THEN Append(part, unit) ELSE part
       /\ image' = IF fd[f] = "image" THEN Append(image, unit) ELSE image
    /\ fetcher' = [fetcher EXCEPT ![f].next = @ + 1]
    /\ UNCHANGED <<sidecar, fd, fetches, checked, shared>>

(* The tool succeeds with all of it. It may give up at any point: a lost   *)
(* connection, a server that cannot resume (33), or nothing left to ask    *)
(* for; the partial file is left for the next attempt.                     *)
ToolEnds(f) ==
    /\ fetcher[f].at = "run"
    /\ Closes(f)
    /\ \/ fetcher[f].next > Units /\ Moves(f, "measure")
       \/ Stops(f)
    /\ UNCHANGED <<part, image, sidecar, fetches, checked, shared>>

(* A source may also have nothing in it; an empty file is removed.         *)
ToolEndsEmpty(f) ==
    /\ fetcher[f].at = "run" /\ part = <<>> /\ fd[f] = "part"
    /\ Closes(f)
    /\ Moves(f, "measure")
    /\ UNCHANGED <<part, image, sidecar, fetches, checked, shared>>

Measure(f) ==
    /\ fetcher[f].at = "measure"
    /\ IF part \in {Absent, <<>>}
       THEN part' = Absent /\ Elsewhere("part", "gone") /\ Stops(f)
       ELSE UNCHANGED <<part, fd>> /\ Moves(f, "verify")
    /\ UNCHANGED <<image, sidecar, fetches, checked, shared>>

(* A change of Verify: a file of the right length will do.                 *)
VerifyLength(f) ==
    /\ fetcher[f].at = "verify"
    /\ IF ~fetcher[f].expected \/ Len(part) = Units
       THEN UNCHANGED <<part, fd>> /\ Moves(f, "publish")
       ELSE part' = Absent /\ Elsewhere("part", "gone") /\ Stops(f)
    /\ UNCHANGED <<image, sidecar, fetches, checked, shared>>

(* A mismatch destroys the partial file.                                   *)
Verify(f) ==
    /\ fetcher[f].at = "verify"
    /\ IF ~fetcher[f].expected \/ part = Whole(Wanted)
       THEN UNCHANGED <<part, fd>> /\ Moves(f, "publish")
       ELSE part' = Absent /\ Elsewhere("part", "gone") /\ Stops(f)
    /\ UNCHANGED <<image, sidecar, fetches, checked, shared>>

Publish(f) ==
    /\ fetcher[f].at = "publish"
    /\ IF part = Absent
       THEN UNCHANGED <<part, image, fd, checked>> /\ Stops(f)
       ELSE /\ image' = part /\ part' = Absent
            /\ fd' = [g \in Fetcher |-> IF fd[g] = "image" THEN "gone"
                                        ELSE IF fd[g] = "part" THEN "image" ELSE fd[g]]
            /\ checked' = fetcher[f].expected
            /\ Moves(f, "record")
    /\ UNCHANGED <<sidecar, fetches, shared>>

(* media_add reads the image once more and writes down what it read.       *)
Record(f) ==
    /\ fetcher[f].at = "record"
    /\ sidecar' = IF image # Absent /\ (fetcher[f].expected => image = Whole(Wanted))
                  THEN image ELSE sidecar
    /\ Stops(f)
    /\ UNCHANGED <<part, image, fd, fetches, checked, shared>>

(* A change of Killed: the tool goes on.                                   *)
KilledAlone(f) ==
    /\ fetcher[f] # Resting
    /\ Stops(f)
    /\ UNCHANGED <<part, image, sidecar, fd, fetches, checked, shared>>

(* Killed at any step, the tool with it.                                   *)
Killed(f) ==
    /\ fetcher[f] # Resting
    /\ Stops(f) /\ Closes(f)
    /\ UNCHANGED <<part, image, sidecar, fetches, checked, shared>>

(* The operator removes the partial file, or the image and its sidecar.    *)
Clears ==
    /\ \/ /\ part # Absent
          /\ part' = Absent /\ Elsewhere("part", "gone")
          /\ UNCHANGED <<image, sidecar>>
       \/ /\ image # Absent
          /\ image' = Absent /\ sidecar' = Absent /\ Elsewhere("image", "gone")
          /\ UNCHANGED part
    /\ UNCHANGED <<fetcher, fetches, checked, shared>>

FetchNext ==
    \/ \E f \in Fetcher :
          \/ Begin(f) \/ StartTool(f) \/ Receive(f) \/ ToolEnds(f) \/ ToolEndsEmpty(f)
          \/ Measure(f) \/ Verify(f) \/ Publish(f) \/ Record(f) \/ Killed(f)
    \/ Clears

FetchSpec == FetchInit /\ [][FetchNext]_fetchVars

-----------------------------------------------------------------------------

(* A file holds units of one source or the other, or is not there.         *)
Files == {Absent} \cup Seq({Wanted, Other} \X (1..Units))

Fetching ==
    [at : {"start"}, source : {Wanted, Other}, expected : BOOLEAN, next : {0}]
    \cup [at : {"run", "measure", "verify", "publish", "record"},
          source : {Wanted, Other}, expected : BOOLEAN, next : Nat \ {0}]

FetchTypeOK ==
    /\ part \in Files /\ image \in Files /\ sidecar \in Files
    /\ fetcher \in [Fetcher -> {Resting} \cup Fetching]
    /\ fd \in [Fetcher -> {"none", "part", "image", "gone"}]
    /\ \A f \in Fetcher : fd[f] # "none" <=> fetcher[f].at = "run"
    /\ (\E f \in Fetcher : fd[f] = "part") => part # Absent
    /\ (\E f \in Fetcher : fd[f] = "image") => image # Absent
    /\ fetches \in 0..MaxFetches
    /\ checked \in BOOLEAN /\ shared \in BOOLEAN

(* "A partial download must never become a catalogue entry": unless two    *)
(* commands fetched one name at once, an image that was fetched against a  *)
(* digest is the file of that digest for as long as it is there, whatever  *)
(* was left on the partial file by earlier attempts, other sources and     *)
(* kills; and so is the one whose digest is recorded.                      *)
PublishedIsVerified ==
    ~shared /\ checked =>
        image \in {Absent, Whole(Wanted)} /\ (image # Absent => sidecar \in {Absent, image})

=============================================================================
