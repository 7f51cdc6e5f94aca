------------------------------ MODULE Streaming ------------------------------
(***************************************************************************)
(* One answer of the media listener, chunk by chunk (`send`, `produce` and *)
(* `stream_patched` of boot/media.rs): what its head promises, and the     *)
(* body as the client gets it. What a read gives is the system's choice,   *)
(* and any of them may find that the file ended before its time, or that   *)
(* the client is gone.                                                     *)
(***************************************************************************)
EXTENDS Plan

CONSTANTS Cell,      \* what files and overwrites are made of
          Files, Plans,
          Extents,   \* the [offset, size] of what is served of a file
          Ranges,    \* the headers a client sends
          ChunkSize  \* cells read at a time

IsPlan(p) ==
    /\ p.source \in Seq(Cell) /\ p.tail \in Seq(Cell)
    /\ p.overwrites \in Seq([at : Nat, cells : Seq(Cell)])

ASSUME StreamAssumption ==
    /\ Pad \in Cell
    /\ Files \subseteq Seq(Cell)
    /\ \A p \in Plans : IsPlan(p)
    /\ Extents \subseteq [offset : Nat, size : Nat]
    /\ Ranges \subseteq [first : Int, last : Int]
    /\ ChunkSize \in Nat \ {0}

Part(f, x) == FileSegment(0, f, x.offset, x.size)

(* `resolve`: a file or part of one, a patched image, or an archive, which *)
(* nothing resumes.                                                        *)
Sources ==
    {[segments |-> <<Part(f, x)>>, resumable |-> TRUE] : f \in Files, x \in Extents}
        \cup {[segments |-> <<PlanSegment(p, 0, PlanLen(p))>>, resumable |-> TRUE] : p \in Plans}
        \cup {[segments |-> InitrdIso(Part(f, x), image, y.size), resumable |-> FALSE] :
                 f \in Files, x \in Extents, image \in Files, y \in {e \in Extents : e.offset = 0}}

VARIABLES source, range,
          raced,     \* whether the range came with a validator that is no longer true
          head,      \* whether only the head is asked for
          status, start, length,  \* what the head of the answer says
          segments,  \* what is to be sent,
          current,   \* the one of it that is being sent,
          body,      \* and what was
          ended      \* "whole", "cut", or "no" while it goes on

streamVars == <<source, range, raced, head, status, start, length, segments, current, body, ended>>

StreamBegins ==
    /\ status = 0 /\ start = 0 /\ length = 0
    /\ segments = <<>> /\ current = 1 /\ body = <<>>
    /\ ended = "no"

StreamInit ==
    /\ source \in Sources /\ range \in Ranges /\ raced \in BOOLEAN /\ head \in BOOLEAN
    /\ StreamBegins

-----------------------------------------------------------------------------
Asks == source.resumable /\ ~raced /\ range # NoRange
PartAsked ==
    LET total == Total(source.segments)
    IN  IF Asks THEN ParseRange(range, total) ELSE <<0, total>>

(* `send`, up to the body.                                                 *)
Refuse ==
    /\ status = 0 /\ PartAsked = <<>>
    /\ status' = 416 /\ ended' = "whole"
    /\ UNCHANGED <<start, length, segments, current, body>>

Announce ==
    /\ status = 0 /\ PartAsked # <<>>
    /\ status' = IF Asks /\ Understood(range) THEN 206 ELSE 200
    /\ start' = PartAsked[1] /\ length' = PartAsked[2]
    /\ segments' = IF Asks /\ Understood(range)
                   THEN <<Slice(source.segments[1], PartAsked[1], PartAsked[2])>> ELSE source.segments
    /\ ended' = IF head THEN "head" ELSE "no"
    /\ UNCHANGED <<current, body>>

Sending == status \in {200, 206} /\ ended = "no"
InSegment ==
    /\ Sending /\ current <= Len(segments)
    /\ Len(body) < segments[current].from + segments[current].length
Offset == Len(body) - segments[current].from
Left == segments[current].length - Offset

Chunks == 1 .. Least(Left, ChunkSize)

SendFile ==
    /\ InSegment /\ segments[current].kind = "file"
    /\ LET s == segments[current]
       IN  \E n \in Chunks :
              /\ s.offset + Offset + n <= Len(s.cells)
              /\ body' = body \o [i \in 1 .. n |-> s.cells[s.offset + Offset + i]]
    /\ UNCHANGED <<current, ended>>

(* "Short of what the catalogue promised": the body ends early.            *)
FileEnds ==
    /\ InSegment /\ segments[current].kind = "file"
    /\ segments[current].offset + Offset >= Len(segments[current].cells)
    /\ ended' = "cut"
    /\ UNCHANGED <<current, body>>

SendPatched ==
    /\ InSegment /\ segments[current].kind = "plan"
    /\ LET s == segments[current]
       IN  body' = body \o ReadAt(s.plan, s.offset + Offset, Least(Left, ChunkSize))
    /\ UNCHANGED <<current, ended>>

SendBytes ==
    /\ InSegment /\ segments[current].kind = "bytes"
    /\ body' = body \o segments[current].cells
    /\ UNCHANGED <<current, ended>>

NextSegment ==
    /\ Sending /\ current <= Len(segments)
    /\ Len(body) >= segments[current].from + segments[current].length
    /\ current' = current + 1
    /\ UNCHANGED <<body, ended>>

Finish ==
    /\ Sending /\ current > Len(segments)
    /\ ended' = "whole"
    /\ UNCHANGED <<current, body>>

(* A read fails, or the client hangs up.                                   *)
CutOff ==
    /\ Sending
    /\ ended' = "cut"
    /\ UNCHANGED <<current, body>>

StreamNext ==
    /\ \/ Refuse \/ Announce
       \/ (SendFile \/ FileEnds \/ SendPatched \/ SendBytes \/ NextSegment \/ Finish \/ CutOff)
             /\ UNCHANGED <<status, start, length, segments>>
    /\ UNCHANGED <<source, range, raced, head>>

StreamSpec == StreamInit /\ [][StreamNext]_streamVars

-----------------------------------------------------------------------------
StreamTypeOK ==
    /\ source \in Sources /\ range \in Ranges /\ raced \in BOOLEAN /\ head \in BOOLEAN
    /\ status \in {0, 200, 206, 416}
    /\ start \in Nat /\ length \in Nat
    /\ body \in Seq(Cell) /\ Len(body) <= length
    /\ current \in 1 .. Len(segments) + 1
    /\ ended \in {"no", "head", "whole", "cut"}

(* What a segment stands for, one cell of it at a time.                    *)
CellOf(s, i) == IF s.kind = "plan" THEN Patched(s.plan)[s.offset + i] ELSE s.cells[s.offset + i]

(* What a client has is a beginning of the part its answer is of, of every *)
(* segment what it stands for, of a patched image as if it had been        *)
(* written out; and a body that ends in good order has as much of it as    *)
(* was announced (`slice`, `stream_patched`, `produce`, `read_at`).        *)
BodyIsThePart ==
    /\ \A j \in DOMAIN source.segments :
          LET s == source.segments[j]
          IN  \A i \in 1 .. s.length :
                 s.from + i - start \in 1 .. Len(body) => body[s.from + i - start] = CellOf(s, i)
    /\ ended = "whole" /\ status # 416 => Len(body) = length

(* The part is the one the header asks for, and as much of it as there is: *)
(* no byte of it is left out, none past the end is announced, and only     *)
(* what has no byte is refused (`parse_range`).                            *)
RangeIsAsAsked ==
    LET total == Total(source.segments)
    IN  /\ status = 200 => start = 0 /\ length = total /\ (Asks => ~Understood(range))
        /\ status = 206 =>
              /\ Asks /\ Understood(range) /\ length > 0 /\ start + length <= total
              /\ range.first >= 0 => start = range.first
              /\ range.first < 0 => start + length = total /\ length = Least(range.last, total)
              /\ range.first >= 0 /\ range.last < 0 => start + length = total
              /\ range.first >= 0 /\ range.last >= 0 => start + length = Least(range.last + 1, total)
        /\ status = 416 =>
              Asks /\ (total = 0 \/ range.first >= total \/ (range.last >= 0 /\ range.last < range.first)
                         \/ (range.first < 0 /\ range.last = 0))

(* An initrd with an archive after it: counted from the archive's first    *)
(* byte, the image and the trailer begin on a boundary of four.            *)
Aligned(s) ==
    LET archive == s[1].length
    IN  (s[3].from - archive) % 4 = 0 /\ (s[Len(s)].from - archive) % 4 = 0

(* The archive after an initrd is laid out as its format has it, whatever  *)
(* the sizes of the initrd and the image (`align4`, boot/cpio.rs). Nothing *)
(* is put between the two: only where the initrd itself ends on a boundary *)
(* of four are these places boundaries of what is sent as well.            *)
ArchiveIsAligned ==
    LET s == source.segments
    IN  Len(s) > 1 =>
          /\ Aligned(s)
          /\ s[1].length % 4 = 0 => s[3].from % 4 = 0 /\ s[Len(s)].from % 4 = 0

(* All of that: an answer is served as it was asked for, to the last byte  *)
(* of it that is sent (boot/media.rs).                                     *)
ServedAsAsked == BodyIsThePart /\ RangeIsAsAsked /\ ArchiveIsAligned

=============================================================================
