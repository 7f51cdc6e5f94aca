--------------------------------- MODULE Plan ---------------------------------
(***************************************************************************)
(* What the media listener makes of an image: the plan of a patched one, a *)
(* few overwrites and a tail (`Plan` of boot/patch.rs), what is put around *)
(* one in an initrd (boot/cpio.rs), the segments that are sent and the     *)
(* part of them that a range asks for (boot/media.rs).                     *)
(*                                                                         *)
(* A file is a sequence of cells, of bytes what matters of them. Offsets   *)
(* count cells from zero. A plan is [source, overwrites, tail], the first  *)
(* and the last of them cells, an overwrite [at, cells].                   *)
(***************************************************************************)
EXTENDS Integers, Sequences

Pad == [c |-> "pad"]

Pads(n) == [i \in 1 .. n |-> Pad]
Least(m, n) == IF m < n THEN m ELSE n
Most(m, n) == IF m > n THEN m ELSE n
Ceil(n, d) == ((n + d - 1) \div d) * d

----------------------------------------------------------------------------
PlanLen(plan) == Len(plan.source) + Len(plan.tail)

(* Where in the tail a window begins. A change of it: always at its start. *)
TailFromItsStart(plan, offset) == 0
TailStart(plan, offset) == Most(offset - Len(plan.source), 0)

(* What of a window an overwrite is copied over, as a pair of numbers      *)
(* between which the cells of the buffer are.                              *)
Over(o, offset, want) ==
    <<Most(o.at, offset) - offset, Least(o.at + Len(o.cells), offset + want) - offset>>

(* Which of the overwrites comes last over a cell, when those in a set do. *)
Latest(those) == CHOOSE k \in those : \A j \in those : j <= k

(* read_at: the source's part of a window, then the tail's, "zero" past    *)
(* it, and on top of them the overwrites, one after the other.             *)
ReadAt(plan, offset, n) ==
    LET want == Most(Least(n, PlanLen(plan) - offset), 0)
        fromSource == Least(Most(Len(plan.source) - offset, 0), want)
        inTail(i) == TailStart(plan, offset) + i - fromSource
        bare(i) == IF i <= fromSource THEN plan.source[offset + i]
                   ELSE IF inTail(i) <= Len(plan.tail) THEN plan.tail[inTail(i)] ELSE Pad
        over(k) == Over(plan.overwrites[k], offset, want)
        those(i) == {k \in DOMAIN plan.overwrites : over(k)[1] < i /\ i <= over(k)[2]}
        put(i) == LET o == plan.overwrites[Latest(those(i))]
                  IN  o.cells[Most(o.at, offset) - o.at + i - (Most(o.at, offset) - offset)]
    IN  [i \in 1 .. want |-> IF those(i) = {} THEN bare(i) ELSE put(i)]

(* The patched image as a whole: the tail after the source, and every      *)
(* overwrite in its place.                                                 *)
Patched(plan) ==
    [i \in 1 .. PlanLen(plan) |->
        LET covers(o) == i - 1 \in o.at .. o.at + Len(o.cells) - 1
            those == {k \in DOMAIN plan.overwrites : covers(plan.overwrites[k])}
            o == plan.overwrites[Latest(those)]
        IN  IF those # {} THEN o.cells[i - o.at]
            ELSE IF i <= Len(plan.source) THEN plan.source[i]
            ELSE plan.tail[i - Len(plan.source)]]

----------------------------------------------------------------------------
(* A member of a cpio archive around content of a size: what goes before   *)
(* it, and after.                                                          *)
Member(nameLen, size) ==
    [prefix |-> Ceil(110 + nameLen + 1, 4), padding |-> Ceil(size, 4) - size]

Trailer == Ceil(Member(10, 0).prefix, 512)

----------------------------------------------------------------------------
(* Segments of a file, of a plan, or made up, each with `from`, where in   *)
(* what is sent it begins: after the lengths of those before it.           *)

FileSegment(from, cells, offset, length) ==
    [kind |-> "file", from |-> from, cells |-> cells, offset |-> offset, length |-> length]
PlanSegment(plan, start, length) ==
    [kind |-> "plan", from |-> 0, plan |-> plan, offset |-> start, length |-> length]
Bytes(from, cells) ==
    [kind |-> "bytes", from |-> from, cells |-> cells, offset |-> 0, length |-> Len(cells)]

Total(segments) == segments[Len(segments)].from + segments[Len(segments)].length

(* Wanted of a header [first, last]: each a number, or -1 where it is left *)
(* out, both of them where no number could be read; and -2 for no header,  *)
(* or one that has several ranges. Nothing of what is empty can be had.    *)
NoRange == [first |-> -2, last |-> -2]
Understood(r) == r.first >= 0 \/ r.last >= 0

AtMost(n, total) == Least(n, total)

ParseRange(r, total) ==
    IF total = 0 THEN <<>>
    ELSE IF ~Understood(r) THEN <<0, total>>
    ELSE IF r.first < 0
    THEN IF r.last = 0 THEN <<>> ELSE <<total - Least(r.last, total), AtMost(r.last, total)>>
    ELSE IF r.first >= total \/ (r.last >= 0 /\ r.last < r.first) THEN <<>>
    ELSE <<r.first, (IF r.last < 0 THEN total ELSE AtMost(r.last + 1, total)) - r.first>>

(* A range narrows a file's segment, and moves a plan's window.            *)
Slice(segment, start, length) == [segment EXCEPT !.offset = @ + start, !.length = length]

(* An image, of the size the catalogue has, after an initrd: as a member   *)
(* of an archive of its own.                                               *)
InitrdIso(initrd, image, size) ==
    LET m == Member(11, size)
        imageAt == initrd.length + m.prefix
        padAt == imageAt + size
    IN  <<initrd, Bytes(initrd.length, Pads(m.prefix)), FileSegment(imageAt, image, 0, size)>>
           \o (IF m.padding > 0 THEN <<Bytes(padAt, Pads(m.padding))>> ELSE <<>>)
           \o <<Bytes(padAt + m.padding, Pads(Trailer))>>
=============================================================================
