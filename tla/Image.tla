-------------------------------- MODULE Image --------------------------------
(***************************************************************************)
(* One file added to an ISO9660 image while it is served: what a reader    *)
(* finds in it (boot/iso.rs), and the plan of a few overwrites and a tail  *)
(* that adds it (boot/patch.rs).                                           *)
(*                                                                         *)
(* A cell of an image is one of padding, of a directory record (in the     *)
(* first of the cells it takes up), of a descriptor's count of sectors, or *)
(* of content.                                                             *)
(***************************************************************************)
EXTENDS Plan, SequencesExt, FiniteSets

CONSTANTS Sector,    \* cells in a sector
          Header,    \* the least cells of a record
          Limit      \* the most cells that are added

Rest == [c |-> "rest"]   \* a cell of a record that is not its first
Content(name, i) == [c |-> "content", of |-> name, i |-> i]
Blocks(n) == [c |-> "blocks", n |-> n]

(* A record by the names it carries: the Rock Ridge one may be "".         *)
RecordOf(iso, rr, len, at, size) ==
    <<[c |-> "record", iso |-> iso, rr |-> rr, len |-> len, at |-> at, size |-> size]>>
        \o [i \in 1 .. len - 1 |-> Rest]

At(s, i) == s[i + 1]
Cut(s, from, n) == SubSeq(s, from + 1, from + n)

----------------------------------------------------------------------------
(* Reading: the records of a directory [at, size] *)

RECURSIVE Walk(_, _, _)
Walk(cells, dir, i) ==
    IF i + Header > dir.size THEN <<>>
    ELSE LET r == At(cells, dir.at + i)
         IN  IF r.c # "record" THEN Walk(cells, dir, (i \div Sector + 1) * Sector)
             ELSE IF i + r.len > dir.size THEN <<>>
             ELSE <<r>> \o Walk(cells, dir, i + r.len)

Entries(cells, dir) == Walk(cells, dir, 0)

(* The first record that answers to a name, in either spelling.            *)
Locate(cells, dir, name) ==
    SelectSeq(Entries(cells, dir), LAMBDA r : r.rr = name \/ r.iso = name)

----------------------------------------------------------------------------
(* Patching. An image is                                                   *)
(*   [cells, root, joliet, rockRidge, udf, pvd, svd]                       *)
(* with `joliet` and `svd` sequences of at most one.                       *)

(* A change of Room: the extent as a whole, not sector by sector.          *)
RoomAnywhere(dir, i, need) == i + need <= dir.size

(* A record may not cross a sector's end.                                  *)
Room(dir, i, need) == Least((i \div Sector + 1) * Sector, dir.size) - i >= need

RECURSIVE Slack(_, _, _, _)
Slack(cells, dir, i, need) ==
    LET sector == (i \div Sector) * Sector
        next == sector + Sector
        free == i + Header > Least(next, dir.size) \/ At(cells, dir.at + i).c # "record"
    IN  IF i >= dir.size THEN <<>>
        ELSE IF free THEN IF Room(dir, i, need) THEN <<dir.at + i>>
                          ELSE Slack(cells, dir, next, need)
        ELSE LET len == At(cells, dir.at + i).len
             IN  IF i + len > Least(next, dir.size) THEN <<>>   \* overruns its sector
                 ELSE IF i + len = next THEN Slack(cells, dir, next, need)
                 ELSE Slack(cells, dir, i + len, need)

(* The plan, or nothing where the image or the file is refused. Overwrites *)
(* are [at, cells].                                                        *)
AddFile(img, name, n) ==
    LET len == Len(img.cells)
        at == (len \div Sector) * Sector   \* addressed by the sector
        content == [i \in 1 .. n |-> Content(name, i)]
        blocks == Blocks((len + Ceil(n, Sector)) \div Sector)
        inIso == RecordOf("MANGLED", name, Header + 2, at, n)
        inJoliet == RecordOf(name, "", Header + 1, at, n)
        isoAt == IF img.rockRidge THEN Slack(img.cells, img.root, 0, Len(inIso)) ELSE <<0>>
        jolietAt == IF img.joliet # <<>> THEN Slack(img.cells, img.joliet[1], 0, Len(inJoliet)) ELSE <<0>>
    IN  IF \/ img.udf
           \/ ~ img.rockRidge /\ img.joliet = <<>>
           \/ len = 0 \/ len % Sector # 0
           \/ n > Limit
           \/ isoAt = <<>> \/ jolietAt = <<>>
        THEN <<>>
        ELSE <<[source |-> img.cells,
                overwrites |->
                    (IF img.rockRidge THEN <<[at |-> isoAt[1], cells |-> inIso]>> ELSE <<>>)
                    \o (IF img.joliet # <<>> THEN <<[at |-> jolietAt[1], cells |-> inJoliet]>> ELSE <<>>)
                    \o <<[at |-> img.pvd, cells |-> <<blocks>>]>>
                    \o (IF img.svd # <<>> THEN <<[at |-> img.svd[1], cells |-> <<blocks>>]>> ELSE <<>>),
                tail |-> content \o Pads(Ceil(n, Sector) - n)]>>

----------------------------------------------------------------------------
(* What is promised *)

(* The added file is found with its content, in each tree there is, and    *)
(* what was there is found as it was: unless one of its name was there,    *)
(* which a reader still comes upon first.                                  *)
ReadersFindIt(img, plan, name, n) ==
    LET cells == Patched(plan)
        found(dir, was) ==
            /\ Range(Entries(img.cells, dir)) \subseteq Range(Entries(cells, dir))
            /\ was = <<>> =>
                  LET it == Locate(cells, dir, name)
                  IN  /\ Len(it) = 1 /\ it[1].size = n
                      /\ Cut(cells, it[1].at, n) = [i \in 1 .. n |-> Content(name, i)]
            /\ \A r \in {e \in Range(Entries(img.cells, dir)) : e.iso # "."} :
                  Cut(cells, r.at, r.size) = Cut(img.cells, r.at, r.size)
    IN  /\ img.rockRidge => found(img.root, Locate(img.cells, img.root, name))
        /\ img.joliet # <<>> => found(img.joliet[1], Locate(img.cells, img.joliet[1], name))
        /\ At(cells, img.pvd) = Blocks(Len(cells) \div Sector)
        /\ img.svd # <<>> => At(cells, img.svd[1]) = Blocks(Len(cells) \div Sector)
=============================================================================
