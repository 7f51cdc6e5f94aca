------------------------------- MODULE Published -------------------------------
(***************************************************************************)
(* What a vendor publishes of its images: the checksum index (sources.rs). *)
(***************************************************************************)
EXTENDS Integers, Sequences, SequencesExt, FiniteSets

Digits == [d \in {"1", "2", "9"} |-> CASE d = "1" -> 1 [] d = "2" -> 2 [] d = "9" -> 9]
IsDigit(c) == c \in DOMAIN Digits

(* Of the characters of a name, the order of those a comparison meets.     *)
TextRank == [c \in {"-", ".", "p", "q"} |->
                CASE c = "-" -> 1 [] c = "." -> 2 [] c = "p" -> 3 [] c = "q" -> 4]

(* A name in runs: <<"text", s>> and <<"number", n>>.                      *)
Natural(name) ==
    LET add(chunks, c) ==
            LET grows == chunks # <<>> /\ Last(chunks)[1] = (IF IsDigit(c) THEN "number" ELSE "text")
                front == IF grows THEN Front(chunks) ELSE chunks
                n == IF grows THEN Last(chunks)[2] ELSE 0
                s == IF grows THEN Last(chunks)[2] ELSE <<>>
            IN  Append(front, IF IsDigit(c) THEN <<"number", 10 * n + Digits[c]>>
                              ELSE <<"text", Append(s, c)>>)
    IN  FoldLeft(add, <<>>, name)

TextBefore(s, t) ==
    \E i \in DOMAIN t : /\ \A j \in 1 .. i - 1 : j <= Len(s) /\ s[j] = t[j]
                        /\ i > Len(s) \/ TextRank[s[i]] < TextRank[t[i]]

ChunkBefore(a, b) ==
    \/ a[1] = "text" /\ b[1] = "number"
    \/ a[1] = "text" /\ b[1] = "text" /\ TextBefore(a[2], b[2])
    \/ a[1] = "number" /\ b[1] = "number" /\ a[2] < b[2]

ChunksBefore(s, t) ==
    \E i \in DOMAIN t : /\ \A j \in 1 .. i - 1 : j <= Len(s) /\ s[j] = t[j]
                        /\ i > Len(s) \/ ChunkBefore(s[i], t[i])

(* parse_index: a line is a digest with a name, in either of two forms, or *)
(* it is passed over.                                                      *)
ParseIndex(lines) == SelectSeq(lines, LAMBDA l : l.form \in {"bsd", "coreutils"} /\ l.digest # "short")

(* The images of it that are kept, the newest first.                       *)
Offers(lines, keep) ==
    LET kept == SelectSeq(ParseIndex(lines), LAMBDA l : l.image /\ IsPrefix(keep, l.name))
        offers == [i \in DOMAIN kept |-> [name |-> kept[i].name, digest |-> kept[i].digest]]
    IN  SortSeq(offers, LAMBDA a, b : ChunksBefore(Natural(b.name), Natural(a.name)))
=============================================================================
