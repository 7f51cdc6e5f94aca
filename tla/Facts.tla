-------------------------------- MODULE Facts --------------------------------
(***************************************************************************)
(* What a request says of the machine that sends it (facts.rs): labels     *)
(* with their values, and a haystack in which a document's name is looked  *)
(* for. A text is a sequence of characters, words of which are one, and of *)
(* upper case there is one letter.                                         *)
(***************************************************************************)
EXTENDS Integers, Sequences, SequencesExt, FiniteSets

Punctuation == {"-", ":", "/", "ctl"}
Wildcard == {"*", "?"}
Lower(c) == IF c = "A" THEN "a" ELSE c

Normalize(text) ==
    LET kept == SelectSeq(text, LAMBDA c : c \notin Punctuation \cup Wildcard)
    IN  [i \in DOMAIN kept |-> Lower(kept[i])]

(* A pattern keeps its wildcards.                                          *)
NormalizePattern(text) ==
    LET kept == SelectSeq(text, LAMBDA c : c \notin Punctuation)
    IN  [i \in DOMAIN kept |-> Lower(kept[i])]

----------------------------------------------------------------------------
(* What `glob` promises, and module Glob shows of it: the text can be cut  *)
(* into the pieces of the pattern. A cut says where in the text each place *)
(* of the pattern begins.                                                  *)

OnePiece(c, t, from, to) ==
    IF c = "*" THEN from <= to
    ELSE to = from + 1 /\ from <= Len(t) /\ c \in {"?", t[from]}

(* What is left of the pattern from i on matches the text from j on.       *)
MatchesFrom(p, t, i, j) ==
    \E cut \in [i .. Len(p) + 1 -> 1 .. Len(t) + 1] :
        /\ cut[i] = j /\ cut[Len(p) + 1] = Len(t) + 1
        /\ \A k \in i .. Len(p) : OnePiece(p[k], t, cut[k], cut[k + 1])

GlobMatches(p, t) == MatchesFrom(p, t, 1, 1)

----------------------------------------------------------------------------
(* Facts: [haystack, labels], labels a sequence of <<key, value>> in the   *)
(* order they were found, a key being the path to it                       *)

Add(labels, key, value) ==
    IF key = <<>> \/ value = <<>> \/ Contains(labels, <<key, value>>) THEN labels
    ELSE Append(labels, <<key, value>>)

Values(facts, key) ==
    LET those == SelectSeq(facts.labels, LAMBDA l : l[1] = key)
    IN  [i \in DOMAIN those |-> those[i][2]]

(* The last name on a path, which an index into an array is not.           *)
LeafName(path) ==
    LET names == SelectSeq(path, LAMBDA s : s # "0")
    IN  IF names = <<>> THEN <<>> ELSE <<Last(names)>>

Flatten(labels, leaf) ==
    Add(Add(labels, leaf[1], leaf[2]), LeafName(leaf[1]), leaf[2])

(* What the text of a JSON document shows of one of its scalars: the keys  *)
(* on the way to it, an index not being one, and itself.                   *)
Shows(leaf) == SelectSeq(leaf[1], LAMBDA s : s # "0") \o leaf[2]

(* A request has a path, a query and, in its body, the scalars of a JSON   *)
(* document, or something else that is only looked through.                *)
FromRequest(r) ==
    LET joined == FoldLeft(LAMBDA text, s : text \o <<"/">> \o s, Head(r.path), Tail(r.path))
        segments == FoldLeft(LAMBDA ls, s : Add(ls, <<"segment">>, s),
                             IF r.path = <<>> THEN <<>>
                             ELSE << <<<<"path">>, joined>>, <<<<"file">>, Last(r.path)>> >>, r.path)
        asked == FoldLeft(LAMBDA ls, q : Add(ls, <<q[1]>>, q[2]), segments, r.query)
        words(texts) == FlattenSeq([i \in DOMAIN texts |-> Normalize(texts[i])])
    IN  [haystack |-> words([i \in DOMAIN r.body |-> Shows(r.body[i])]) \o Normalize(r.raw) \o words(r.path)
                        \o words([i \in DOMAIN r.query |-> r.query[i][2]]),
         labels |-> FoldLeft(Flatten, asked, r.body)]

Matches(facts, key, pattern) ==
    LET values == Values(facts, key)
    IN  \E i \in DOMAIN values : GlobMatches(NormalizePattern(pattern), Normalize(values[i]))

Occurs(needle, text) == \E i \in 0 .. Len(text) - Len(needle) :
                            SubSeq(text, i + 1, i + Len(needle)) = needle
=============================================================================
