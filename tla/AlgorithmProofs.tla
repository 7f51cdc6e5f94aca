--------------------------- MODULE AlgorithmProofs ---------------------------
(***************************************************************************)
(* What the loops of modules Glob, Digest and Streaming compute, for every *)
(* pattern, file and image. Each follows from an invariant of the loop.    *)
(***************************************************************************)
EXTENDS Glob, Digest, Streaming, SequenceTheorems, WellFoundedInduction, TLAPS

----------------------------------------------------------------------------
(* Matching a pattern                                                      *)

Pieces == Character \cup Wildcard

LEMMA MatchesNothing ==
    ASSUME NEW p \in Seq(Pieces), NEW t \in Seq(Character), NEW j
    PROVE  MatchesFrom(p, t, Len(p) + 1, j) <=> j = Len(t) + 1
<1>1. ASSUME j = Len(t) + 1
      PROVE  MatchesFrom(p, t, Len(p) + 1, j)
  <2> DEFINE cut == [k \in Len(p) + 1 .. Len(p) + 1 |-> Len(t) + 1]
  <2>1. /\ cut \in [Len(p) + 1 .. Len(p) + 1 -> 1 .. Len(t) + 1]
        /\ cut[Len(p) + 1] = Len(t) + 1
    OBVIOUS
  <2>2. (Len(p) + 1 .. Len(p)) = {}
    OBVIOUS
  <2>3. QED
    BY <1>1, <2>1, <2>2 DEF MatchesFrom
<1>2. QED
  BY <1>1 DEF MatchesFrom

LEMMA MatchesWithin ==
    ASSUME NEW p \in Seq(Pieces), NEW t \in Seq(Character), NEW i \in 1 .. Len(p) + 1, NEW j,
           MatchesFrom(p, t, i, j)
    PROVE  j \in 1 .. Len(t) + 1
<1>1. PICK cut \in [i .. Len(p) + 1 -> 1 .. Len(t) + 1] : cut[i] = j
  BY DEF MatchesFrom
<1>2. i \in i .. Len(p) + 1
  OBVIOUS
<1>3. QED
  BY <1>1, <1>2

(* The pattern without its first piece matches what the piece leaves.      *)
LEMMA MatchesRest ==
    ASSUME NEW p \in Seq(Pieces), NEW t \in Seq(Character), NEW i \in 1 .. Len(p), NEW j
    PROVE  MatchesFrom(p, t, i, j)
           <=> /\ j \in 1 .. Len(t) + 1
               /\ \E m \in 1 .. Len(t) + 1 : OnePiece(p[i], t, j, m) /\ MatchesFrom(p, t, i + 1, m)
<1>1. ASSUME MatchesFrom(p, t, i, j)
      PROVE  \E m \in 1 .. Len(t) + 1 : OnePiece(p[i], t, j, m) /\ MatchesFrom(p, t, i + 1, m)
  <2>1. PICK cut \in [i .. Len(p) + 1 -> 1 .. Len(t) + 1] :
           /\ cut[i] = j /\ cut[Len(p) + 1] = Len(t) + 1
           /\ \A k \in i .. Len(p) : OnePiece(p[k], t, cut[k], cut[k + 1])
    BY <1>1 DEF MatchesFrom
  <2> DEFINE rest == [k \in i + 1 .. Len(p) + 1 |-> cut[k]]
  <2>2. /\ rest \in [i + 1 .. Len(p) + 1 -> 1 .. Len(t) + 1]
        /\ rest[i + 1] = cut[i + 1] /\ rest[Len(p) + 1] = Len(t) + 1
    BY <2>1
  <2>3. \A k \in i + 1 .. Len(p) : OnePiece(p[k], t, rest[k], rest[k + 1])
    BY <2>1
  <2>4. cut[i + 1] \in 1 .. Len(t) + 1 /\ OnePiece(p[i], t, j, cut[i + 1])
    BY <2>1
  <2> HIDE DEF rest
  <2>5. MatchesFrom(p, t, i + 1, cut[i + 1])
    BY <2>2, <2>3 DEF MatchesFrom
  <2>6. QED
    BY <2>4, <2>5
<1>2. ASSUME j \in 1 .. Len(t) + 1, NEW m \in 1 .. Len(t) + 1,
             OnePiece(p[i], t, j, m), MatchesFrom(p, t, i + 1, m)
      PROVE  MatchesFrom(p, t, i, j)
  <2>1. PICK rest \in [i + 1 .. Len(p) + 1 -> 1 .. Len(t) + 1] :
           /\ rest[i + 1] = m /\ rest[Len(p) + 1] = Len(t) + 1
           /\ \A k \in i + 1 .. Len(p) : OnePiece(p[k], t, rest[k], rest[k + 1])
    BY <1>2 DEF MatchesFrom
  <2> DEFINE cut == [k \in i .. Len(p) + 1 |-> IF k = i THEN j ELSE rest[k]]
  <2>2. /\ cut \in [i .. Len(p) + 1 -> 1 .. Len(t) + 1]
        /\ cut[i] = j /\ cut[Len(p) + 1] = Len(t) + 1
    BY <1>2, <2>1
  <2>3. \A k \in i .. Len(p) : OnePiece(p[k], t, cut[k], cut[k + 1])
    <3> SUFFICES ASSUME NEW k \in i .. Len(p)
                 PROVE  OnePiece(p[k], t, cut[k], cut[k + 1])
      OBVIOUS
    <3>1. cut[k + 1] = rest[k + 1]
      OBVIOUS
    <3>2. CASE k = i
      BY <1>2, <2>1, <3>1, <3>2
    <3>3. CASE k # i
      <4>1. cut[k] = rest[k] /\ k \in i + 1 .. Len(p)
        BY <3>3
      <4>2. QED
        BY <2>1, <3>1, <4>1
    <3>4. QED
      BY <3>2, <3>3
  <2> HIDE DEF cut
  <2>4. QED
    BY <2>2, <2>3 DEF MatchesFrom
<1>3. QED
  BY <1>1, <1>2, MatchesWithin

LEMMA MatchesOne ==
    ASSUME NEW p \in Seq(Pieces), NEW t \in Seq(Character), NEW i \in 1 .. Len(p), NEW j \in Nat \ {0},
           p[i] # "*"
    PROVE  MatchesFrom(p, t, i, j)
           <=> j <= Len(t) /\ p[i] \in {"?", t[j]} /\ MatchesFrom(p, t, i + 1, j + 1)
<1>1. \A m \in 1 .. Len(t) + 1 :
         OnePiece(p[i], t, j, m) <=> m = j + 1 /\ j <= Len(t) /\ p[i] \in {"?", t[j]}
  BY DEF OnePiece
<1>2. j <= Len(t) => j + 1 \in 1 .. Len(t) + 1 /\ j \in 1 .. Len(t) + 1
  OBVIOUS
<1>3. QED
  BY <1>1, <1>2, MatchesRest

LEMMA MatchesStar ==
    ASSUME NEW p \in Seq(Pieces), NEW t \in Seq(Character), NEW i \in 1 .. Len(p),
           NEW j \in 1 .. Len(t) + 1, p[i] = "*"
    PROVE  MatchesFrom(p, t, i, j) <=> \E m \in j .. Len(t) + 1 : MatchesFrom(p, t, i + 1, m)
<1>1. \A m \in 1 .. Len(t) + 1 : OnePiece(p[i], t, j, m) <=> m \in j .. Len(t) + 1
  BY DEF OnePiece
<1>2. QED
  BY <1>1, MatchesRest

(* Where it is in its search: before a star the whole matches as what is   *)
(* left does. After one, what follows that star has to match from resume   *)
(* or later, and does so from resume if what is left matches from here;    *)
(* from later, only if what is left matches later by as much.              *)
Search ==
    LET matches(i, j) == MatchesFrom(pattern, text, i, j)
    IN  IF star = 0 THEN GlobMatches(pattern, text) <=> matches(pi, ti)
        ELSE /\ GlobMatches(pattern, text)
                <=> \E m \in resume .. Len(text) + 1 : matches(star + 1, m)
             /\ matches(star + 1, resume) <=> matches(pi, ti)
             /\ \A m \in resume .. Len(text) + 1 :
                   matches(star + 1, m) => matches(pi, m + (ti - resume))

GlobInv == GlobTypeOK /\ GlobIsRight /\ (verdict = "open" => Search)

(* What the type says of it, one number at a time.                         *)
Placed ==
    /\ pattern \in Seq(Pieces) /\ text \in Seq(Character)
    /\ Len(pattern) \in Nat /\ Len(text) \in Nat
    /\ pi \in Nat \ {0} /\ ti \in Nat \ {0} /\ star \in Nat /\ resume \in Nat \ {0}
    /\ pi <= Len(pattern) + 1 /\ ti <= Len(text) + 1 /\ star < pi /\ resume <= ti
    /\ \A i \in 1 .. Len(text) : text[i] # "*"

LEMMA GlobTyped == GlobTypeOK => Placed
<1> SUFFICES ASSUME GlobTypeOK
             PROVE  Placed
  OBVIOUS
<1>1. pattern \in Patterns /\ text \in Texts
  BY DEF GlobTypeOK
<1>2. pattern \in Seq(Pieces) /\ text \in Seq(Character)
  BY <1>1, GlobAssumption DEF Pieces
<1>3. Len(pattern) \in Nat /\ Len(text) \in Nat
  BY <1>2
<1>4. \A i \in 1 .. Len(text) : text[i] # "*"
  <2>1. "*" \notin Character
    BY GlobAssumption DEF Wildcard
  <2>2. \A i \in 1 .. Len(text) : text[i] \in Character
    BY <1>2
  <2>3. QED
    BY <2>1, <2>2
<1>5. pi \in 1 .. Len(pattern) + 1 /\ ti \in 1 .. Len(text) + 1
  BY DEF GlobTypeOK
<1>6. star \in 0 .. pi - 1 /\ resume \in 1 .. ti
  BY DEF GlobTypeOK
<1>7. /\ pi \in Nat \ {0} /\ ti \in Nat \ {0}
      /\ pi <= Len(pattern) + 1 /\ ti <= Len(text) + 1
  BY <1>3, <1>5
<1>8. star \in Nat /\ resume \in Nat \ {0} /\ star < pi /\ resume <= ti
  BY <1>6, <1>7
<1>9. QED
  BY <1>2, <1>3, <1>4, <1>7, <1>8 DEF Placed

LEMMA GlobStarts == GlobInit => GlobInv
<1> SUFFICES ASSUME GlobInit
             PROVE  GlobInv
  OBVIOUS
<1>1. pattern \in Seq(Pieces) /\ text \in Seq(Character)
  BY GlobAssumption DEF GlobInit, GlobBegins, Pieces
<1>2. GlobTypeOK /\ GlobIsRight
  BY <1>1 DEF GlobInit, GlobBegins, GlobTypeOK, GlobIsRight
<1>3. Search
  BY DEF GlobInit, GlobBegins, Search, GlobMatches
<1>4. QED
  BY <1>2, <1>3 DEF GlobInv

(* What does not fit here does not match, once it is no star.              *)
LEMMA NoFit ==
    ASSUME GlobTypeOK, ti <= Len(text), ~AtOne, ~AtStar
    PROVE  ~MatchesFrom(pattern, text, pi, ti)
<1>0. Placed
  BY GlobTyped
<1>1. CASE pi = Len(pattern) + 1
  BY <1>1, <1>0, MatchesNothing DEF Placed
<1>2. CASE pi # Len(pattern) + 1
  <2>1. pi \in 1 .. Len(pattern) /\ pattern[pi] # "*" /\ pattern[pi] \notin {"?", text[ti]}
    BY <1>2, <1>0 DEF AtOne, AtStar, Placed
  <2>2. QED
    BY <2>1, <1>0, MatchesOne DEF Placed
<1>3. QED
  BY <1>1, <1>2

LEMMA MatchOneKeeps == GlobInv /\ MatchOne /\ UNCHANGED <<pattern, text>> => GlobInv'
<1> SUFFICES ASSUME GlobInv, MatchOne, UNCHANGED <<pattern, text>>
             PROVE  GlobInv'
  OBVIOUS
<1>0. Placed
  BY GlobTyped DEF GlobInv
<1> DEFINE matches(i, j) == MatchesFrom(pattern, text, i, j)
<1>1. /\ verdict = "open" /\ verdict' = "open" /\ star' = star /\ resume' = resume
      /\ pi' = pi + 1 /\ ti' = ti + 1 /\ pi <= Len(pattern) /\ ti <= Len(text)
      /\ pattern[pi] \in {"?", text[ti]} /\ Search
  BY DEF MatchOne, InText, AtOne, GlobInv
<1>2. GlobTypeOK'
  BY <1>1, <1>0 DEF Placed, GlobInv, GlobTypeOK
<1>3. pattern[pi] # "*"
  BY <1>1, <1>0 DEF Placed
<1>4. \A j \in Nat \ {0} : matches(pi, j) => matches(pi + 1, j + 1)
  BY <1>1, <1>3, <1>0, MatchesOne DEF Placed
<1>5. matches(pi, ti) <=> matches(pi + 1, ti + 1)
  BY <1>1, <1>3, <1>0, MatchesOne DEF Placed
<1>6. Search'
  <2> HIDE DEF matches
  <2>1. CASE star = 0
    BY <1>1, <1>5, <2>1 DEF Search, matches
  <2>2. CASE star # 0
    <3>1. ASSUME NEW m \in resume .. Len(text) + 1, matches(star + 1, m)
          PROVE  matches(pi + 1, m + (ti + 1 - resume))
      <4>1. matches(pi, m + (ti - resume))
        BY <1>1, <2>2, <3>1 DEF Search, matches
      <4>2. m + (ti - resume) \in Nat \ {0} /\ m + (ti - resume) + 1 = m + (ti + 1 - resume)
        BY <1>0 DEF Placed
      <4>3. QED
        BY <1>4, <4>1, <4>2
    <3>2. \A m \in resume .. Len(text) + 1 :
             matches(star + 1, m) => matches(pi', m + (ti' - resume'))
      BY <1>0, <1>1, <3>1 DEF Placed
    <3>3. QED
      BY <1>1, <1>5, <2>2, <3>2 DEF Search, matches
  <2>3. QED
    BY <2>1, <2>2
<1>7. QED
  BY <1>1, <1>2, <1>6 DEF GlobInv, GlobIsRight

(* One that comes after another star makes that one's places no matter:    *)
(* what matches after a later place of it matches after this one as well.  *)
LEMMA MeetStarKeeps == GlobInv /\ MeetStar /\ UNCHANGED <<pattern, text>> => GlobInv'
<1> SUFFICES ASSUME GlobInv, MeetStar, UNCHANGED <<pattern, text>>
             PROVE  GlobInv'
  OBVIOUS
<1>0. Placed
  BY GlobTyped DEF GlobInv
<1> DEFINE matches(i, j) == MatchesFrom(pattern, text, i, j)
           after == \E m \in ti .. Len(text) + 1 : matches(pi + 1, m)
<1>1. /\ verdict = "open" /\ verdict' = "open" /\ star' = pi /\ resume' = ti
      /\ pi' = pi + 1 /\ ti' = ti /\ pi <= Len(pattern) /\ ti <= Len(text)
      /\ pattern[pi] = "*" /\ Search
  BY DEF MeetStar, InText, AtStar, GlobInv
<1>2. GlobTypeOK'
  BY <1>1, <1>0 DEF Placed, GlobInv, GlobTypeOK
<1>3. \A j \in 1 .. Len(text) + 1 :
         matches(pi, j) <=> \E m \in j .. Len(text) + 1 : matches(pi + 1, m)
  BY <1>1, <1>0, MatchesStar DEF Placed
<1>4. GlobMatches(pattern, text) <=> after
  <2> HIDE DEF matches
  <2>1. CASE star = 0
    BY <1>1, <1>3, <2>1, <1>0 DEF Search, matches, Placed
  <2>2. CASE star # 0
    <3>1. ASSUME after
          PROVE  \E m \in resume .. Len(text) + 1 : matches(star + 1, m)
      <4>1. matches(pi, ti)
        BY <1>1, <1>3, <3>1, <1>0 DEF Placed
      <4>2. matches(star + 1, resume)
        BY <1>1, <2>2, <4>1 DEF Search, matches
      <4>3. QED
        BY <4>2, <1>0 DEF Placed
    <3>2. ASSUME NEW m \in resume .. Len(text) + 1, matches(star + 1, m)
          PROVE  after
      <4>1. matches(pi, m + (ti - resume))
        BY <1>1, <2>2, <3>2 DEF Search, matches
      <4>2. m + (ti - resume) \in 1 .. Len(text) + 1
        BY <4>1, <1>1, <1>0, MatchesWithin DEF matches, Placed
      <4>3. PICK n \in m + (ti - resume) .. Len(text) + 1 : matches(pi + 1, n)
        BY <1>3, <4>1, <4>2
      <4>4. n \in ti .. Len(text) + 1
        BY <4>3, <1>0 DEF Placed
      <4>5. QED
        BY <4>3, <4>4
    <3>3. QED
      BY <1>1, <2>2, <3>1, <3>2 DEF Search, matches
  <2>3. QED
    BY <2>1, <2>2
<1>5. Search'
  <2>1. \A m \in ti .. Len(text) + 1 : m + (ti - ti) = m
    BY <1>0 DEF Placed
  <2>2. pi # 0
    BY <1>0 DEF Placed
  <2>3. QED
    BY <1>1, <1>4, <2>1, <2>2 DEF Search
<1>6. QED
  BY <1>1, <1>2, <1>5 DEF GlobInv, GlobIsRight

LEMMA BacktrackKeeps == GlobInv /\ Backtrack /\ UNCHANGED <<pattern, text>> => GlobInv'
<1> SUFFICES ASSUME GlobInv, Backtrack, UNCHANGED <<pattern, text>>
             PROVE  GlobInv'
  OBVIOUS
<1>0. Placed
  BY GlobTyped DEF GlobInv
<1> DEFINE matches(i, j) == MatchesFrom(pattern, text, i, j)
<1>1. /\ verdict = "open" /\ verdict' = "open" /\ star' = star /\ star # 0
      /\ pi' = star + 1 /\ ti' = resume + 1 /\ resume' = resume + 1 /\ ti <= Len(text)
      /\ ~AtOne /\ ~AtStar /\ Search
  BY DEF Backtrack, InText, GlobInv
<1>2. GlobTypeOK'
  BY <1>1, <1>0 DEF Placed, GlobInv, GlobTypeOK
<1>3. ~matches(star + 1, resume)
  BY <1>1, NoFit DEF Search, GlobInv
<1>4. GlobMatches(pattern, text)
      <=> \E m \in resume + 1 .. Len(text) + 1 : matches(star + 1, m)
  <2>1. \A m \in resume .. Len(text) + 1 : m = resume \/ m \in resume + 1 .. Len(text) + 1
    BY <1>0 DEF Placed
  <2>2. \A m \in resume + 1 .. Len(text) + 1 : m \in resume .. Len(text) + 1
    BY <1>0 DEF Placed
  <2> HIDE DEF matches
  <2>3. QED
    BY <1>1, <1>3, <2>1, <2>2 DEF Search, matches
<1>5. Search'
  <2>1. \A m \in resume + 1 .. Len(text) + 1 : m + (resume + 1 - (resume + 1)) = m
    BY <1>0 DEF Placed
  <2>2. QED
    BY <1>1, <1>4, <2>1 DEF Search
<1>6. QED
  BY <1>1, <1>2, <1>5 DEF GlobInv, GlobIsRight

LEMMA GiveUpKeeps == GlobInv /\ GiveUp /\ UNCHANGED <<pattern, text>> => GlobInv'
<1> SUFFICES ASSUME GlobInv, GiveUp, UNCHANGED <<pattern, text>>
             PROVE  GlobInv'
  OBVIOUS
<1>1. ~MatchesFrom(pattern, text, pi, ti) /\ star = 0 /\ Search
  BY NoFit DEF GiveUp, InText, GlobInv
<1>2. ~GlobMatches(pattern, text)
  BY <1>1 DEF Search
<1>3. QED
  BY <1>2 DEF GiveUp, GlobInv, GlobTypeOK, GlobIsRight

(* Past the text, what follows a star cannot begin any later than it does. *)
LEMMA PastTextOnlyHere ==
    ASSUME GlobInv, PastText
    PROVE  GlobMatches(pattern, text) <=> MatchesFrom(pattern, text, pi, ti)
<1>0. Placed
  BY GlobTyped DEF GlobInv
<1> DEFINE matches(i, j) == MatchesFrom(pattern, text, i, j)
<1>1. Search /\ ti = Len(text) + 1
  BY <1>0 DEF PastText, Placed, GlobInv
<1>2. CASE star # 0
  <2>1. \A m \in resume .. Len(text) + 1 : matches(star + 1, m) => m = resume
    <3> SUFFICES ASSUME NEW m \in resume .. Len(text) + 1, matches(star + 1, m)
                 PROVE  m = resume
      OBVIOUS
    <3>1. matches(pi, m + (ti - resume))
      BY <1>1, <1>2 DEF Search
    <3>2. m + (ti - resume) <= Len(text) + 1
      <4>1. pi \in 1 .. Len(pattern) + 1
        BY DEF GlobInv, GlobTypeOK
      <4>2. QED
        BY <3>1, <4>1, <1>0, MatchesWithin DEF Placed
    <3>3. QED
      BY <1>1, <3>2, <1>0 DEF Placed
  <2>2. resume \in resume .. Len(text) + 1
    BY <1>0 DEF Placed
  <2>3. QED
    BY <1>1, <1>2, <2>1, <2>2 DEF Search
<1>3. CASE star = 0
  BY <1>1, <1>3 DEF Search
<1>4. QED
  BY <1>2, <1>3

LEMMA SkipStarKeeps == GlobInv /\ SkipStar /\ UNCHANGED <<pattern, text>> => GlobInv'
<1> SUFFICES ASSUME GlobInv, SkipStar, UNCHANGED <<pattern, text>>
             PROVE  GlobInv'
  OBVIOUS
<1>0. Placed
  BY GlobTyped DEF GlobInv
<1> DEFINE matches(i, j) == MatchesFrom(pattern, text, i, j)
<1>1. /\ verdict = "open" /\ verdict' = "open" /\ star' = star /\ resume' = resume
      /\ pi' = pi + 1 /\ ti' = ti /\ pi <= Len(pattern) /\ pattern[pi] = "*" /\ Search
      /\ ti = Len(text) + 1
  BY <1>0 DEF SkipStar, PastText, AtStar, Placed, GlobInv
<1>2. GlobTypeOK'
  BY <1>1, <1>0 DEF Placed, GlobInv, GlobTypeOK
<1>3. \A j \in Nat : matches(pi, j) => j \in 1 .. Len(text) + 1
  BY <1>1, <1>0, MatchesWithin DEF Placed
<1>4. matches(pi, ti) <=> matches(pi + 1, ti)
  <2>1. ti .. Len(text) + 1 = {ti} /\ ti \in 1 .. Len(text) + 1 /\ pi \in 1 .. Len(pattern)
    BY <1>1, <1>0 DEF Placed
  <2>2. matches(pi, ti) <=> \E m \in ti .. Len(text) + 1 : matches(pi + 1, m)
    BY <1>1, <2>1, <1>0, MatchesStar DEF Placed
  <2>3. QED
    BY <2>1, <2>2
<1>5. Search'
  <2> HIDE DEF matches
  <2>1. CASE star = 0
    BY <1>1, <1>4, <2>1 DEF Search, matches
  <2>2. CASE star # 0
    <3>1. ASSUME NEW m \in resume .. Len(text) + 1, matches(star + 1, m)
          PROVE  matches(pi + 1, m + (ti - resume))
      <4>1. matches(pi, m + (ti - resume))
        BY <1>1, <2>2, <3>1 DEF Search, matches
      <4>2. m + (ti - resume) \in Nat /\ m + (ti - resume) >= ti
        BY <1>0 DEF Placed
      <4>3. m + (ti - resume) = ti
        BY <1>1, <1>3, <4>1, <4>2, <1>0 DEF Placed
      <4>4. QED
        BY <1>4, <4>1, <4>3
    <3>2. QED
      BY <1>1, <1>4, <2>2, <3>1 DEF Search, matches
  <2>3. QED
    BY <2>1, <2>2
<1>6. QED
  BY <1>1, <1>2, <1>5 DEF GlobInv, GlobIsRight

LEMMA ConcludeKeeps == GlobInv /\ Conclude /\ UNCHANGED <<pattern, text>> => GlobInv'
<1> SUFFICES ASSUME GlobInv, Conclude, UNCHANGED <<pattern, text>>
             PROVE  GlobInv'
  OBVIOUS
<1>0. Placed
  BY GlobTyped DEF GlobInv
<1>1. /\ PastText /\ ~AtStar /\ ti = Len(text) + 1
      /\ verdict' = IF pi = Len(pattern) + 1 THEN "yes" ELSE "no"
  BY <1>0 DEF Conclude, PastText, Placed
<1>2. MatchesFrom(pattern, text, pi, ti) <=> pi = Len(pattern) + 1
  <2>1. CASE pi = Len(pattern) + 1
    BY <1>1, <2>1, <1>0, MatchesNothing DEF Placed
  <2>2. CASE pi # Len(pattern) + 1
    <3>1. pi \in 1 .. Len(pattern) /\ pattern[pi] # "*"
      BY <1>1, <2>2, <1>0 DEF AtStar, Placed
    <3>2. ~(ti <= Len(text))
      BY <1>1, <1>0 DEF Placed
    <3>3. QED
      BY <2>2, <3>1, <3>2, <1>0, MatchesOne DEF Placed
  <2>3. QED
    BY <2>1, <2>2
<1>3. QED
  BY <1>1, <1>2, PastTextOnlyHere DEF Conclude, GlobInv, GlobTypeOK, GlobIsRight

LEMMA GlobKept == GlobInv /\ [GlobNext]_globVars => GlobInv'
<1>1. GlobInv /\ UNCHANGED globVars => GlobInv'
  BY DEF globVars, GlobInv, GlobTypeOK, GlobIsRight, Search
<1>2. QED
  BY <1>1, MatchOneKeeps, MeetStarKeeps, BacktrackKeeps, GiveUpKeeps, SkipStarKeeps, ConcludeKeeps
     DEF GlobNext

(* Every turn keeps what the loop of `glob` stands on: wherever it is,     *)
(* there is a match left to find if there was one to begin with.           *)
THEOREM GlobInvariant == GlobSpec => []GlobInv
BY GlobStarts, GlobKept, PTL DEF GlobSpec

(* Both places stay in their texts, one past the end at most, and the star *)
(* behind where the pattern is read.                                       *)
THEOREM GlobTypeCorrect == GlobSpec => []GlobTypeOK
<1>1. GlobInv => GlobTypeOK
  BY DEF GlobInv
<1>2. QED
  BY <1>1, GlobInvariant, PTL

(* `glob` answers as its definition does, whatever the pattern and the     *)
(* text.                                                                   *)
THEOREM GlobIsRightAlways == GlobSpec => []GlobIsRight
<1>1. GlobInv => GlobIsRight
  BY DEF GlobInv
<1>2. QED
  BY <1>1, GlobInvariant, PTL

(* It never comes back to where it has been.                               *)
THEOREM GlobAdvancesAlways == GlobSpec => GlobAdvances
<1>1. GlobInv /\ [GlobNext]_globVars => [Further]_globVars
  <2> SUFFICES ASSUME GlobInv, GlobNext
               PROVE  Further \/ UNCHANGED globVars
    OBVIOUS
  <2>1. pi \in Nat /\ ti \in Nat /\ resume \in Nat /\ resume <= ti
    BY GlobTyped DEF GlobInv, Placed
  <2>2. QED
    BY <2>1 DEF GlobNext, MatchOne, MeetStar, Backtrack, GiveUp, SkipStar, Conclude, Further,
       InText, PastText
<1>2. QED
  BY <1>1, GlobInvariant, PTL DEF GlobSpec, GlobAdvances

----------------------------------------------------------------------------
(* Digesting a file                                                        *)

(* What goes into the compression is always a beginning of what the        *)
(* standard says: how far, each stage knows.                               *)
Fed == Len(digested) + Len(held)

DigestInv ==
    /\ DigestTypeOK
    /\ digested \o held = SubSeq(Padded(message), 1, Fed)
    /\ \E q \in Nat : Len(digested) = q * Block
    /\ LET n == Len(message)
           zeroed == n + 1 + Zeros(n)
       IN  /\ stage \in {"reading", "failed"} => Fed = read
           /\ stage \in {"reading", "zeros"} => put = 0
           /\ stage \notin {"reading", "failed"} => read = n
           /\ stage = "zeros" => Fed \in n + 1 .. zeroed
           /\ stage = "length" => Fed = zeroed + put /\ put < LengthField
           /\ stage = "done" => Fed = zeroed + LengthField

(* Two whole numbers of blocks less than a block apart are one.            *)
LEMMA SameBlocks ==
    ASSUME NEW p \in Int, NEW q \in Int, NEW b \in Nat \ {0},
           p * b - q * b < b, q * b - p * b < b
    PROVE  p = q
<1>1. ASSUME NEW m \in Int, NEW n \in Int, m > n
      PROVE  m * b >= n * b + b
  <2>1. PICK d \in Nat : m = n + 1 + d
    <3>1. m - n - 1 \in Nat /\ m = n + 1 + (m - n - 1)
      BY <1>1
    <3>2. QED
      BY <3>1
  <2>2. (n + 1 + d) * b = n * b + b + d * b
    OBVIOUS
  <2>3. d * b >= 0
    OBVIOUS
  <2>4. n * b \in Int /\ d * b \in Int
    OBVIOUS
  <2>5. QED
    BY <2>1, <2>2, <2>3, <2>4
<1>2. p * b \in Int /\ q * b \in Int
  OBVIOUS
<1>3. ~(p > q)
  BY <1>1, <1>2
<1>4. ~(q > p)
  BY <1>1, <1>2
<1>5. QED
  BY <1>3, <1>4

LEMMA CellsAssociate == \A s, t, u \in Seq(DigestCell) : (s \o t) \o u = s \o (t \o u)
<1> SUFFICES ASSUME NEW s \in Seq(DigestCell), NEW t \in Seq(DigestCell), NEW u \in Seq(DigestCell)
             PROVE  (s \o t) \o u = s \o (t \o u)
  OBVIOUS
<1>1. QED
  BY ConcatAssociative

LEMMA ZerosAre ==
    ASSUME NEW n \in Nat
    PROVE  /\ Zeros(n) \in 0 .. Block - 1
           /\ \E q \in Nat : n + 1 + Zeros(n) + LengthField = q * Block
<1> DEFINE c == n + 1 + LengthField
           down == c \div Block
           part == c % Block
<1>1. Block \in Nat /\ Block > 1 /\ LengthField \in Nat /\ 0 < LengthField /\ LengthField < Block
  BY DigestAssumption
<1>2. c \in Nat /\ c > 0 /\ c <= n + Block
  BY <1>1
<1>3. down \in Nat /\ part \in 0 .. Block - 1 /\ c = down * Block + part
  BY <1>1, <1>2
<1>4. \E z \in 0 .. Block - 1 : \E q \in 0 .. n + Block : n + 1 + z + LengthField = q * Block
  <2>0. down * Block >= down
    BY <1>1, <1>3
  <2>1. down <= c
    <3> HIDE DEF c, down, part
    <3>1. QED
      BY <1>1, <1>2, <1>3, <2>0
  <2>2. CASE part = 0
    <3>1. n + 1 + 0 + LengthField = down * Block
      BY <1>1, <1>2, <1>3, <2>2
    <3>2. down \in 0 .. n + Block /\ 0 \in 0 .. Block - 1
      <4> HIDE DEF c, down, part
      <4>1. QED
        BY <1>1, <1>2, <1>3, <2>1
    <3>3. QED
      BY <3>1, <3>2
  <2>3. CASE part # 0
    <3>1. (down + 1) * Block = down * Block + Block
      BY <1>1, <1>3
    <3>2. Block - part \in 0 .. Block - 1
      <4> HIDE DEF c, down, part
      <4>1. QED
        BY <1>1, <1>3, <2>3
    <3>3. n + 1 + (Block - part) + LengthField = (down + 1) * Block
      <4>1. c + (Block - part) = n + 1 + (Block - part) + LengthField
        BY <1>1, <1>2, <3>2
      <4>2. down * Block \in Int
        BY <1>1, <1>3
      <4> HIDE DEF c, down, part
      <4>3. QED
        BY <1>1, <1>2, <1>3, <3>1, <4>1, <4>2
    <3>4. down + 1 \in 0 .. n + Block
      <4>1. down * 2 <= down * Block
        BY <1>1, <1>3
      <4> HIDE DEF c, down, part
      <4>2. down * Block \in Int /\ down * 2 \in Int
        BY <1>1, <1>3
      <4>3. down + 1 <= c
        BY <1>1, <1>2, <1>3, <2>3, <4>1, <4>2
      <4>4. QED
        BY <1>1, <1>2, <1>3, <4>3
    <3>5. QED
      BY <3>2, <3>3, <3>4
  <2>4. QED
    BY <2>2, <2>3
<1>5. /\ Zeros(n) \in 0 .. Block - 1
      /\ \E q \in 0 .. n + Block : n + 1 + Zeros(n) + LengthField = q * Block
  BY <1>4 DEF Zeros
<1>6. \A q \in 0 .. n + Block : q \in Nat
  BY <1>1
<1>7. QED
  BY <1>5, <1>6

LEMMA PaddedIs ==
    ASSUME NEW m \in Messages
    PROVE  LET n == Len(m)
               zeroed == n + 1 + Zeros(n)
           IN  /\ m \in Seq(DigestCell) /\ n \in Nat /\ Zeros(n) \in Nat
               /\ Padded(m) \in Seq(DigestCell) /\ Len(Padded(m)) = zeroed + LengthField
               /\ SubSeq(Padded(m), 1, n) = m
               /\ Padded(m)[n + 1] = End
               /\ \A i \in n + 2 .. zeroed : Padded(m)[i] = Zero
               /\ \A i \in 1 .. LengthField : Padded(m)[zeroed + i] = LengthCell(n, i)
<1> DEFINE n == Len(m)
           closed == m \o <<End>>
           zeros == [i \in 1 .. Zeros(n) |-> Zero]
           number == [i \in 1 .. LengthField |-> LengthCell(n, i)]
<1>1. m \in Seq(DigestCell) /\ n \in Nat
  BY DigestAssumption DEF DigestCell
<1>2. Zeros(n) \in Nat /\ LengthField \in Nat
  BY <1>1, ZerosAre, DigestAssumption
<1>3. End \in DigestCell /\ Zero \in DigestCell /\ \A i \in 1 .. LengthField : LengthCell(n, i) \in DigestCell
  BY DEF DigestCell
<1>4. closed \in Seq(DigestCell) /\ Len(closed) = n + 1 /\ closed[n + 1] = End
  BY <1>1, <1>3
<1>5. zeros \in Seq(DigestCell) /\ Len(zeros) = Zeros(n)
  BY <1>2, <1>3
<1>6. number \in Seq(DigestCell) /\ Len(number) = LengthField
  BY <1>2, <1>3
<1>7. /\ \A i \in 1 .. Zeros(n) : zeros[i] = Zero
      /\ \A i \in 1 .. LengthField : number[i] = LengthCell(n, i)
  OBVIOUS
<1>8. \A i \in 1 .. n : closed[i] = m[i]
  BY <1>1, <1>3
<1> DEFINE front == closed \o zeros
<1>9. Padded(m) = front \o number
  BY DEF Padded
<1> HIDE DEF n, closed, zeros, number
<1>10. /\ front \in Seq(DigestCell) /\ Len(front) = n + 1 + Zeros(n)
       /\ \A i \in 1 .. n + 1 + Zeros(n) :
             front[i] = IF i <= n + 1 THEN closed[i] ELSE zeros[i - (n + 1)]
  <2>1. /\ front \in Seq(DigestCell) /\ Len(front) = Len(closed) + Len(zeros)
        /\ \A i \in 1 .. Len(closed) + Len(zeros) :
              front[i] = IF i <= Len(closed) THEN closed[i] ELSE zeros[i - Len(closed)]
    BY <1>4, <1>5, ConcatProperties, Zenon
  <2>2. QED
    BY <1>1, <1>2, <1>4, <1>5, <2>1
<1> HIDE DEF front
<1>11. /\ Padded(m) \in Seq(DigestCell) /\ Len(Padded(m)) = n + 1 + Zeros(n) + LengthField
       /\ \A i \in 1 .. n + 1 + Zeros(n) + LengthField :
             Padded(m)[i] = IF i <= n + 1 + Zeros(n) THEN front[i]
                            ELSE number[i - (n + 1 + Zeros(n))]
  <2>1. /\ Padded(m) \in Seq(DigestCell) /\ Len(Padded(m)) = Len(front) + Len(number)
        /\ \A i \in 1 .. Len(front) + Len(number) :
              Padded(m)[i] = IF i <= Len(front) THEN front[i] ELSE number[i - Len(front)]
    <3>1. front \in Seq(DigestCell) /\ number \in Seq(DigestCell)
      BY <1>6, <1>10
    <3>2. QED
      BY <1>9, <3>1, ConcatProperties, SMTT(30)
  <2>2. QED
    BY <1>1, <1>2, <1>6, <1>10, <2>1
<1>12. Padded(m)[n + 1] = End
  BY <1>1, <1>2, <1>4, <1>10, <1>11
<1>13. \A i \in n + 2 .. n + 1 + Zeros(n) : Padded(m)[i] = Zero
  <2> SUFFICES ASSUME NEW i \in n + 2 .. n + 1 + Zeros(n)
               PROVE  Padded(m)[i] = Zero
    OBVIOUS
  <2>1. /\ i \in 1 .. n + 1 + Zeros(n) + LengthField /\ i <= n + 1 + Zeros(n)
        /\ i \in 1 .. n + 1 + Zeros(n) /\ ~(i <= n + 1) /\ i - (n + 1) \in 1 .. Zeros(n)
    BY <1>1, <1>2
  <2>2. Padded(m)[i] = front[i] /\ front[i] = zeros[i - (n + 1)]
    BY <1>10, <1>11, <2>1
  <2>3. QED
    BY <1>7, <2>1, <2>2
<1>14. \A i \in 1 .. LengthField : Padded(m)[n + 1 + Zeros(n) + i] = LengthCell(n, i)
  <2> SUFFICES ASSUME NEW i \in 1 .. LengthField
               PROVE  Padded(m)[n + 1 + Zeros(n) + i] = LengthCell(n, i)
    OBVIOUS
  <2> DEFINE k == n + 1 + Zeros(n) + i
  <2>1. /\ k \in 1 .. n + 1 + Zeros(n) + LengthField /\ ~(k <= n + 1 + Zeros(n))
        /\ k - (n + 1 + Zeros(n)) = i
    BY <1>1, <1>2
  <2> HIDE DEF k
  <2>2. Padded(m)[k] = number[i]
    BY <1>11, <2>1
  <2>3. QED
    BY <1>7, <2>2 DEF k
<1>15. SubSeq(Padded(m), 1, n) = m
  <2>1. \A i \in 1 .. n : Padded(m)[i] = m[i]
    <3> SUFFICES ASSUME NEW i \in 1 .. n
                 PROVE  Padded(m)[i] = m[i]
      OBVIOUS
    <3>1. /\ i \in 1 .. n + 1 + Zeros(n) + LengthField /\ i <= n + 1 + Zeros(n)
          /\ i \in 1 .. n + 1 + Zeros(n) /\ i <= n + 1
      BY <1>1, <1>2
    <3>2. QED
      BY <1>8, <1>10, <1>11, <3>1
  <2>2. \A i \in 1 .. n : Padded(m)[i] \in DigestCell
    BY <1>1, <2>1 DEF n
  <2>3. /\ SubSeq(Padded(m), 1, n) \in Seq(DigestCell)
        /\ Len(SubSeq(Padded(m), 1, n)) = n
        /\ \A i \in 1 .. n : SubSeq(Padded(m), 1, n)[i] = Padded(m)[i]
    BY <1>1, <2>2, SubSeqProperties
  <2>4. QED
    BY <1>1, <2>1, <2>3, SeqEqual DEF n
<1>16. QED
  BY <1>1, <1>2, <1>11, <1>12, <1>13, <1>14, <1>15 DEF n

LEMMA DigestStarts == DigestInit => DigestInv
<1> SUFFICES ASSUME DigestInit
             PROVE  DigestInv
  OBVIOUS
<1>1. Len(digested) = 0 * Block /\ 0 \in Nat
  BY DigestAssumption DEF DigestInit, DigestBegins
<1>2. message \in Messages /\ Len(message) \in Nat
  BY PaddedIs DEF DigestInit, DigestBegins
<1>3. Fed = 0
  BY DEF DigestInit, DigestBegins, Fed
<1>4. digested \o held = SubSeq(Padded(message), 1, Fed)
  BY <1>3, SubSeqEmpty DEF DigestInit, DigestBegins
<1>5. DigestTypeOK
  BY <1>2, DigestAssumption DEF DigestInit, DigestBegins, DigestTypeOK
<1>6. QED
  BY <1>1, <1>3, <1>4, <1>5 DEF DigestInit, DigestBegins, DigestInv

(* What every step starts from.                                            *)
DigestPlaced ==
    /\ message \in Messages /\ message \in Seq(DigestCell) /\ Len(message) \in Nat
    /\ Padded(message) \in Seq(DigestCell)
    /\ Zeros(Len(message)) \in Nat
    /\ Len(Padded(message)) = Len(message) + 1 + Zeros(Len(message)) + LengthField
    /\ digested \in Seq(DigestCell) /\ held \in Seq(DigestCell)
    /\ Len(digested) \in Nat /\ Len(held) \in Nat /\ Len(held) < Block
    /\ Fed \in Nat /\ Fed <= Len(Padded(message))
    /\ read \in Nat /\ read <= Len(message) /\ put \in Nat /\ put <= LengthField
    /\ Block \in Nat /\ LengthField \in Nat /\ 0 < LengthField /\ LengthField < Block

LEMMA DigestTyped == DigestInv => DigestPlaced
<1> SUFFICES ASSUME DigestInv
             PROVE  DigestPlaced
  OBVIOUS
<1>1. message \in Messages
  BY DEF DigestInv, DigestTypeOK
<1>2. /\ message \in Seq(DigestCell) /\ Len(message) \in Nat
      /\ Padded(message) \in Seq(DigestCell)
      /\ Zeros(Len(message)) \in Nat
      /\ Len(Padded(message)) = Len(message) + 1 + Zeros(Len(message)) + LengthField
  BY <1>1, PaddedIs
<1>3. Block \in Nat /\ LengthField \in Nat /\ 0 < LengthField /\ LengthField < Block
  BY DigestAssumption
<1>4. /\ digested \in Seq(DigestCell) /\ held \in Seq(DigestCell)
      /\ Len(digested) \in Nat /\ Len(held) \in Nat /\ Len(held) < Block
      /\ read \in Nat /\ read <= Len(message) /\ put \in Nat /\ put <= LengthField
  BY <1>2, <1>3 DEF DigestInv, DigestTypeOK
<1>5. stage \in {"reading", "zeros", "length", "done", "failed"}
  BY DEF DigestInv, DigestTypeOK
<1>6. Fed \in Nat /\ Fed <= Len(Padded(message))
  BY <1>2, <1>3, <1>4, <1>5, SMTT(30) DEF DigestInv, Fed
<1>7. QED
  BY <1>1, <1>2, <1>3, <1>4, <1>6 DEF DigestPlaced

(* Fed a cell that the standard has next, or as many of them.              *)
LEMMA PadByKeeps ==
    ASSUME DigestInv, NEW cell \in DigestCell, PadBy(cell),
           Fed < Len(Padded(message)), cell = Padded(message)[Fed + 1]
    PROVE  /\ digested' \in Seq(DigestCell) /\ held' \in Seq(DigestCell) /\ Len(held') < Block
           /\ Fed' = Fed + 1
           /\ digested' \o held' = SubSeq(Padded(message), 1, Fed + 1)
           /\ \E q \in Nat : Len(digested') = q * Block
<1>0. DigestPlaced
  BY DigestTyped
<1>1. /\ digested \o held = SubSeq(Padded(message), 1, Fed)
      /\ \E q \in Nat : Len(digested) = q * Block
  BY DEF DigestInv
<1>2. /\ Append(held, cell) \in Seq(DigestCell) /\ Len(Append(held, cell)) = Len(held) + 1
      /\ Append(held, cell) = held \o <<cell>> /\ <<cell>> \in Seq(DigestCell)
  BY <1>0, AppendIsConcat, SMTT(30) DEF DigestPlaced
<1>3. digested \o Append(held, cell) = (digested \o held) \o <<cell>>
  <2>1. digested \in Seq(DigestCell) /\ held \in Seq(DigestCell)
    BY <1>0 DEF DigestPlaced
  <2>2. (digested \o held) \o <<cell>> = digested \o (held \o <<cell>>)
    BY <1>2, <2>1, CellsAssociate, SMTT(30)
  <2>3. QED
    BY <1>2, <2>2, Zenon
<1>4. SubSeq(Padded(message), 1, Fed + 1) = SubSeq(Padded(message), 1, Fed) \o <<cell>>
  <2> DEFINE k == Fed + 1
  <2>1. /\ 1 \in 1 .. Len(Padded(message)) /\ k \in 1 .. Len(Padded(message))
        /\ k - 1 = Fed /\ Padded(message)[k] = cell /\ Padded(message) \in Seq(DigestCell)
    BY <1>0 DEF DigestPlaced
  <2> HIDE DEF k
  <2>2. SubSeq(Padded(message), 1, k) = SubSeq(Padded(message), 1, k - 1) \o <<Padded(message)[k]>>
    BY <2>1, SubSeqRecursiveSecond, Zenon
  <2>3. QED
    BY <2>1, <2>2 DEF k
<1>5. digested \o Append(held, cell) = SubSeq(Padded(message), 1, Fed + 1)
  BY <1>1, <1>3, <1>4
<1>6. /\ digested \o Append(held, cell) \in Seq(DigestCell)
      /\ Len(digested \o Append(held, cell)) = Len(digested) + Len(held) + 1
  BY <1>0, <1>2, ConcatProperties DEF DigestPlaced
<1>10. Fed = Len(digested) + Len(held) /\ Fed' = Len(digested') + Len(held')
  BY DEF Fed
<1>7. CASE Len(held) + 1 = Block
  <2>1. digested' = digested \o Append(held, cell) /\ held' = <<>>
    BY <1>7 DEF PadBy
  <2>2. digested' \o held' = digested'
    BY <1>6, <2>1, ConcatEmptySeq
  <2>3. Len(digested') = Len(digested) + Block /\ Fed' = Fed + 1
    <3>1. Len(held') = 0 /\ Len(digested') = Len(digested) + Len(held) + 1
      BY <1>6, <2>1
    <3>2. Len(digested) \in Nat /\ Len(held) \in Nat
      BY <1>0 DEF DigestPlaced
    <3>3. QED
      BY <1>7, <1>10, <3>1, <3>2
  <2>4. \E q \in Nat : Len(digested') = q * Block
    <3>1. PICK q \in Nat : Len(digested) = q * Block
      BY <1>1
    <3>2. (q + 1) * Block = q * Block + Block /\ q + 1 \in Nat
      BY <1>0 DEF DigestPlaced
    <3>3. QED
      BY <2>3, <3>1, <3>2
  <2>5. Len(held') < Block /\ held' \in Seq(DigestCell)
    BY <1>0, <2>1 DEF DigestPlaced
  <2>6. QED
    BY <1>5, <1>6, <2>1, <2>2, <2>3, <2>4, <2>5
<1>8. CASE Len(held) + 1 # Block
  <2>1. digested' = digested /\ held' = Append(held, cell)
    BY <1>8 DEF PadBy
  <2>2. Len(held') < Block /\ Fed' = Fed + 1
    <3>1. Len(held') = Len(held) + 1 /\ Len(digested') = Len(digested)
      BY <1>2, <2>1
    <3>2. QED
      BY <1>0, <1>8, <1>10, <3>1, SMTT(30) DEF DigestPlaced
  <2>3. QED
    BY <1>0, <1>1, <1>2, <1>5, <2>1, <2>2 DEF DigestPlaced
<1>9. QED
  BY <1>7, <1>8

LEMMA UpdateKeeps == DigestInv /\ Update /\ UNCHANGED message => DigestInv'
<1> SUFFICES ASSUME DigestInv, Update, UNCHANGED message
             PROVE  DigestInv'
  OBVIOUS
<1>0. DigestPlaced
  BY DigestTyped
<1>1. PICK n \in 1 .. ReadSize :
         LET data == SubSeq(message, read + 1, read + n)
         IN  /\ read + n <= Len(message)
             /\ TopUp(data) \/ Absorb(data)
             /\ read' = read + n
  BY DEF Update
<1> DEFINE data == SubSeq(message, read + 1, read + n)
<1>2. /\ stage = "reading" /\ stage' = stage /\ put' = put /\ put = 0
      /\ Fed = read /\ n \in Nat /\ n > 0
      /\ digested \o held = SubSeq(Padded(message), 1, read)
      /\ \E q \in Nat : Len(digested) = q * Block
  <2>1. stage = "reading" /\ stage' = stage /\ put' = put
    BY DEF Update
  <2>2. n \in Nat /\ n > 0
    BY DigestAssumption
  <2>3. Fed = read /\ put = 0
    BY <2>1 DEF DigestInv
  <2>4. /\ digested \o held = SubSeq(Padded(message), 1, Fed)
        /\ \E q \in Nat : Len(digested) = q * Block
    BY DEF DigestInv
  <2>5. QED
    BY <2>1, <2>2, <2>3, <2>4
<1>3. data \in Seq(DigestCell) /\ Len(data) = n
  <2>1. \A i \in read + 1 .. read + n : message[i] \in DigestCell
    <3>1. \A i \in read + 1 .. read + n : i \in 1 .. Len(message)
      BY <1>0, <1>1, <1>2 DEF DigestPlaced
    <3>2. QED
      BY <1>0, <3>1 DEF DigestPlaced
  <2> DEFINE from == read + 1
             to == read + n
  <2>2. from \in Int /\ to \in Int /\ from <= to /\ to - from + 1 = n
    BY <1>0, <1>2 DEF DigestPlaced
  <2>3. \A i \in from .. to : message[i] \in DigestCell
    BY <2>1
  <2> HIDE DEF from, to
  <2>4. /\ SubSeq(message, from, to) \in Seq(DigestCell)
        /\ Len(SubSeq(message, from, to)) = IF from <= to THEN to - from + 1 ELSE 0
    BY <2>2, <2>3, SubSeqProperties
  <2>5. QED
    BY <2>2, <2>4 DEF from, to
<1>4. SubSeq(Padded(message), 1, read) \o data = SubSeq(Padded(message), 1, read + n)
  <2> DEFINE P == Padded(message)
             L == Len(message)
             to == read + n
  <2>1. SubSeq(P, 1, L) = message /\ P \in Seq(DigestCell) /\ L \in Nat
    BY <1>0, PaddedIs DEF DigestPlaced
  <2>2. /\ Len(P) \in Nat /\ Len(P) >= L /\ to <= L /\ to >= 1 /\ to \in Nat /\ to >= read + 1
        /\ read \in Nat /\ 1 + (read + 1) - 1 = read + 1 /\ 1 + to - 1 = to
    BY <1>0, <1>1, <1>2 DEF DigestPlaced
  <2> HIDE DEF P, L, to
  <2>3. /\ 1 \in 1 .. Len(P) /\ L \in 1 .. Len(P)
        /\ read + 1 \in 1 .. L - 1 + 1 /\ to \in 1 .. L - 1 + 1
    BY <2>1, <2>2
  <2>4. SubSeq(SubSeq(P, 1, L), read + 1, to) = SubSeq(P, 1 + (read + 1) - 1, 1 + to - 1)
    BY <2>1, <2>3, SubSeqOfSubSeq, SMTT(30)
  <2>5. SubSeq(message, read + 1, to) = SubSeq(P, read + 1, to)
    BY <2>1, <2>2, <2>4
  <2>6. 1 \in 1 .. Len(P) + 1 /\ read \in 1 - 1 .. Len(P) /\ to \in read .. Len(P)
    BY <2>1, <2>2
  <2>7. SubSeq(P, 1, read) \o SubSeq(P, read + 1, to) = SubSeq(P, 1, to)
    BY <2>1, <2>6, ConcatAdjacentSubSeq
  <2>8. QED
    BY <2>5, <2>7 DEF P, to
<1>5. read' = read + n /\ read + n \in 0 .. Len(message)
  BY <1>0, <1>1, <1>2 DEF DigestPlaced
<1> DEFINE After(d, h) == /\ d \in Seq(DigestCell) /\ h \in Seq(DigestCell) /\ Len(h) < Block
                          /\ d \o h = (digested \o held) \o data
                          /\ \E q \in Nat : Len(d) = q * Block
<1>6. After(digested', held')
  <2> HIDE DEF data
  <2>1. CASE TopUp(data)
    <3>1. digested' = digested /\ held' = held \o data /\ Len(held) + Len(data) < Block
      BY <2>1 DEF TopUp
    <3>2. held' \in Seq(DigestCell) /\ Len(held') = Len(held) + Len(data)
      BY <1>0, <1>3, <3>1, ConcatProperties DEF DigestPlaced
    <3>3. digested' \o held' = (digested \o held) \o data
      <4>1. digested \in Seq(DigestCell) /\ held \in Seq(DigestCell) /\ data \in Seq(DigestCell)
        BY <1>0, <1>3 DEF DigestPlaced
      <4>2. QED
        BY <3>1, <4>1, CellsAssociate, Zenon
    <3>4. QED
      BY <1>0, <1>2, <3>1, <3>2, <3>3 DEF DigestPlaced
  <2>2. CASE Absorb(data)
    <3> DEFINE take == IF held = <<>> THEN 0 ELSE Block - Len(held)
               k == (Len(data) - take) \div Block
               used == take + k * Block
    <3>1. /\ digested' = digested \o (held \o SubSeq(data, 1, used))
          /\ held' = SubSeq(data, used + 1, Len(data))
      BY <2>2 DEF Absorb
    <3>2. take \in Nat /\ take <= n
      BY <1>0, <1>2, <1>3, <2>2 DEF Absorb, DigestPlaced
    <3>3. /\ k \in Nat /\ k * Block \in Nat /\ k * Block <= n - take
          /\ n - take < k * Block + Block
      <4>1. n - take \in Nat /\ Block \in Nat \ {0} /\ k = (n - take) \div Block
        BY <1>0, <1>2, <1>3, <3>2 DEF DigestPlaced
      <4> HIDE DEF take, k
      <4>2. QED
        BY <4>1
    <3>4. used \in 0 .. n /\ n - used < Block
      <4> DEFINE m == k * Block
      <4>1. /\ take \in Nat /\ take <= n /\ m \in Nat /\ m <= n - take /\ n - take < m + Block
            /\ used = take + m /\ Block \in Nat
        BY <1>0, <3>2, <3>3 DEF DigestPlaced
      <4> HIDE DEF take, m, used
      <4>2. QED
        BY <1>2, <4>1
    <3>5. (take = 0 /\ held = <<>> /\ Len(held) = 0) \/ take = Block - Len(held)
      BY DEF take
    <3> HIDE DEF take, k
    <3>6. /\ SubSeq(data, 1, used) \in Seq(DigestCell) /\ Len(SubSeq(data, 1, used)) = used
          /\ SubSeq(data, used + 1, n) \in Seq(DigestCell) /\ Len(SubSeq(data, used + 1, n)) = n - used
      <4>1. \A i \in 1 .. n : data[i] \in DigestCell
        BY <1>3
      <4>2. used \in Int /\ n \in Int /\ used >= 0 /\ used <= n
        BY <1>2, <3>4
      <4>3. /\ \A i \in 1 .. used : data[i] \in DigestCell
            /\ \A i \in used + 1 .. n : data[i] \in DigestCell
        BY <4>1, <4>2
      <4> HIDE DEF used
      <4>4. /\ SubSeq(data, 1, used) \in Seq(DigestCell)
            /\ Len(SubSeq(data, 1, used)) = IF 1 <= used THEN used - 1 + 1 ELSE 0
        BY <4>2, <4>3, SubSeqProperties
      <4>5. /\ SubSeq(data, used + 1, n) \in Seq(DigestCell)
            /\ Len(SubSeq(data, used + 1, n)) = IF used + 1 <= n THEN n - (used + 1) + 1 ELSE 0
        BY <4>2, <4>3, SubSeqProperties
      <4>6. QED
        BY <4>2, <4>4, <4>5
    <3>7. SubSeq(data, 1, used) \o SubSeq(data, used + 1, n) = data
      <4>1. 1 \in 1 .. Len(data) + 1 /\ used \in 1 - 1 .. Len(data) /\ n \in used .. Len(data)
        BY <1>2, <1>3, <3>4
      <4> HIDE DEF used
      <4>2. QED
        BY <1>2, <1>3, <4>1, ConcatAdjacentSubSeq, SubSeqFull
    <3>8. Len(held \o SubSeq(data, 1, used)) = Len(held) + used /\ held \o SubSeq(data, 1, used) \in Seq(DigestCell)
      BY <1>0, <3>6, ConcatProperties, SMTT(30) DEF DigestPlaced
    <3> DEFINE s == SubSeq(data, 1, used)
               t == SubSeq(data, used + 1, n)
    <3>9. digested' \o held' = (digested \o held) \o data
      <4>1. digested' = digested \o (held \o s) /\ held' = t /\ s \o t = data
        BY <1>3, <3>1, <3>7
      <4>2. s \in Seq(DigestCell) /\ t \in Seq(DigestCell) /\ digested \in Seq(DigestCell) /\ held \in Seq(DigestCell)
        BY <1>0, <3>6 DEF DigestPlaced
      <4> HIDE DEF s, t
      <4>3. digested \o held \in Seq(DigestCell)
        BY <4>2, ConcatProperties
      <4>4. digested \o (held \o s) = (digested \o held) \o s
        BY <4>2, CellsAssociate, Zenon
      <4>5. ((digested \o held) \o s) \o t = (digested \o held) \o (s \o t)
        BY <4>2, <4>3, CellsAssociate, Zenon
      <4>6. QED
        BY <4>1, <4>4, <4>5
    <3>10. digested' \in Seq(DigestCell) /\ Len(digested') = Len(digested) + (Len(held) + used)
      BY <1>0, <3>1, <3>8, ConcatProperties, SMTT(30) DEF DigestPlaced
    <3>11. \E q \in Nat : Len(digested') = q * Block
      <4>1. PICK q \in Nat : Len(digested) = q * Block
        BY <1>2
      <4>2. CASE Len(held) + take = 0
        <5>1. Len(digested') = q * Block + k * Block
          <6> DEFINE m == k * Block
          <6>1. m \in Nat /\ used = take + m
            BY <3>3
          <6> HIDE DEF m
          <6>2. QED
            BY <1>0, <3>2, <3>10, <4>1, <4>2, <6>1, SMTT(30) DEF DigestPlaced, m
        <5>2. q * Block + k * Block = (q + k) * Block /\ q + k \in Nat
          BY <1>0, <3>3 DEF DigestPlaced
        <5>3. QED
          BY <5>1, <5>2
      <4>3. CASE Len(held) + take = Block
        <5>1. Len(digested') = q * Block + Block + k * Block
          <6> DEFINE m == k * Block
          <6>1. m \in Nat /\ used = take + m
            BY <3>3
          <6> HIDE DEF m
          <6>2. QED
            <7>1. Len(digested) \in Nat /\ Len(held) \in Nat /\ Block \in Nat
              BY <1>0 DEF DigestPlaced
            <7>2. Len(digested') = Len(digested) + Block + m
              BY <3>2, <3>10, <4>3, <6>1, <7>1
            <7>3. QED
              BY <4>1, <7>2 DEF m
        <5>2. q * Block + Block + k * Block = (q + 1 + k) * Block /\ q + 1 + k \in Nat
          BY <1>0, <3>3 DEF DigestPlaced
        <5>3. QED
          BY <5>1, <5>2
      <4>4. QED
        BY <1>0, <3>5, <4>2, <4>3 DEF DigestPlaced
    <3>12. held' \in Seq(DigestCell) /\ Len(held') < Block
      BY <1>3, <3>1, <3>4, <3>6
    <3>13. QED
      BY <3>9, <3>10, <3>11, <3>12
  <2>3. QED
    BY <1>1, <2>1, <2>2 DEF data
<1>7. digested' \o held' = SubSeq(Padded(message), 1, read + n)
  BY <1>2, <1>4, <1>6
<1>8. Fed' = read + n
  <2>1. Len(digested' \o held') = Fed'
    BY <1>6, ConcatProperties DEF Fed
  <2>2. Len((digested \o held) \o data) = Fed + n
    <3>1. digested \o held \in Seq(DigestCell) /\ Len(digested \o held) = Fed
      BY <1>0, ConcatProperties DEF Fed, DigestPlaced
    <3> HIDE DEF data
    <3>2. QED
      BY <1>3, <3>1, ConcatProperties
  <2>3. QED
    BY <1>2, <1>6, <2>1, <2>2
<1>9. DigestTypeOK'
  BY <1>0, <1>2, <1>5, <1>6 DEF DigestInv, DigestTypeOK
<1>10. QED
  BY <1>2, <1>5, <1>6, <1>7, <1>8, <1>9 DEF DigestInv

(* The zeros end exactly where the standard's do.                          *)
LEMMA ZerosEnd ==
    ASSUME DigestInv, stage = "zeros"
    PROVE  Len(held) = Block - LengthField <=> Fed = Len(message) + 1 + Zeros(Len(message))
<1> DEFINE n == Len(message)
           z == Zeros(n)
           h == Len(held)
<1>1. /\ n \in Nat /\ h \in Nat /\ h < Block /\ z \in Nat /\ Len(digested) \in Nat
      /\ Block \in Nat \ {0} /\ LengthField \in Nat /\ 0 < LengthField /\ LengthField < Block
  BY DigestTyped DEF DigestPlaced
<1>2. z < Block
  BY <1>1, ZerosAre, SMTT(30)
<1>3. PICK q \in Nat : n + 1 + z + LengthField = q * Block
  BY <1>1, ZerosAre
<1>4. PICK p \in Nat : Len(digested) = p * Block
  BY DEF DigestInv
<1>5. Fed = Len(digested) + h /\ Fed >= n + 1 /\ Fed <= n + 1 + z
  BY <1>1 DEF DigestInv, Fed
<1> DEFINE whole == (p + 1) * Block
           all == q * Block
<1>6. whole = Len(digested) + Block /\ whole \in Int /\ all \in Int /\ p + 1 \in Int /\ q \in Int
  BY <1>1, <1>4
<1>7. whole - all < Block /\ all - whole < Block => p + 1 = q
  BY <1>1, <1>6, SameBlocks
<1> HIDE DEF n, z, h, whole, all
<1>8. n + 1 + z + LengthField = all
  BY <1>3 DEF all
<1>9. ASSUME h = Block - LengthField
      PROVE  Fed = n + 1 + z
  <2>1. Fed + LengthField = whole
    BY <1>1, <1>5, <1>6, <1>9
  <2>2. whole - all < Block /\ all - whole < Block
    BY <1>1, <1>2, <1>5, <1>6, <1>8, <2>1
  <2>3. whole = all
    BY <1>7, <2>2 DEF whole, all
  <2>4. QED
    BY <1>1, <1>5, <1>8, <2>1, <2>3
<1>10. ASSUME Fed = n + 1 + z
       PROVE  h = Block - LengthField
  <2>1. all = whole - Block + h + LengthField
    BY <1>1, <1>5, <1>6, <1>8, <1>10
  <2>2. whole - all < Block /\ all - whole < Block
    BY <1>1, <1>6, <2>1
  <2>3. whole = all
    BY <1>7, <2>2 DEF whole, all
  <2>4. QED
    BY <1>1, <1>6, <2>1, <2>3
<1>11. QED
  BY <1>9, <1>10 DEF n, z, h

LEMMA FailToReadKeeps == DigestInv /\ FailToRead /\ UNCHANGED message => DigestInv'
BY DEF FailToRead, DigestInv, DigestTypeOK, Fed

LEMMA PadEndKeeps == DigestInv /\ PadEnd /\ UNCHANGED message => DigestInv'
<1> SUFFICES ASSUME DigestInv, PadEnd, UNCHANGED message
             PROVE  DigestInv'
  OBVIOUS
<1>0. DigestPlaced
  BY DigestTyped
<1>1. /\ stage = "reading" /\ stage' = "zeros" /\ read = Len(message) /\ PadBy(End)
      /\ read' = read /\ put' = put
  BY DEF PadEnd
<1>2. Fed = Len(message) /\ put = 0
  BY <1>1 DEF DigestInv
<1>3. End \in DigestCell /\ End = Padded(message)[Fed + 1] /\ Fed < Len(Padded(message))
  <2>1. End \in DigestCell
    BY DEF DigestCell
  <2>2. End = Padded(message)[Fed + 1]
    BY <1>0, <1>2, PaddedIs DEF DigestPlaced
  <2>3. Fed < Len(Padded(message))
    BY <1>0, <1>2 DEF DigestPlaced
  <2>4. QED
    BY <2>1, <2>2, <2>3
<1>4. /\ digested' \in Seq(DigestCell) /\ held' \in Seq(DigestCell) /\ Len(held') < Block
      /\ Fed' = Fed + 1
      /\ digested' \o held' = SubSeq(Padded(message), 1, Fed + 1)
      /\ \E q \in Nat : Len(digested') = q * Block
  BY <1>1, <1>3, PadByKeeps
<1>5. Fed + 1 \in Len(message) + 1 .. Len(message) + 1 + Zeros(Len(message))
  BY <1>0, <1>2 DEF DigestPlaced
<1>6. DigestTypeOK'
  BY <1>1, <1>4 DEF DigestInv, DigestTypeOK
<1>7. QED
  BY <1>1, <1>2, <1>4, <1>5, <1>6 DEF DigestInv

LEMMA PadZeroKeeps == DigestInv /\ PadZero /\ UNCHANGED message => DigestInv'
<1> SUFFICES ASSUME DigestInv, PadZero, UNCHANGED message
             PROVE  DigestInv'
  OBVIOUS
<1>0. DigestPlaced
  BY DigestTyped
<1>1. /\ stage = "zeros" /\ stage' = stage /\ Len(held) # Block - LengthField /\ PadBy(Zero)
      /\ read' = read /\ put' = put
  BY DEF PadZero
<1>2. /\ Fed \in Len(message) + 1 .. Len(message) + 1 + Zeros(Len(message))
      /\ Fed # Len(message) + 1 + Zeros(Len(message))
      /\ put = 0 /\ read = Len(message)
  BY <1>1, ZerosEnd DEF DigestInv
<1>3. Fed + 1 \in Len(message) + 2 .. Len(message) + 1 + Zeros(Len(message))
  <2>1. Len(message) \in Nat /\ Zeros(Len(message)) \in Nat
    BY <1>0 DEF DigestPlaced
  <2>2. QED
    BY <1>2, <2>1
<1>4. Zero \in DigestCell /\ Zero = Padded(message)[Fed + 1] /\ Fed < Len(Padded(message))
  <2>1. Zero \in DigestCell
    BY DEF DigestCell
  <2>2. Zero = Padded(message)[Fed + 1]
    BY <1>0, <1>3, PaddedIs DEF DigestPlaced
  <2>3. Fed < Len(Padded(message))
    BY <1>0, <1>3 DEF DigestPlaced
  <2>4. QED
    BY <2>1, <2>2, <2>3
<1>5. /\ digested' \in Seq(DigestCell) /\ held' \in Seq(DigestCell) /\ Len(held') < Block
      /\ Fed' = Fed + 1
      /\ digested' \o held' = SubSeq(Padded(message), 1, Fed + 1)
      /\ \E q \in Nat : Len(digested') = q * Block
  BY <1>1, <1>4, PadByKeeps
<1>6. Fed + 1 \in Len(message) + 1 .. Len(message) + 1 + Zeros(Len(message))
  BY <1>0, <1>3 DEF DigestPlaced
<1>7. DigestTypeOK'
  BY <1>1, <1>5 DEF DigestInv, DigestTypeOK
<1>8. QED
  BY <1>1, <1>2, <1>5, <1>6, <1>7 DEF DigestInv

LEMMA PadLengthKeeps == DigestInv /\ PadLength /\ UNCHANGED message => DigestInv'
<1> SUFFICES ASSUME DigestInv, PadLength, UNCHANGED message
             PROVE  DigestInv'
  OBVIOUS
<1> DEFINE zeroed == Len(message) + 1 + Zeros(Len(message))
           cell == LengthCell(read, put + 1)
<1>0. DigestPlaced
  BY DigestTyped
<1>1. /\ stage = "length" \/ (stage = "zeros" /\ Len(held) = Block - LengthField)
      /\ PadBy(cell) /\ read' = read /\ put' = put + 1
      /\ stage' = IF put' = LengthField THEN "done" ELSE "length"
  BY DEF PadLength
<1>2. Fed = zeroed + put /\ put < LengthField /\ read = Len(message)
  <2>1. CASE stage = "length"
    BY <2>1 DEF DigestInv
  <2>2. CASE stage = "zeros" /\ Len(held) = Block - LengthField
    <3>1. Fed = zeroed /\ put = 0 /\ read = Len(message)
      BY <2>2, ZerosEnd DEF DigestInv
    <3>2. QED
      BY <1>0, <3>1 DEF DigestPlaced
  <2>3. QED
    BY <1>1, <2>1, <2>2
<1>3. put + 1 \in 1 .. LengthField /\ Fed + 1 = zeroed + (put + 1) /\ Fed < Len(Padded(message))
  BY <1>0, <1>2 DEF DigestPlaced
<1>4. cell \in DigestCell /\ cell = Padded(message)[Fed + 1]
  <2>1. cell \in DigestCell
    BY <1>0, <1>2, <1>3, SMTT(30) DEF DigestCell, DigestPlaced
  <2>2. message \in Messages
    BY <1>0 DEF DigestPlaced
  <2>3. Padded(message)[zeroed + (put + 1)] = LengthCell(Len(message), put + 1)
    BY <1>3, <2>2, PaddedIs
  <2>4. QED
    BY <1>2, <1>3, <2>1, <2>3
<1> HIDE DEF cell
<1>5. /\ digested' \in Seq(DigestCell) /\ held' \in Seq(DigestCell) /\ Len(held') < Block
      /\ Fed' = Fed + 1
      /\ digested' \o held' = SubSeq(Padded(message), 1, Fed + 1)
      /\ \E q \in Nat : Len(digested') = q * Block
  BY <1>1, <1>3, <1>4, PadByKeeps
<1>6. DigestTypeOK'
  BY <1>1, <1>3, <1>5 DEF DigestInv, DigestTypeOK
<1>7. Fed' = zeroed + put' /\ (put' # LengthField => put' < LengthField)
  BY <1>0, <1>1, <1>3, <1>5 DEF DigestPlaced
<1>8. QED
  BY <1>1, <1>2, <1>5, <1>6, <1>7 DEF DigestInv

LEMMA DigestKept == DigestInv /\ [DigestNext]_digestVars => DigestInv'
<1>1. DigestInv /\ UNCHANGED digestVars => DigestInv'
  BY DEF digestVars, DigestInv, DigestTypeOK, Fed
<1>2. QED
  BY <1>1, UpdateKeeps, FailToReadKeeps, PadEndKeeps, PadZeroKeeps, PadLengthKeeps DEF DigestNext

(* What is compressed and what is held are, together, what was read and    *)
(* what the padding has put behind it so far.                              *)
THEOREM DigestInvariant == DigestSpec => []DigestInv
BY DigestStarts, DigestKept, PTL DEF DigestSpec

(* Every octet is held where there is room for it.                         *)
THEOREM DigestTypeCorrect == DigestSpec => []DigestTypeOK
<1>1. DigestInv => DigestTypeOK
  BY DEF DigestInv
<1>2. QED
  BY <1>1, DigestInvariant, PTL

(* A digest is of what the standard says, whatever the file and however    *)
(* its reads were cut.                                                     *)
THEOREM DigestIsStandardAlways == DigestSpec => []DigestIsStandard
<1>1. DigestInv => DigestIsStandard
  <2> SUFFICES ASSUME DigestInv
               PROVE  DigestIsStandard
    OBVIOUS
  <2>0. DigestPlaced
    BY DigestTyped
  <2>1. ASSUME stage = "done"
        PROVE  digested = Padded(message) /\ held = <<>>
    <3> DEFINE all == Len(Padded(message))
               h == Len(held)
    <3>1. Fed = all
      BY <2>0, <2>1 DEF DigestInv, DigestPlaced
    <3>2. digested \o held = Padded(message)
      BY <2>0, <3>1, SubSeqFull DEF DigestInv, DigestPlaced
    <3>3. PICK p \in Nat : Len(digested) = p * Block
      BY DEF DigestInv
    <3>4. PICK q \in Nat : all = q * Block
      BY <2>0, ZerosAre DEF DigestPlaced
    <3>5. all = Len(digested) + h /\ Len(digested) \in Nat /\ h \in Nat /\ h < Block /\ Block \in Nat \ {0}
      BY <2>0, <3>1 DEF DigestPlaced, Fed
    <3>6. p = q
      <4> DEFINE mine == p * Block
                 whole == q * Block
      <4>1. whole = mine + h /\ mine \in Int
        BY <3>3, <3>4, <3>5
      <4>2. mine - whole < Block /\ whole - mine < Block => p = q
        BY <3>5, SameBlocks
      <4> HIDE DEF mine, whole, h
      <4>3. QED
        BY <3>5, <4>1, <4>2
    <3>7. Len(held) = 0
      BY <3>3, <3>4, <3>5, <3>6
    <3>8. held = <<>>
      BY <2>0, <3>7 DEF DigestPlaced
    <3>9. QED
      BY <2>0, <3>2, <3>8, ConcatEmptySeq DEF DigestPlaced
  <2>2. Len(digested) + Len(held) <= Len(Padded(message))
    BY <2>0 DEF DigestPlaced, Fed
  <2>3. QED
    BY <2>1, <2>2 DEF DigestIsStandard
<1>2. QED
  BY <1>1, DigestInvariant, PTL

----------------------------------------------------------------------------
(* Sending a part of an image                                              *)

LEMMA LeastMost ==
    ASSUME NEW m \in Int, NEW n \in Int
    PROVE  /\ Least(m, n) \in {m, n} /\ Least(m, n) <= m /\ Least(m, n) <= n
           /\ Most(m, n) \in {m, n} /\ Most(m, n) >= m /\ Most(m, n) >= n
BY DEF Least, Most

(* A set of natural numbers that has some, none of them above a bound, has *)
(* a greatest.                                                             *)
LEMMA LatestIsOne ==
    ASSUME NEW n \in Nat, NEW those, those \subseteq 1 .. n, those # {}
    PROVE  Latest(those) \in those
<1> DEFINE away == {n - k : k \in those}
<1>1. away \subseteq Nat /\ away # {}
  <2>1. \A k \in those : n - k \in Nat
    OBVIOUS
  <2>2. QED
    BY <2>1
<1> DEFINE below == OpToRel(<, Nat)
<1>2. \E x \in away : \A y \in away : ~(<<y, x>> \in below)
  BY <1>1, NatLessThanWellFounded, WFMin, Zenon
<1>3. \A x \in Nat, y \in Nat : <<y, x>> \in below <=> y < x
  BY DEF OpToRel
<1>4. PICK x \in away : \A y \in away : ~(y < x)
  BY <1>1, <1>2, <1>3
<1>5. PICK k \in those : x = n - k
  OBVIOUS
<1>6. \A j \in those : j <= k
  BY <1>4, <1>5
<1>7. QED
  BY <1>6 DEF Latest

(* What a plan is, one number at a time.                                   *)
SourceLen(p) == Len(p.source)
TailLen(p) == Len(p.tail)

Planned(p) ==
    /\ p.source \in Seq(Cell) /\ p.tail \in Seq(Cell)
    /\ SourceLen(p) \in Nat /\ TailLen(p) \in Nat /\ PlanLen(p) \in Nat
    /\ PlanLen(p) = SourceLen(p) + TailLen(p)
    /\ \A k \in DOMAIN p.overwrites :
          /\ p.overwrites[k].at \in Nat /\ p.overwrites[k].cells \in Seq(Cell)
          /\ Len(p.overwrites[k].cells) \in Nat

LEMMA PlansAre == ASSUME NEW p, IsPlan(p) PROVE Planned(p)
<1>1. /\ p.source \in Seq(Cell) /\ p.tail \in Seq(Cell)
      /\ p.overwrites \in Seq([at : Nat, cells : Seq(Cell)])
  BY DEF IsPlan
<1>2. ASSUME NEW k \in DOMAIN p.overwrites
      PROVE  p.overwrites[k].at \in Nat /\ p.overwrites[k].cells \in Seq(Cell)
  <2>1. p.overwrites[k] \in [at : Nat, cells : Seq(Cell)]
    <3> DEFINE any == [at : Nat, cells : Seq(Cell)]
               those == p.overwrites
    <3>1. those \in Seq(any) /\ k \in DOMAIN those
      BY <1>1
    <3> HIDE DEF any, those
    <3>2. those[k] \in any
      BY <3>1
    <3>3. QED
      BY <3>2 DEF any, those
  <2>2. QED
    BY <2>1
<1>3. SourceLen(p) \in Nat /\ TailLen(p) \in Nat
  BY <1>1 DEF SourceLen, TailLen
<1>4. SourceLen(p) + TailLen(p) \in Nat
  BY <1>3
<1>5. \A k \in DOMAIN p.overwrites : Len(p.overwrites[k].cells) \in Nat
  BY <1>2
<1>6. QED
  BY <1>1, <1>2, <1>3, <1>4, <1>5, Zenon DEF Planned, PlanLen, SourceLen, TailLen

(* Which overwrites lie over a cell, its offset i from an image's start.   *)
Covering(p, i) ==
    {k \in DOMAIN p.overwrites :
        i - 1 \in p.overwrites[k].at .. p.overwrites[k].at + Len(p.overwrites[k].cells) - 1}

LEMMA CoveringLast ==
    ASSUME NEW p, IsPlan(p), NEW i \in Nat, Covering(p, i) # {}
    PROVE  /\ Latest(Covering(p, i)) \in DOMAIN p.overwrites
           /\ LET o == p.overwrites[Latest(Covering(p, i))]
              IN  i - o.at \in 1 .. Len(o.cells) /\ o.at \in Nat /\ o.cells \in Seq(Cell)
<1>0. Planned(p)
  BY PlansAre
<1>1. Latest(Covering(p, i)) \in Covering(p, i)
  <2>1. DOMAIN p.overwrites = 1 .. Len(p.overwrites) /\ Len(p.overwrites) \in Nat
    BY DEF IsPlan
  <2>2. QED
    BY <2>1, LatestIsOne DEF Covering
<1> DEFINE k == Latest(Covering(p, i))
<1>2. /\ k \in DOMAIN p.overwrites
      /\ i - 1 \in p.overwrites[k].at .. p.overwrites[k].at + Len(p.overwrites[k].cells) - 1
  BY <1>1 DEF Covering
<1> HIDE DEF k
<1>3. QED
  BY <1>0, <1>2, SMTT(30) DEF Planned, k

(* The patched image, cell by cell.                                        *)
LEMMA PatchedIs ==
    ASSUME NEW p, IsPlan(p), NEW i \in 1 .. PlanLen(p)
    PROVE  /\ Patched(p)[i] =
                 IF Covering(p, i) # {}
                 THEN p.overwrites[Latest(Covering(p, i))].cells[i - p.overwrites[Latest(Covering(p, i))].at]
                 ELSE IF i <= SourceLen(p) THEN p.source[i] ELSE p.tail[i - SourceLen(p)]
           /\ Patched(p)[i] \in Cell
<1>0. Planned(p)
  BY PlansAre
<1>1. Patched(p)[i] =
         IF Covering(p, i) # {}
         THEN p.overwrites[Latest(Covering(p, i))].cells[i - p.overwrites[Latest(Covering(p, i))].at]
         ELSE IF i <= SourceLen(p) THEN p.source[i] ELSE p.tail[i - SourceLen(p)]
  BY Zenon DEF Patched, Covering, SourceLen
<1>2. CASE Covering(p, i) # {}
  <2>1. i \in Nat
    BY <1>0 DEF Planned
  <2>2. p.overwrites[Latest(Covering(p, i))].cells[i - p.overwrites[Latest(Covering(p, i))].at] \in Cell
    BY <1>2, <2>1, CoveringLast
  <2>3. QED
    BY <1>1, <1>2, <2>2
<1>3. CASE Covering(p, i) = {}
  <2> DEFINE s == p.source
             t == p.tail
  <2>0. /\ s \in Seq(Cell) /\ t \in Seq(Cell)
        /\ SourceLen(p) \in Nat /\ TailLen(p) \in Nat /\ PlanLen(p) = SourceLen(p) + TailLen(p)
        /\ SourceLen(p) = Len(s) /\ TailLen(p) = Len(t)
    BY <1>0, Zenon DEF Planned, SourceLen, TailLen
  <2> HIDE DEF s, t
  <2>1. i <= SourceLen(p) => s[i] \in Cell
    BY <2>0
  <2>2. ~(i <= SourceLen(p)) => t[i - SourceLen(p)] \in Cell
    BY <2>0
  <2> USE DEF s, t
  <2>3. QED
    BY <1>1, <1>3, <2>1, <2>2
<1>4. QED
  BY <1>1, <1>2, <1>3

(* A window of it that is read is what is there, across the end of the     *)
(* source and whatever of an overwrite is in it.                           *)
LEMMA ReadAtIs ==
    ASSUME NEW p, IsPlan(p), NEW offset \in Nat, NEW n \in Nat, offset + n <= PlanLen(p)
    PROVE  /\ ReadAt(p, offset, n) \in Seq(Cell) /\ Len(ReadAt(p, offset, n)) = n
           /\ \A i \in 1 .. n : ReadAt(p, offset, n)[i] = Patched(p)[offset + i]
<1> DEFINE want == Most(Least(n, PlanLen(p) - offset), 0)
           fromSource == Least(Most(SourceLen(p) - offset, 0), want)
           inTail(i) == TailStart(p, offset) + i - fromSource
           bare(i) == IF i <= fromSource THEN p.source[offset + i]
                      ELSE IF inTail(i) <= TailLen(p) THEN p.tail[inTail(i)] ELSE Pad
           over(k) == Over(p.overwrites[k], offset, want)
           those(i) == {k \in DOMAIN p.overwrites : over(k)[1] < i /\ i <= over(k)[2]}
           patched(i) == LET o == p.overwrites[Latest(those(i))]
                     IN  o.cells[Most(o.at, offset) - o.at + i - (Most(o.at, offset) - offset)]
           cell(i) == IF those(i) = {} THEN bare(i) ELSE patched(i)
<1>0. Planned(p)
  BY PlansAre
<1>1. ReadAt(p, offset, n) = [i \in 1 .. want |-> cell(i)]
  BY Zenon DEF ReadAt, SourceLen, TailLen
<1>2. want = n
  <2> DEFINE left == PlanLen(p) - offset
  <2>1. left \in Int /\ n <= left
    BY <1>0 DEF Planned
  <2> HIDE DEF left
  <2>2. Most(Least(n, left), 0) = n
    BY <2>1 DEF Least, Most
  <2>3. QED
    BY <2>2 DEF left
<1>3. ASSUME NEW i \in 1 .. n
      PROVE  those(i) = Covering(p, offset + i)
  <2>1. ASSUME NEW k \in DOMAIN p.overwrites
        PROVE  over(k)[1] < i /\ i <= over(k)[2]
               <=> offset + i - 1 \in p.overwrites[k].at .. p.overwrites[k].at + Len(p.overwrites[k].cells) - 1
    <3> HIDE DEF want
    <3>1. p.overwrites[k].at \in Nat /\ Len(p.overwrites[k].cells) \in Nat
      BY <1>0 DEF Planned
    <3>2. QED
      BY <1>2, <3>1, SMTT(30) DEF Over, Least, Most
  <2> HIDE DEF over
  <2>2. QED
    BY <2>1 DEF Covering
<1>4. ASSUME NEW i \in 1 .. n, Covering(p, offset + i) = {}
      PROVE  bare(i) = IF offset + i <= SourceLen(p) THEN p.source[offset + i]
                       ELSE p.tail[(offset + i) - SourceLen(p)]
  <2>0. TailStart(p, offset) = Most(offset - SourceLen(p), 0)
    BY Zenon DEF TailStart, SourceLen
  <2> HIDE DEF want
  <2>1. /\ i <= fromSource <=> offset + i <= SourceLen(p)
        /\ ~(i <= fromSource) => inTail(i) = (offset + i) - SourceLen(p) /\ inTail(i) <= TailLen(p)
    BY <1>0, <1>2, <2>0 DEF Planned, Least, Most
  <2> HIDE DEF fromSource, inTail
  <2>2. QED
    BY <2>1
<1>5. ASSUME NEW i \in 1 .. n, Covering(p, offset + i) # {}
      PROVE  patched(i) = p.overwrites[Latest(Covering(p, offset + i))].cells
                         [(offset + i) - p.overwrites[Latest(Covering(p, offset + i))].at]
  <2> DEFINE o == p.overwrites[Latest(Covering(p, offset + i))]
  <2>1. those(i) = Covering(p, offset + i)
    BY <1>3
  <2> HIDE DEF those
  <2>2. patched(i) = o.cells[Most(o.at, offset) - o.at + i - (Most(o.at, offset) - offset)]
    BY <2>1
  <2>3. o.at \in Nat
    BY <1>5, CoveringLast
  <2>4. Most(o.at, offset) \in Nat
    BY <2>3 DEF Most
  <2> HIDE DEF o, patched
  <2>5. Most(o.at, offset) - o.at + i - (Most(o.at, offset) - offset) = (offset + i) - o.at
    BY <2>3, <2>4
  <2>6. QED
    BY <2>2, <2>5 DEF o
<1>6. ASSUME NEW i \in 1 .. n
      PROVE  cell(i) = Patched(p)[offset + i] /\ cell(i) \in Cell
  <2>1. offset + i \in 1 .. PlanLen(p)
    BY <1>0 DEF Planned
  <2>2. those(i) = Covering(p, offset + i)
    BY <1>3
  <2>3. Patched(p)[offset + i] =
           IF Covering(p, offset + i) # {}
           THEN p.overwrites[Latest(Covering(p, offset + i))].cells
                   [(offset + i) - p.overwrites[Latest(Covering(p, offset + i))].at]
           ELSE IF offset + i <= SourceLen(p) THEN p.source[offset + i] ELSE p.tail[(offset + i) - SourceLen(p)]
    BY <2>1, PatchedIs, Zenon
  <2> HIDE DEF those, bare, patched
  <2>4. CASE Covering(p, offset + i) = {}
    <3>1. bare(i) = IF offset + i <= SourceLen(p) THEN p.source[offset + i]
                    ELSE p.tail[(offset + i) - SourceLen(p)]
      BY <1>4, <2>4, Zenon
    <3>2. QED
      BY <2>2, <2>3, <2>4, <2>1, <3>1, PatchedIs, Zenon
  <2>5. CASE Covering(p, offset + i) # {}
    <3>1. patched(i) = p.overwrites[Latest(Covering(p, offset + i))].cells
                      [(offset + i) - p.overwrites[Latest(Covering(p, offset + i))].at]
      BY <1>5, <2>5, Zenon
    <3>2. QED
      BY <2>2, <2>3, <2>5, <2>1, <3>1, PatchedIs, Zenon
  <2>6. QED
    BY <2>4, <2>5
<1> HIDE DEF want, cell
<1>7. QED
  BY <1>1, <1>2, <1>6

(* What is sent of an answer, one segment after the other, none of them    *)
(* over another.                                                           *)
IsSegment(s) ==
    /\ s.kind \in {"file", "plan", "bytes"}
    /\ s.from \in Nat /\ s.offset \in Nat /\ s.length \in Nat
    /\ s.kind = "plan" => IsPlan(s.plan) /\ s.offset + s.length <= PlanLen(s.plan)
    /\ s.kind # "plan" => s.cells \in Seq(Cell)
    /\ s.kind = "bytes" => s.offset = 0 /\ s.length = Len(s.cells)

Laid(segs) ==
    /\ Len(segs) \in Nat \ {0} /\ DOMAIN segs = 1 .. Len(segs)
    /\ \A j \in 1 .. Len(segs) : IsSegment(segs[j])
    /\ segs[1].from = 0
    /\ \A j \in 1 .. Len(segs) - 1 : segs[j + 1].from = segs[j].from + segs[j].length
    /\ \A j, k \in 1 .. Len(segs) : j < k => segs[j].from + segs[j].length <= segs[k].from

LEMMA OneIsLaid ==
    ASSUME NEW s, IsSegment(s), s.from = 0
    PROVE  Laid(<<s>>) /\ Total(<<s>>) = s.length
<1>1. Len(<<s>>) = 1 /\ <<s>>[1] = s /\ DOMAIN <<s>> = 1 .. 1
  OBVIOUS
<1>2. s.length \in Nat
  BY DEF IsSegment
<1> DEFINE segs == <<s>>
<1> HIDE DEF segs
<1>3. Len(segs) = 1 /\ segs[1] = s /\ DOMAIN segs = 1 .. 1
  BY <1>1 DEF segs
<1>4. Laid(segs)
  BY <1>3 DEF Laid
<1>5. Total(segs) = s.length
  <2>1. Total(segs) = s.from + s.length
    BY <1>3, Zenon DEF Total
  <2>2. QED
    BY <1>2, <2>1
<1>6. QED
  BY <1>4, <1>5 DEF segs

LEMMA CeilIs ==
    ASSUME NEW n \in Nat
    PROVE  Ceil(n, 4) \in Nat /\ Ceil(n, 4) >= n /\ Ceil(n, 4) % 4 = 0
<1> DEFINE q == (n + 4 - 1) \div 4
<1>1. q \in Nat /\ q * 4 >= n
  OBVIOUS
<1> HIDE DEF q
<1>2. q * 4 \in Nat /\ (q * 4) % 4 = 0
  BY <1>1
<1>3. Ceil(n, 4) = q * 4
  BY DEF Ceil, q
<1>4. QED
  BY <1>1, <1>2, <1>3

LEMMA NamesAre == Member(11, 0).prefix = 124 /\ Trailer = 512
<1>1. Ceil(110 + 11 + 1, 4) = 124 /\ Ceil(110 + 10 + 1, 4) = 124 /\ Ceil(124, 512) = 512
  BY DEF Ceil
<1>2. Member(11, 0).prefix = Ceil(110 + 11 + 1, 4) /\ Member(10, 0).prefix = Ceil(110 + 10 + 1, 4)
  BY DEF Member
<1>3. QED
  BY <1>1, <1>2 DEF Trailer

LEMMA PadsAre == ASSUME NEW n \in Nat PROVE Pads(n) \in Seq(Cell) /\ Len(Pads(n)) = n
BY StreamAssumption DEF Pads

(* What follows an initrd, without a last padding and with one.            *)
LEMMA FourInAll ==
    ASSUME NEW v, NEW w, NEW x, NEW z, NEW q, q = <<v, w, x>> \o <<>> \o <<z>>
    PROVE  Len(q) = 4 /\ DOMAIN q = 1 .. 4 /\ q[1] = v /\ q[2] = w /\ q[3] = x /\ q[4] = z
<1> DEFINE All == {v, w, x, z}
           one == <<v, w, x>>
           last == <<z>>
<1>1. /\ one \in Seq(All) /\ Len(one) = 3 /\ one[1] = v /\ one[2] = w /\ one[3] = x
      /\ last \in Seq(All) /\ Len(last) = 1 /\ last[1] = z
  OBVIOUS
<1>2. q = one \o last
  BY <1>1, ConcatEmptySeq
<1> HIDE DEF All, one, last
<1>3. /\ one \o last \in Seq(All) /\ Len(one \o last) = Len(one) + Len(last)
      /\ \A i \in 1 .. Len(one) + Len(last) :
            (one \o last)[i] = IF i <= Len(one) THEN one[i] ELSE last[i - Len(one)]
  BY <1>1, ConcatProperties, Zenon
<1>4. QED
  BY <1>1, <1>2, <1>3

FiveOf(q, v, w, x, y, z) ==
    /\ Len(q) = 5 /\ DOMAIN q = 1 .. 5
    /\ q[1] = v /\ q[2] = w /\ q[3] = x /\ q[4] = y /\ q[5] = z

LEMMA FiveInAll ==
    ASSUME NEW v, NEW w, NEW x, NEW y, NEW z
    PROVE  FiveOf(<<v, w, x>> \o <<y>> \o <<z>>, v, w, x, y, z)
<1> DEFINE All == {v, w, x, y, z}
           one == <<v, w, x>>
           two == <<y>>
           last == <<z>>
           four == one \o two
           q == <<v, w, x>> \o <<y>> \o <<z>>
<1>1. /\ one \in Seq(All) /\ Len(one) = 3 /\ one[1] = v /\ one[2] = w /\ one[3] = x
      /\ two \in Seq(All) /\ Len(two) = 1 /\ two[1] = y
      /\ last \in Seq(All) /\ Len(last) = 1 /\ last[1] = z
  OBVIOUS
<1>2. q = four \o last
  OBVIOUS
<1> HIDE DEF All, one, two, last, q
<1>3. /\ four \in Seq(All) /\ Len(four) = Len(one) + Len(two)
      /\ \A i \in 1 .. Len(one) + Len(two) :
            four[i] = IF i <= Len(one) THEN one[i] ELSE two[i - Len(one)]
  BY <1>1, ConcatProperties, Zenon
<1> HIDE DEF four
<1>4. four \in Seq(All) /\ last \in Seq(All)
  BY <1>1, <1>3
<1>5. /\ four \o last \in Seq(All) /\ Len(four \o last) = Len(four) + Len(last)
      /\ \A i \in 1 .. Len(four) + Len(last) :
            (four \o last)[i] = IF i <= Len(four) THEN four[i] ELSE last[i - Len(four)]
  BY <1>4, ConcatProperties, Zenon
<1>6. four[1] = v /\ four[2] = w /\ four[3] = x /\ four[4] = y /\ Len(four) = 4
  BY <1>1, <1>3
<1>7. QED
  BY <1>1, <1>2, <1>5, <1>6 DEF FiveOf, q

(* The archive after an initrd, its boundaries a multiple of four away.    *)
LEMMA ArchiveIsLaid ==
    ASSUME NEW initrd, IsSegment(initrd), initrd.from = 0,
           NEW image \in Seq(Cell), NEW size \in Nat
    PROVE  /\ Laid(InitrdIso(initrd, image, size))
           /\ LET s == InitrdIso(initrd, image, size)
              IN  /\ Len(s) > 1 /\ s[1] = initrd
                  /\ Aligned(s)
                  /\ initrd.length % 4 = 0 => s[3].from % 4 = 0 /\ s[Len(s)].from % 4 = 0
<1> DEFINE pre == Member(11, size).prefix
           pad == Member(11, size).padding
           il == initrd.length
           imageAt == il + pre
           padAt == imageAt + size
           endAt == padAt + pad
           b == Bytes(il, Pads(pre))
           c == FileSegment(imageAt, image, 0, size)
           d == Bytes(padAt, Pads(pad))
           e == Bytes(endAt, Pads(Trailer))
           s == InitrdIso(initrd, image, size)
<1>1. /\ pre \in Nat /\ pad \in Nat /\ pre % 4 = 0 /\ (size + pad) % 4 = 0 /\ Trailer \in Nat
  <2>1. pre = Member(11, 0).prefix /\ pad = Ceil(size, 4) - size
    BY DEF Member
  <2> HIDE DEF pre, pad
  <2>2. Ceil(size, 4) \in Nat /\ Ceil(size, 4) >= size /\ Ceil(size, 4) % 4 = 0
    BY CeilIs
  <2>3. QED
    BY <2>1, <2>2, NamesAre
<1>2. il \in Nat
  BY DEF IsSegment
<1> HIDE DEF pre, pad, il
<1>3. /\ imageAt \in Nat /\ padAt \in Nat /\ endAt \in Nat
      /\ imageAt = il + pre /\ padAt = imageAt + size /\ endAt = padAt + pad
  BY <1>1, <1>2
<1>4. /\ (imageAt - il) % 4 = 0 /\ (endAt - il) % 4 = 0
      /\ il % 4 = 0 => imageAt % 4 = 0 /\ endAt % 4 = 0
  BY <1>1, <1>2
<1> HIDE DEF imageAt, padAt, endAt
<1>5. /\ IsSegment(b) /\ b.from = il /\ b.length = pre
      /\ IsSegment(c) /\ c.from = imageAt /\ c.length = size
      /\ IsSegment(d) /\ d.from = padAt /\ d.length = pad
      /\ IsSegment(e) /\ e.from = endAt /\ e.length = Trailer
  BY <1>1, <1>2, <1>3, PadsAre DEF IsSegment, Bytes, FileSegment
<1>6. s = <<initrd, b, c>> \o (IF pad > 0 THEN <<d>> ELSE <<>>) \o <<e>>
  BY Zenon DEF InitrdIso, pre, pad, il, imageAt, padAt, endAt
<1>7. initrd.from = 0 /\ initrd.length = il /\ IsSegment(initrd)
  BY DEF il
<1> HIDE DEF b, c, d, e, s
<1> DEFINE boundary == Len(s) > 1 /\ s[1] = initrd
                       /\ Aligned(s)
                       /\ (il % 4 = 0 => s[3].from % 4 = 0 /\ s[Len(s)].from % 4 = 0)
<1>8. CASE pad > 0
  <2>1. /\ Len(s) = 5 /\ DOMAIN s = 1 .. 5
        /\ s[1] = initrd /\ s[2] = b /\ s[3] = c /\ s[4] = d /\ s[5] = e
    <3>1. s = <<initrd, b, c>> \o <<d>> \o <<e>>
      BY <1>6, <1>8
    <3>2. FiveOf(s, initrd, b, c, d, e)
      BY <3>1, FiveInAll, Zenon
    <3>3. QED
      BY <3>2 DEF FiveOf
  <2>2. \A j \in 1 .. 5 : IsSegment(s[j])
    BY <1>5, <1>7, <2>1
  <2>3. /\ s[1].from = 0 /\ s[1].length = il /\ s[2].from = il /\ s[2].length = pre
        /\ s[3].from = imageAt /\ s[3].length = size /\ s[4].from = padAt /\ s[4].length = pad
        /\ s[5].from = endAt /\ s[5].length = Trailer
    BY <1>5, <1>7, <2>1
  <2> DEFINE f(j) == s[j].from
             l(j) == s[j].length
  <2>4. /\ f(1) = 0 /\ l(1) = il /\ f(2) = il /\ l(2) = pre /\ f(3) = imageAt /\ l(3) = size
        /\ f(4) = padAt /\ l(4) = pad /\ f(5) = endAt /\ l(5) = Trailer
    BY <2>3
  <2> HIDE DEF f, l
  <2>5. \A j \in 1 .. 4 : f(j + 1) = f(j) + l(j)
    BY <1>1, <1>2, <1>3, <2>4
  <2>6. \A j, k \in 1 .. 5 : j < k => f(j) + l(j) <= f(k)
    BY <1>1, <1>2, <1>3, <2>4, SMTT(30)
  <2>7. Laid(s)
    BY <2>1, <2>2, <2>3, <2>5, <2>6 DEF Laid, f, l
  <2>8. boundary
    BY <1>4, <2>1, <2>3 DEF Aligned
  <2>9. QED
    BY <2>7, <2>8 DEF s, il
<1>9. CASE ~(pad > 0)
  <2>0. pad = 0
    BY <1>1, <1>9
  <2>1. /\ Len(s) = 4 /\ DOMAIN s = 1 .. 4
        /\ s[1] = initrd /\ s[2] = b /\ s[3] = c /\ s[4] = e
    <3>1. s = <<initrd, b, c>> \o <<>> \o <<e>>
      BY <1>6, <1>9
    <3>2. QED
      BY <3>1, FourInAll
  <2>2. \A j \in 1 .. 4 : IsSegment(s[j])
    BY <1>5, <1>7, <2>1
  <2>3. /\ s[1].from = 0 /\ s[1].length = il /\ s[2].from = il /\ s[2].length = pre
        /\ s[3].from = imageAt /\ s[3].length = size
        /\ s[4].from = endAt /\ s[4].length = Trailer
    BY <1>5, <1>7, <2>1
  <2> DEFINE f(j) == s[j].from
             l(j) == s[j].length
  <2>4. /\ f(1) = 0 /\ l(1) = il /\ f(2) = il /\ l(2) = pre /\ f(3) = imageAt /\ l(3) = size
        /\ f(4) = endAt /\ l(4) = Trailer
    BY <2>3
  <2> HIDE DEF f, l
  <2>5. \A j \in 1 .. 3 : f(j + 1) = f(j) + l(j)
    BY <1>1, <1>2, <1>3, <2>0, <2>4, SMTT(30)
  <2>6. \A j, k \in 1 .. 4 : j < k => f(j) + l(j) <= f(k)
    BY <1>1, <1>2, <1>3, <2>0, <2>4
  <2>7. Laid(s)
    BY <2>1, <2>2, <2>3, <2>5, <2>6 DEF Laid, f, l
  <2>8. boundary
    BY <1>4, <2>1, <2>3 DEF Aligned
  <2>9. QED
    BY <2>7, <2>8 DEF s, il
<1>10. QED
  BY <1>8, <1>9

LEMMA LaidWithin ==
    ASSUME NEW segs, Laid(segs)
    PROVE  /\ Total(segs) \in Nat
           /\ \A j \in 1 .. Len(segs) :
                 /\ segs[j].from \in Nat /\ segs[j].length \in Nat
                 /\ segs[j].from + segs[j].length <= Total(segs)
<1> DEFINE f(j) == segs[j].from
           l(j) == segs[j].length
           n == Len(segs)
<1>1. n \in Nat \ {0} /\ \A j \in 1 .. n : f(j) \in Nat /\ l(j) \in Nat
  BY DEF Laid, IsSegment
<1>2. \A j, k \in 1 .. n : j < k => f(j) + l(j) <= f(k)
  BY DEF Laid
<1>3. Total(segs) = f(n) + l(n)
  BY DEF Total
<1> HIDE DEF f, l, n
<1>4. \A j \in 1 .. n : f(j) + l(j) <= f(n) + l(n)
  BY <1>1, <1>2
<1>5. f(n) + l(n) \in Nat
  BY <1>1
<1>6. QED
  BY <1>1, <1>3, <1>4, <1>5 DEF f, l, n

(* What is served is laid out so, and what can be resumed is one segment.  *)
Sourced(src) ==
    /\ Laid(src.segments)
    /\ src.resumable => Len(src.segments) = 1 /\ src.segments[1].kind # "bytes"
    /\ LET s == src.segments
       IN  Len(s) > 1 =>
             /\ Aligned(s)
             /\ s[1].length % 4 = 0 => s[3].from % 4 = 0 /\ s[Len(s)].from % 4 = 0

LEMMA PartsAre ==
    ASSUME NEW cells \in Files, NEW x \in Extents
    PROVE  IsSegment(Part(cells, x)) /\ Part(cells, x).from = 0 /\ Part(cells, x).kind = "file"
<1>1. cells \in Seq(Cell) /\ x.offset \in Nat /\ x.size \in Nat
  BY StreamAssumption
<1>2. QED
  BY <1>1 DEF Part, FileSegment, IsSegment

LEMMA SourcesAre == \A src \in Sources : Sourced(src)
<1> SUFFICES ASSUME NEW src \in Sources PROVE Sourced(src)
  OBVIOUS
<1>0. ASSUME NEW s, IsSegment(s), s.from = 0, s.kind # "bytes", src.segments = <<s>>
      PROVE  Sourced(src)
  <2>1. Len(<<s>>) = 1 /\ <<s>>[1] = s
    OBVIOUS
  <2>2. Laid(<<s>>)
    BY <1>0, OneIsLaid, Zenon
  <2>3. QED
    BY <1>0, <2>1, <2>2 DEF Sourced
<1>1. CASE \E f \in Files, x \in Extents : src = [segments |-> <<Part(f, x)>>, resumable |-> TRUE]
  <2>1. PICK f \in Files, x \in Extents : src = [segments |-> <<Part(f, x)>>, resumable |-> TRUE]
    BY <1>1
  <2>2. src.segments = <<Part(f, x)>>
    BY <2>1
  <2>3. IsSegment(Part(f, x)) /\ Part(f, x).from = 0 /\ Part(f, x).kind # "bytes"
    BY PartsAre
  <2>4. QED
    BY <1>0, <2>2, <2>3, Zenon
<1>2. CASE \E p \in Plans : src = [segments |-> <<PlanSegment(p, 0, PlanLen(p))>>, resumable |-> TRUE]
  <2>1. PICK p \in Plans : src = [segments |-> <<PlanSegment(p, 0, PlanLen(p))>>, resumable |-> TRUE]
    BY <1>2
  <2>2. src.segments = <<PlanSegment(p, 0, PlanLen(p))>>
    BY <2>1
  <2>3. IsPlan(p) /\ PlanLen(p) \in Nat
    BY StreamAssumption, PlansAre DEF Planned
  <2>4. /\ IsSegment(PlanSegment(p, 0, PlanLen(p)))
        /\ PlanSegment(p, 0, PlanLen(p)).from = 0 /\ PlanSegment(p, 0, PlanLen(p)).kind # "bytes"
    BY <2>3 DEF PlanSegment, IsSegment
  <2>5. QED
    BY <1>0, <2>2, <2>4, Zenon
<1>3. CASE \E f \in Files, x \in Extents, image \in Files, y \in {e \in Extents : e.offset = 0} :
              src = [segments |-> InitrdIso(Part(f, x), image, y.size), resumable |-> FALSE]
  <2>1. PICK f \in Files, x \in Extents, image \in Files, y \in Extents :
              src = [segments |-> InitrdIso(Part(f, x), image, y.size), resumable |-> FALSE]
    BY <1>3
  <2>2. src.segments = InitrdIso(Part(f, x), image, y.size) /\ src.resumable = FALSE
    BY <2>1
  <2>3. image \in Seq(Cell) /\ y.size \in Nat
    BY StreamAssumption
  <2>4. IsSegment(Part(f, x)) /\ Part(f, x).from = 0
    BY PartsAre
  <2> DEFINE s == InitrdIso(Part(f, x), image, y.size)
  <2>5. /\ Laid(s) /\ s[1] = Part(f, x) /\ Aligned(s)
        /\ Part(f, x).length % 4 = 0 => s[3].from % 4 = 0 /\ s[Len(s)].from % 4 = 0
    BY <2>3, <2>4, ArchiveIsLaid, ZenonT(60)
  <2> HIDE DEF s
  <2>6. src.segments = s
    BY <2>2 DEF s
  <2>7. QED
    BY <2>2, <2>5, <2>6 DEF Sourced
<1>4. QED
  BY <1>1, <1>2, <1>3 DEF Sources

(* What a header asks of so much.                                          *)
Parsed(r, total, q) ==
    /\ q = <<>> => \/ total = 0 \/ r.first >= total \/ (r.last >= 0 /\ r.last < r.first)
                   \/ (r.first < 0 /\ r.last = 0)
    /\ q # <<>> => q[1] \in Nat /\ q[2] \in Nat /\ q[1] + q[2] <= total
    /\ q # <<>> /\ ~Understood(r) => q[1] = 0 /\ q[2] = total
    /\ q # <<>> /\ Understood(r) =>
          /\ q[2] > 0
          /\ r.first >= 0 => q[1] = r.first
          /\ r.first < 0 => q[1] + q[2] = total /\ q[2] = Least(r.last, total)
          /\ r.first >= 0 /\ r.last < 0 => q[1] + q[2] = total
          /\ r.first >= 0 /\ r.last >= 0 => q[1] + q[2] = Least(r.last + 1, total)

LEMMA RangeIs ==
    ASSUME NEW r, r.first \in Int, r.last \in Int, NEW total \in Nat
    PROVE  Parsed(r, total, ParseRange(r, total))
<1> DEFINE q == ParseRange(r, total)
<1> SUFFICES Parsed(r, total, q)
  OBVIOUS
<1> DEFINE a == r.first
           z == r.last
<1>1. a \in Int /\ z \in Int
  OBVIOUS
<1>2. q = IF total = 0 THEN <<>>
          ELSE IF ~(a >= 0 \/ z >= 0) THEN <<0, total>>
          ELSE IF a < 0
          THEN IF z = 0 THEN <<>> ELSE <<total - Least(z, total), Least(z, total)>>
          ELSE IF a >= total \/ (z >= 0 /\ z < a) THEN <<>>
          ELSE <<a, (IF z < 0 THEN total ELSE Least(z + 1, total)) - a>>
  BY Zenon DEF ParseRange, Understood, AtMost
<1>3. Understood(r) <=> a >= 0 \/ z >= 0
  BY DEF Understood
<1> HIDE DEF a, z, q
<1>4. CASE total = 0
  <2>1. q = <<>>
    BY <1>2, <1>4
  <2>2. QED
    BY <1>4, <2>1 DEF Parsed
<1>5. CASE total # 0 /\ ~Understood(r)
  <2>1. q = <<0, total>>
    BY <1>2, <1>3, <1>5
  <2>2. q # <<>> /\ q[1] = 0 /\ q[2] = total
    BY <2>1
  <2>3. QED
    BY <1>5, <2>2 DEF Parsed
<1>6. CASE total # 0 /\ Understood(r) /\ a < 0
  <2>1. z >= 0
    BY <1>1, <1>3, <1>6
  <2>2. CASE z = 0
    <3>1. q = <<>>
      BY <1>2, <1>3, <1>6, <2>2
    <3>2. QED
      BY <1>6, <2>2, <3>1 DEF a, z, Parsed
  <2>3. CASE z # 0
    <3>1. q = <<total - Least(z, total), Least(z, total)>>
      BY <1>2, <1>3, <1>6, <2>3
    <3>2. q # <<>> /\ q[1] = total - Least(z, total) /\ q[2] = Least(z, total)
      BY <3>1
    <3>3. Least(z, total) \in Nat /\ Least(z, total) > 0 /\ Least(z, total) <= total
      BY <1>1, <1>6, <2>1, <2>3 DEF Least
    <3>4. /\ q[1] \in Nat /\ q[2] \in Nat /\ q[1] + q[2] = total /\ q[2] > 0
      BY <3>2, <3>3
    <3>5. ~(a >= 0) /\ ~(a >= total)
      BY <1>1, <1>6
    <3>6. QED
      BY <1>6, <3>2, <3>4, <3>5 DEF a, z, Parsed
  <2>4. QED
    BY <2>2, <2>3
<1>7. CASE total # 0 /\ Understood(r) /\ ~(a < 0)
  <2>0. a >= 0
    BY <1>1, <1>7
  <2>1. CASE a >= total \/ (z >= 0 /\ z < a)
    <3>1. q = <<>>
      BY <1>2, <1>3, <1>7, <2>1
    <3>2. QED
      BY <2>1, <3>1 DEF a, z, Parsed
  <2>2. CASE ~(a >= total \/ (z >= 0 /\ z < a))
    <3> DEFINE end == IF z < 0 THEN total ELSE Least(z + 1, total)
    <3>1. q = <<a, end - a>>
      BY <1>2, <1>3, <1>7, <2>2
    <3>2. q # <<>> /\ q[1] = a /\ q[2] = end - a
      BY <3>1
    <3>3. end \in Nat /\ end > a /\ end <= total
      BY <1>1, <1>7, <2>0, <2>2 DEF Least
    <3>4. (z < 0 => end = total) /\ (z >= 0 => end = Least(z + 1, total))
      BY <1>1
    <3> HIDE DEF end
    <3>5. /\ q[1] \in Nat /\ q[2] \in Nat /\ q[1] + q[2] = end /\ q[2] > 0
      BY <1>1, <2>0, <3>2, <3>3
    <3>6. QED
      BY <1>1, <1>7, <2>0, <3>2, <3>3, <3>4, <3>5 DEF a, z, Parsed
  <2>3. QED
    BY <2>1, <2>2
<1>8. QED
  BY <1>4, <1>5, <1>6, <1>7

(* What is sent of an answer: all of what is served, or a part of its one  *)
(* segment; and of every segment, of what is sent what it stands for.      *)
Narrowed ==
    LET s == source.segments
    IN  \/ segments = s /\ start = 0
        \/ /\ Len(s) = 1 /\ s[1].kind # "bytes" /\ s[1].from = 0 /\ start + length <= s[1].length
           /\ segments = <<Slice(s[1], start, length)>>

Faithful ==
    /\ \A j \in 1 .. Len(segments) : \A i \in 1 .. segments[j].length :
          segments[j].from + i <= Len(body) => body[segments[j].from + i] = CellOf(segments[j], i)
    /\ current <= Len(segments) =>
          /\ segments[current].from <= Len(body)
          /\ Len(body) <= segments[current].from + segments[current].length
          /\ segments[current].kind = "bytes" /\ Len(body) # segments[current].from
                => Len(body) = segments[current].from + segments[current].length
    /\ current > Len(segments) => Len(body) = length
    /\ ended = "whole" => Len(body) = length

Unsent == start = 0 /\ length = 0 /\ segments = <<>> /\ current = 1 /\ body = <<>>

StreamInv ==
    /\ StreamTypeOK /\ RangeIsAsAsked
    /\ status = 0 => Unsent /\ ended = "no"
    /\ status = 416 => Unsent
    /\ status \in {200, 206} => Laid(segments) /\ Total(segments) = length /\ Narrowed /\ Faithful

LEMMA StreamStarts == StreamInit => StreamInv
BY DEF StreamInit, StreamBegins, StreamInv, StreamTypeOK, RangeIsAsAsked, Unsent

AllElse == UNCHANGED <<source, range, raced, head, status, start, length, segments>>

(* More of the segment that is being sent, and no more than is left of it. *)
LEMMA MoreKeeps ==
    ASSUME StreamInv, InSegment, NEW more \in Seq(Cell), Len(more) <= Left,
           segments[current].kind = "bytes" => Len(more) = Left,
           \A i \in 1 .. Len(more) : more[i] = CellOf(segments[current], Offset + i),
           body' = body \o more, UNCHANGED <<current, ended>>, AllElse
    PROVE  StreamInv'
<1> DEFINE f(j) == segments[j].from
           l(j) == segments[j].length
           b == Len(body)
           n == Len(more)
           m == Len(segments)
<1>1. /\ status \in {200, 206} /\ ended = "no" /\ current <= Len(segments)
      /\ Len(body) < segments[current].from + segments[current].length
  BY DEF InSegment, Sending
<1>2. Laid(segments) /\ Total(segments) = length /\ Narrowed /\ Faithful
  BY <1>1 DEF StreamInv
<1>3. /\ body \in Seq(Cell) /\ current \in 1 .. m + 1 /\ length \in Nat /\ start \in Nat
  BY DEF StreamInv, StreamTypeOK
<1>4. m \in Nat /\ b \in Nat /\ n \in Nat /\ current \in 1 .. m
  BY <1>1, <1>2, <1>3 DEF Laid
<1>5. \A j \in 1 .. m : f(j) \in Nat /\ l(j) \in Nat /\ f(j) + l(j) <= length
  BY <1>2, LaidWithin
<1>6. \A j, k \in 1 .. m : j < k => f(j) + l(j) <= f(k)
  BY <1>2 DEF Laid
<1>7. f(current) <= b /\ b < f(current) + l(current)
  BY <1>1, <1>2 DEF Faithful
<1>8. Offset = b - f(current) /\ Left = l(current) - (b - f(current))
  BY DEF Offset, Left
<1>9. body' \in Seq(Cell) /\ Len(body') = b + n
  BY <1>3
<1>10. \A k \in 1 .. b + n : body'[k] = IF k <= b THEN body[k] ELSE more[k - b]
  BY <1>3
<1>11. \A j \in 1 .. m : \A i \in 1 .. l(j) : f(j) + i <= b => body[f(j) + i] = CellOf(segments[j], i)
  BY <1>2 DEF Faithful
<1>12. \A i \in 1 .. n : more[i] = CellOf(segments[current], b - f(current) + i)
  BY DEF Offset
<1>13. n <= l(current) - (b - f(current))
  BY <1>8
<1>14. segments[current].kind = "bytes" => n = l(current) - (b - f(current))
  BY <1>8
<1>15. AllElse /\ current' = current /\ ended' = ended
  OBVIOUS
<1> HIDE DEF f, l, b, n, m
<1>16. b + n <= f(current) + l(current) /\ b + n <= length
  <2>1. f(current) \in Nat /\ l(current) \in Nat /\ f(current) + l(current) <= length /\ length \in Nat
    BY <1>3, <1>4, <1>5
  <2>2. QED
    BY <1>4, <1>13, <2>1
<1>17. ASSUME NEW j \in 1 .. m, NEW i \in 1 .. l(j), f(j) + i <= b + n
       PROVE  body'[f(j) + i] = CellOf(segments[j], i)
  <2>1. f(j) \in Nat /\ l(j) \in Nat /\ f(j) + i \in 1 .. b + n
    BY <1>4, <1>5, <1>17
  <2>2. CASE f(j) + i <= b
    BY <1>10, <1>11, <2>1, <2>2
  <2>3. CASE ~(f(j) + i <= b)
    <3>1. j = current
      <4>1. f(current) \in Nat /\ l(current) \in Nat
        BY <1>4, <1>5
      <4>2. ~(j < current)
        <5>1. j < current => f(j) + l(j) <= f(current)
          BY <1>4, <1>6
        <5>2. QED
          BY <1>4, <1>7, <2>1, <2>3, <4>1, <5>1
      <4>3. ~(current < j)
        <5>1. current < j => f(current) + l(current) <= f(j)
          BY <1>4, <1>6
        <5>2. QED
          BY <1>4, <1>16, <2>1, <2>3, <4>1, <5>1, <1>17
      <4>4. QED
        BY <1>4, <4>2, <4>3
    <3>2. body'[f(j) + i] = more[(f(j) + i) - b]
      BY <1>10, <2>1, <2>3
    <3>3. (f(j) + i) - b \in 1 .. n
      BY <1>4, <2>1, <2>3, <1>17
    <3>4. more[(f(j) + i) - b] = CellOf(segments[current], (b - f(current)) + ((f(j) + i) - b))
      BY <1>12, <3>3
    <3>5. (b - f(current)) + ((f(j) + i) - b) = i
      BY <1>4, <2>1, <3>1
    <3>6. QED
      BY <3>1, <3>2, <3>4, <3>5
  <2>4. QED
    BY <2>2, <2>3
<1>18. StreamTypeOK'
  BY <1>9, <1>16, <1>15 DEF StreamInv, StreamTypeOK, AllElse
<1>19. RangeIsAsAsked'
  BY <1>15 DEF StreamInv, RangeIsAsAsked, AllElse, Asks
<1>20. Narrowed' /\ Laid(segments)' /\ (Total(segments) = length)'
  BY <1>2, <1>15 DEF Narrowed, AllElse
<1>21. Faithful'
  <2>1. ~(current' > Len(segments')) /\ ended' # "whole"
    BY <1>1, <1>4, <1>15 DEF AllElse, m
  <2>2. Len(body') = b + n /\ b <= b + n
    BY <1>4, <1>9
  <2>3. segments[current].kind = "bytes" => b + n = f(current) + l(current)
    BY <1>4, <1>5, <1>14
  <2>4. f(current) <= b + n
    BY <1>4, <1>5, <1>7
  <2>5. QED
    BY <1>15, <1>16, <1>17, <2>1, <2>2, <2>3, <2>4 DEF Faithful, AllElse, f, l, m
<1>22. QED
  BY <1>1, <1>15, <1>18, <1>19, <1>20, <1>21 DEF StreamInv, AllElse

LEMMA Sent ==
    ASSUME StreamInv, InSegment
    PROVE  /\ Laid(segments) /\ Total(segments) = length /\ Narrowed /\ Faithful
           /\ current \in 1 .. Len(segments) /\ IsSegment(segments[current])
           /\ Offset \in Nat /\ Left \in Nat /\ Left > 0 /\ Offset + Left = segments[current].length
           /\ segments[current].kind = "bytes" => Offset = 0
<1>1. /\ status \in {200, 206} /\ current <= Len(segments)
      /\ Len(body) < segments[current].from + segments[current].length
  BY DEF InSegment, Sending
<1>2. Laid(segments) /\ Total(segments) = length /\ Narrowed /\ Faithful
  BY <1>1 DEF StreamInv
<1>3. body \in Seq(Cell) /\ current \in 1 .. Len(segments) + 1
  BY DEF StreamInv, StreamTypeOK
<1>4. current \in 1 .. Len(segments)
  BY <1>1, <1>2, <1>3 DEF Laid
<1>5. IsSegment(segments[current])
  BY <1>2, <1>4 DEF Laid
<1> DEFINE f == segments[current].from
           l == segments[current].length
           b == Len(body)
<1>6. f \in Nat /\ l \in Nat /\ b \in Nat
  BY <1>3, <1>5 DEF IsSegment
<1>7. f <= b /\ b < f + l /\ (segments[current].kind = "bytes" /\ b # f => b = f + l)
  BY <1>1, <1>2 DEF Faithful
<1>8. Offset = b - f /\ Left = l - (b - f)
  BY DEF Offset, Left
<1> HIDE DEF f, l, b
<1>9. Offset \in Nat /\ Left \in Nat /\ Left > 0 /\ Offset + Left = l /\ (segments[current].kind = "bytes" => Offset = 0)
  BY <1>6, <1>7, <1>8
<1>10. QED
  BY <1>2, <1>4, <1>5, <1>9 DEF l

LEMMA SendFileKeeps == StreamInv /\ SendFile /\ AllElse => StreamInv'
<1> SUFFICES ASSUME StreamInv, SendFile, AllElse
             PROVE  StreamInv'
  OBVIOUS
<1> DEFINE s == segments[current]
<1>1. InSegment /\ s.kind = "file" /\ UNCHANGED <<current, ended>>
  BY DEF SendFile
<1>2. PICK n \in Chunks : /\ s.offset + Offset + n <= Len(s.cells)
                          /\ body' = body \o [i \in 1 .. n |-> s.cells[s.offset + Offset + i]]
  BY DEF SendFile
<1>3. /\ s.cells \in Seq(Cell) /\ s.offset \in Nat /\ Offset \in Nat /\ Left \in Nat
  BY <1>1, Sent DEF IsSegment
<1>4. n \in Nat /\ n <= Left
  BY <1>3, StreamAssumption DEF Chunks, Least
<1> DEFINE more == [i \in 1 .. n |-> s.cells[s.offset + Offset + i]]
<1>5. more \in Seq(Cell) /\ Len(more) = n
  <2> DEFINE cells == s.cells
             o == s.offset
  <2>1. cells \in Seq(Cell) /\ o \in Nat /\ o + Offset + n <= Len(cells)
    BY <1>2, <1>3
  <2> HIDE DEF cells, o
  <2>2. \A i \in 1 .. n : cells[o + Offset + i] \in Cell
    BY <1>3, <1>4, <2>1
  <2>3. QED
    BY <1>4, <2>2 DEF cells, o
<1>6. \A i \in 1 .. Len(more) : more[i] = CellOf(s, Offset + i)
  <2>1. \A i \in 1 .. n : CellOf(s, Offset + i) = s.cells[s.offset + (Offset + i)]
    BY <1>1 DEF CellOf
  <2>2. \A i \in 1 .. n : s.offset + (Offset + i) = s.offset + Offset + i
    BY <1>3, <1>4
  <2>3. QED
    BY <1>5, <2>1, <2>2
<1> HIDE DEF more
<1>7. body' = body \o more
  BY <1>2 DEF more
<1>8. QED
  BY <1>1, <1>4, <1>5, <1>6, <1>7, MoreKeeps

LEMMA SendPatchedKeeps == StreamInv /\ SendPatched /\ AllElse => StreamInv'
<1> SUFFICES ASSUME StreamInv, SendPatched, AllElse
             PROVE  StreamInv'
  OBVIOUS
<1> DEFINE s == segments[current]
           n == Least(Left, ChunkSize)
           more == ReadAt(s.plan, s.offset + Offset, n)
<1>1. InSegment /\ s.kind = "plan" /\ UNCHANGED <<current, ended>> /\ body' = body \o more
  BY DEF SendPatched
<1>2. /\ IsSegment(s) /\ Offset \in Nat /\ Left \in Nat /\ Offset + Left = s.length
  BY <1>1, Sent
<1>3. n \in Nat /\ n <= Left
  BY <1>2, StreamAssumption DEF Least
<1>4. IsPlan(s.plan) /\ s.offset \in Nat /\ s.offset + s.length <= PlanLen(s.plan) /\ s.length \in Nat
  BY <1>1, <1>2 DEF IsSegment
<1>5. PlanLen(s.plan) \in Nat
  BY <1>4, PlansAre DEF Planned
<1>6. s.offset + Offset \in Nat /\ s.offset + Offset + n <= PlanLen(s.plan)
  <2> DEFINE o == s.offset
             l == s.length
             z == PlanLen(s.plan)
  <2>1. o \in Nat /\ l \in Nat /\ z \in Nat /\ o + l <= z /\ Offset + Left = l
    BY <1>2, <1>4, <1>5
  <2> HIDE DEF o, l, z, n
  <2>2. o + Offset \in Nat /\ o + Offset + n <= z
    BY <1>2, <1>3, <2>1
  <2>3. QED
    BY <2>2 DEF o, z
<1> HIDE DEF n
<1>7. more \in Seq(Cell) /\ Len(more) = n /\ \A i \in 1 .. n : more[i] = Patched(s.plan)[s.offset + Offset + i]
  BY <1>3, <1>4, <1>6, ReadAtIs, Zenon
<1> HIDE DEF more
<1>8. \A i \in 1 .. Len(more) : more[i] = CellOf(s, Offset + i)
  <2>1. \A i \in 1 .. n : CellOf(s, Offset + i) = Patched(s.plan)[s.offset + (Offset + i)]
    BY <1>1 DEF CellOf
  <2>2. \A i \in 1 .. n : s.offset + (Offset + i) = s.offset + Offset + i
    BY <1>2, <1>3, <1>4
  <2>3. QED
    BY <1>7, <2>1, <2>2
<1>9. QED
  BY <1>1, <1>3, <1>7, <1>8, MoreKeeps

LEMMA SendBytesKeeps == StreamInv /\ SendBytes /\ AllElse => StreamInv'
<1> SUFFICES ASSUME StreamInv, SendBytes, AllElse
             PROVE  StreamInv'
  OBVIOUS
<1> DEFINE s == segments[current]
           more == s.cells
<1>1. InSegment /\ s.kind = "bytes" /\ UNCHANGED <<current, ended>> /\ body' = body \o more
  BY DEF SendBytes
<1>2. /\ IsSegment(s) /\ Offset = 0 /\ Left \in Nat /\ Offset + Left = s.length
  BY <1>1, Sent
<1>3. more \in Seq(Cell) /\ s.offset = 0 /\ s.length = Len(more) /\ s.length \in Nat
  BY <1>1, <1>2 DEF IsSegment
<1>4. Len(more) = Left
  BY <1>2, <1>3
<1>5. \A i \in 1 .. Len(more) : more[i] = CellOf(s, Offset + i)
  <2>1. \A i \in 1 .. Len(more) : CellOf(s, Offset + i) = more[s.offset + (Offset + i)]
    BY <1>1 DEF CellOf
  <2>2. \A i \in 1 .. Len(more) : s.offset + (Offset + i) = i
    BY <1>2, <1>3
  <2>3. QED
    BY <2>1, <2>2
<1>6. Len(more) <= Left
  BY <1>2, <1>4
<1> HIDE DEF more
<1>7. QED
  BY <1>1, <1>3, <1>4, <1>5, <1>6, MoreKeeps

(* What neither sends nor answers: the body is left as it is.              *)
LEMMA RestKeeps ==
    StreamInv /\ (FileEnds \/ NextSegment \/ Finish \/ CutOff) /\ AllElse => StreamInv'
<1> SUFFICES ASSUME StreamInv, FileEnds \/ NextSegment \/ Finish \/ CutOff, AllElse
             PROVE  StreamInv'
  OBVIOUS
<1>1. /\ status \in {200, 206} /\ ended = "no" /\ status' = status /\ body' = body
  BY DEF FileEnds, NextSegment, Finish, CutOff, InSegment, Sending, AllElse
<1>2. Laid(segments) /\ Total(segments) = length /\ Narrowed /\ Faithful
  BY <1>1 DEF StreamInv
<1>3. Narrowed' /\ Laid(segments)' /\ (Total(segments) = length)' /\ RangeIsAsAsked'
  BY <1>2 DEF Narrowed, AllElse, StreamInv, RangeIsAsAsked, Asks
<1>4. CASE ended' = "cut" /\ current' = current
  <2>1. Faithful'
    BY <1>1, <1>2, <1>4 DEF Faithful, AllElse
  <2>2. StreamTypeOK'
    BY <1>1, <1>4 DEF StreamInv, StreamTypeOK, AllElse
  <2>3. QED
    BY <1>1, <1>3, <2>1, <2>2 DEF StreamInv
<1>5. CASE NextSegment
  <2> DEFINE f(j) == segments[j].from
             l(j) == segments[j].length
             m == Len(segments)
             b == Len(body)
  <2>1. /\ current <= m /\ b >= f(current) + l(current)
        /\ current' = current + 1 /\ ended' = ended
    BY <1>5 DEF NextSegment
  <2>2. m \in Nat /\ b \in Nat /\ current \in 1 .. m
    BY <1>2, <2>1 DEF Laid, StreamInv, StreamTypeOK
  <2>3. \A j \in 1 .. m : f(j) \in Nat /\ l(j) \in Nat
    BY <1>2, LaidWithin
  <2>4. b <= f(current) + l(current)
    BY <1>2, <2>2 DEF Faithful
  <2>5. \A j \in 1 .. m - 1 : f(j + 1) = f(j) + l(j)
    BY <1>2 DEF Laid
  <2>6. f(m) + l(m) = length
    BY <1>2 DEF Total
  <2> HIDE DEF f, l, m, b
  <2>7. b = f(current) + l(current)
    BY <2>1, <2>2, <2>3, <2>4
  <2>8. current' <= m => b = f(current') /\ l(current') \in Nat /\ b <= f(current') + l(current')
    <3>1. CASE current < m
      <4>1. current \in 1 .. m - 1 /\ current' \in 1 .. m
        BY <2>1, <2>2, <3>1
      <4>2. f(current') = f(current) + l(current)
        BY <2>1, <2>5, <4>1
      <4>3. f(current') \in Nat /\ l(current') \in Nat
        BY <2>3, <4>1
      <4>4. QED
        BY <2>7, <4>2, <4>3
    <3>2. CASE ~(current < m)
      BY <2>1, <2>2, <3>2
    <3>3. QED
      BY <3>1, <3>2
  <2>9. current' > m => b = length
    <3>1. current' > m => current = m
      BY <2>1, <2>2
    <3>2. QED
      BY <2>6, <2>7, <3>1
  <2>10. current' \in 1 .. m + 1
    BY <2>1, <2>2
  <2>11. \A j \in 1 .. m : \A i \in 1 .. l(j) :
            f(j) + i <= b => body[f(j) + i] = CellOf(segments[j], i)
    BY <1>2 DEF Faithful, f, l, m, b
  <2>12. Faithful'
    <3>1. segments' = segments /\ length' = length /\ body' = body /\ ended' = "no"
      BY <1>1, <2>1 DEF AllElse
    <3>2. b = f(current') \/ current' > m
      BY <2>8, <2>10, <2>2
    <3>3. QED
      BY <2>8, <2>9, <2>11, <3>1, <3>2 DEF Faithful, f, l, m, b
  <2>13. StreamTypeOK'
    BY <1>1, <2>1, <2>10 DEF StreamInv, StreamTypeOK, AllElse, m
  <2>14. QED
    BY <1>1, <1>3, <2>12, <2>13 DEF StreamInv
<1>6. CASE Finish
  <2>1. current > Len(segments) /\ ended' = "whole" /\ current' = current
    BY <1>6 DEF Finish
  <2>2. Len(body) = length
    BY <1>2, <2>1 DEF Faithful
  <2>3. Faithful'
    BY <1>1, <1>2, <2>1, <2>2 DEF Faithful, AllElse
  <2>4. StreamTypeOK'
    BY <1>1, <2>1 DEF StreamInv, StreamTypeOK, AllElse
  <2>5. QED
    BY <1>1, <1>3, <2>3, <2>4 DEF StreamInv
<1>7. QED
  BY <1>4, <1>5, <1>6 DEF FileEnds, CutOff

LEMMA HeaderTyped ==
    ASSUME StreamTypeOK
    PROVE  /\ Sourced(source) /\ range.first \in Int /\ range.last \in Int
           /\ Total(source.segments) \in Nat
<1>1. source \in Sources /\ range \in Ranges
  BY DEF StreamTypeOK
<1>2. Sourced(source)
  BY <1>1, SourcesAre
<1>3. range.first \in Int /\ range.last \in Int
  BY <1>1, StreamAssumption
<1>4. QED
  BY <1>2, <1>3, LaidWithin DEF Sourced

LEMMA RefuseKeeps ==
    StreamInv /\ Refuse /\ UNCHANGED <<source, range, raced, head>> => StreamInv'
<1> SUFFICES ASSUME StreamInv, Refuse, UNCHANGED <<source, range, raced, head>>
             PROVE  StreamInv'
  OBVIOUS
<1> DEFINE total == Total(source.segments)
<1>1. /\ status = 0 /\ PartAsked = <<>> /\ status' = 416 /\ ended' = "whole"
      /\ UNCHANGED <<start, length, segments, current, body>> /\ Unsent
  BY DEF Refuse, StreamInv
<1>2. range.first \in Int /\ range.last \in Int /\ total \in Nat
  BY HeaderTyped DEF StreamInv
<1>3. Asks /\ ParseRange(range, total) = <<>>
  <2>1. <<0, total>> # <<>>
    OBVIOUS
  <2>2. QED
    BY <1>1, <2>1 DEF PartAsked
<1> HIDE DEF total
<1>4. \/ total = 0 \/ range.first >= total \/ (range.last >= 0 /\ range.last < range.first)
      \/ (range.first < 0 /\ range.last = 0)
  <2>1. Parsed(range, total, <<>>)
    BY <1>2, <1>3, RangeIs
  <2>2. QED
    BY <2>1 DEF Parsed
<1>5. RangeIsAsAsked'
  BY <1>1, <1>3, <1>4 DEF RangeIsAsAsked, Asks, total
<1>6. StreamTypeOK'
  BY <1>1 DEF StreamInv, StreamTypeOK
<1>7. QED
  BY <1>1, <1>5, <1>6 DEF StreamInv, Unsent

LEMMA AnnounceKeeps ==
    StreamInv /\ Announce /\ UNCHANGED <<source, range, raced, head>> => StreamInv'
<1> SUFFICES ASSUME StreamInv, Announce, UNCHANGED <<source, range, raced, head>>
             PROVE  StreamInv'
  OBVIOUS
<1> DEFINE all == source.segments
           total == Total(source.segments)
           q == PartAsked
<1>1. /\ status = 0 /\ q # <<>> /\ status' = IF Asks /\ Understood(range) THEN 206 ELSE 200
      /\ start' = q[1] /\ length' = q[2]
      /\ segments' = IF Asks /\ Understood(range) THEN <<Slice(all[1], q[1], q[2])>> ELSE all
      /\ ended' = IF head THEN "head" ELSE "no"
      /\ current' = 1 /\ body' = <<>>
  BY DEF Announce, StreamInv, Unsent
<1>2. /\ Sourced(source) /\ range.first \in Int /\ range.last \in Int /\ total \in Nat
  BY HeaderTyped DEF StreamInv
<1>3. Laid(all) /\ (source.resumable => Len(all) = 1 /\ all[1].kind # "bytes")
  BY <1>2 DEF Sourced
<1>4. q = IF Asks THEN ParseRange(range, total) ELSE <<0, total>>
  BY DEF PartAsked
<1> HIDE DEF q, total, all
<1>5. Asks => Parsed(range, total, q)
  BY <1>2, <1>4, RangeIs
<1>6. ASSUME Asks /\ Understood(range)
      PROVE  /\ q[1] \in Nat /\ q[2] \in Nat /\ q[1] + q[2] <= total /\ q[2] > 0
             /\ range.first >= 0 => q[1] = range.first
             /\ range.first < 0 => q[1] + q[2] = total /\ q[2] = Least(range.last, total)
             /\ range.first >= 0 /\ range.last < 0 => q[1] + q[2] = total
             /\ range.first >= 0 /\ range.last >= 0 => q[1] + q[2] = Least(range.last + 1, total)
  BY <1>1, <1>6, <1>5 DEF Parsed
<1>7. ASSUME ~(Asks /\ Understood(range))
      PROVE  q[1] = 0 /\ q[2] = total
  <2>1. CASE Asks
    <3>1. ~Understood(range)
      BY <1>7, <2>1
    <3>2. QED
      BY <1>1, <1>5, <2>1, <3>1 DEF Parsed
  <2>2. CASE ~Asks
    BY <1>4, <2>2
  <2>3. QED
    BY <2>1, <2>2
<1>8. CASE Asks /\ Understood(range)
  <2> DEFINE s == all[1]
             cut == Slice(s, q[1], q[2])
  <2>1. Len(all) = 1 /\ s.kind # "bytes" /\ IsSegment(s) /\ s.from = 0
    BY <1>3, <1>8 DEF Asks, Laid
  <2>2. total = s.length
    <3>1. total = all[1].from + all[1].length
      BY <2>1 DEF Total, total, all
    <3>2. s.length \in Nat
      BY <2>1 DEF IsSegment
    <3>3. QED
      BY <2>1, <3>1, <3>2
  <2>3. segments' = <<cut>> /\ status' = 206
    BY <1>1, <1>8
  <2>4. cut = [s EXCEPT !.offset = s.offset + q[1], !.length = q[2]]
    BY DEF Slice
  <2>5. IsSegment(cut) /\ cut.from = 0 /\ cut.length = q[2]
    <3> DEFINE o == s.offset
               l == s.length
               z == PlanLen(s.plan)
               o2 == o + q[1]
    <3>1. /\ o \in Nat /\ l \in Nat /\ s.kind \in {"file", "plan"} /\ s.from = 0
          /\ s.kind = "plan" => IsPlan(s.plan) /\ o + l <= z /\ z \in Nat
          /\ s.kind # "plan" => s.cells \in Seq(Cell)
      BY <2>1, PlansAre DEF IsSegment, Planned
    <3>2. q[1] \in Nat /\ q[2] \in Nat /\ q[1] + q[2] <= l
      BY <1>6, <1>8, <2>2
    <3>3. /\ cut.kind = s.kind /\ cut.from = s.from /\ cut.offset = o2 /\ cut.length = q[2]
          /\ s.kind = "plan" => cut.plan = s.plan
          /\ s.kind # "plan" => cut.cells = s.cells
      BY <2>1, <2>4
    <3> HIDE DEF o, l, z
    <3>4. o2 \in Nat /\ (s.kind = "plan" => o2 + q[2] <= z)
      BY <3>1, <3>2
    <3> HIDE DEF o2, cut, s
    <3>5. QED
      BY <3>1, <3>2, <3>3, <3>4 DEF IsSegment, z
  <2>6. Laid(<<cut>>) /\ Total(<<cut>>) = q[2]
    BY <2>5, OneIsLaid, Zenon
  <2>7. Narrowed'
    BY <1>1, <1>6, <1>8, <2>1, <2>2, <2>3 DEF Narrowed, all
  <2> HIDE DEF cut
  <2>8. Faithful'
    <3>1. Len(<<cut>>) = 1 /\ <<cut>>[1] = cut
      OBVIOUS
    <3>2. /\ Len(body') = 0 /\ current' = 1 /\ ended' # "whole" /\ cut.length \in Nat /\ cut.from = 0
      BY <1>1, <1>6, <1>8, <2>5
    <3>3. QED
      BY <2>3, <3>1, <3>2 DEF Faithful
  <2>9. StreamTypeOK'
    BY <1>1, <1>6, <1>8, <2>3 DEF StreamInv, StreamTypeOK
  <2>10. RangeIsAsAsked'
    BY <1>1, <1>6, <1>8, <2>3 DEF RangeIsAsAsked, Asks, total
  <2>11. QED
    BY <1>1, <2>3, <2>6, <2>7, <2>8, <2>9, <2>10 DEF StreamInv
<1>9. CASE ~(Asks /\ Understood(range))
  <2>1. segments' = all /\ status' = 200 /\ start' = 0 /\ length' = total
    BY <1>1, <1>7, <1>9
  <2>2. Narrowed' /\ Laid(segments)' /\ (Total(segments) = length)'
    BY <1>3, <2>1 DEF Narrowed, all, total
  <2>3. Faithful'
    <3>1. Len(all) \in Nat \ {0} /\ all[1].from = 0 /\ \A j \in 1 .. Len(all) : all[j].from \in Nat /\ all[j].length \in Nat
      BY <1>3 DEF Laid, IsSegment
    <3>2. Len(body') = 0 /\ current' = 1 /\ ended' # "whole"
      BY <1>1
    <3>3. \A j \in 1 .. Len(all) : \A i \in 1 .. all[j].length : ~(all[j].from + i <= 0)
      BY <3>1
    <3>4. all[1].from <= 0 /\ 0 <= all[1].from + all[1].length
      BY <3>1
    <3>5. QED
      BY <2>1, <3>1, <3>2, <3>3, <3>4 DEF Faithful
  <2>4. StreamTypeOK'
    <3>1. Len(all) \in Nat \ {0}
      BY <1>3 DEF Laid
    <3>2. QED
      BY <1>1, <1>2, <2>1, <3>1 DEF StreamInv, StreamTypeOK
  <2>5. RangeIsAsAsked'
    BY <1>1, <1>9, <2>1 DEF RangeIsAsAsked, Asks, total
  <2>6. QED
    BY <1>1, <2>1, <2>2, <2>3, <2>4, <2>5 DEF StreamInv
<1>10. QED
  BY <1>8, <1>9

LEMMA StreamKept == StreamInv /\ [StreamNext]_streamVars => StreamInv'
<1>1. StreamInv /\ UNCHANGED streamVars => StreamInv'
  BY DEF streamVars, StreamInv, StreamTypeOK, RangeIsAsAsked, Asks, Unsent, Narrowed, Faithful
<1>2. QED
  BY <1>1, RefuseKeeps, AnnounceKeeps, SendFileKeeps, SendPatchedKeeps, SendBytesKeeps, RestKeeps
     DEF StreamNext, AllElse

(* Every chunk keeps this: the segments are laid end to end, narrowed as   *)
(* the head says, and the body is a beginning of them.                     *)
THEOREM StreamInvariant == StreamSpec => []StreamInv
BY StreamStarts, StreamKept, PTL DEF StreamSpec

(* No body is longer than its head announced, and every cell of it is one  *)
(* of the files', or of what is put around them.                           *)
THEOREM StreamTypeCorrect == StreamSpec => []StreamTypeOK
<1>1. StreamInv => StreamTypeOK
  BY DEF StreamInv
<1>2. QED
  BY <1>1, StreamInvariant, PTL

(* Of whatever header, what is announced is the part it asks for.          *)
THEOREM RangeIsAsAskedAlways == StreamSpec => []RangeIsAsAsked
<1>1. StreamInv => RangeIsAsAsked
  BY DEF StreamInv
<1>2. QED
  BY <1>1, StreamInvariant, PTL

(* The archive is aligned in itself, whatever the sizes of the initrd and  *)
(* the image, and in what is sent where the initrd ends on a boundary.     *)
THEOREM ArchiveIsAlignedAlways == StreamSpec => []ArchiveIsAligned
<1>1. StreamInv => ArchiveIsAligned
  BY SourcesAre DEF StreamInv, StreamTypeOK, ArchiveIsAligned, Sourced
<1>2. QED
  BY <1>1, StreamInvariant, PTL

(* What is sent is the part that was announced, byte for byte, whatever is *)
(* overwritten in it and appended, and wherever the reads are cut.         *)
THEOREM BodyIsThePartAlways == StreamSpec => []BodyIsThePart
<1>1. StreamInv => BodyIsThePart
  <2> SUFFICES ASSUME StreamInv
               PROVE  BodyIsThePart
    OBVIOUS
  <2>1. CASE status \notin {200, 206}
    <3>1. status \in {0, 416} /\ body = <<>> /\ (status = 0 => ended = "no")
      BY <2>1 DEF StreamInv, StreamTypeOK, Unsent
    <3>2. \A k : ~(k \in 1 .. Len(body))
      BY <3>1
    <3>3. QED
      BY <3>1, <3>2 DEF BodyIsThePart
  <2>2. CASE status \in {200, 206}
    <3>1. Laid(segments) /\ Narrowed /\ Faithful /\ Len(body) <= length /\ body \in Seq(Cell)
          /\ start \in Nat /\ length \in Nat /\ Laid(source.segments)
      BY <2>2, SourcesAre DEF StreamInv, StreamTypeOK, Sourced
    <3>2. ended = "whole" => Len(body) = length
      BY <3>1 DEF Faithful
    <3>3. ASSUME NEW j \in DOMAIN source.segments, NEW i \in 1 .. source.segments[j].length,
                 source.segments[j].from + i - start \in 1 .. Len(body)
          PROVE  body[source.segments[j].from + i - start] = CellOf(source.segments[j], i)
      <4>0. j \in 1 .. Len(source.segments) /\ IsSegment(source.segments[j])
        BY <3>1 DEF Laid
      <4>1. CASE segments = source.segments /\ start = 0
        <5> DEFINE f == segments[j].from
        <5>1. f \in Nat /\ j \in 1 .. Len(segments) /\ segments[j].length \in Nat
          BY <4>0, <4>1 DEF IsSegment
        <5>2. i \in 1 .. segments[j].length /\ f + i - start \in 1 .. Len(body)
          BY <3>3, <4>1
        <5> HIDE DEF f
        <5>3. f + i - start = f + i /\ f + i <= Len(body)
          BY <3>1, <4>1, <5>1, <5>2
        <5>4. body[f + i] = CellOf(segments[j], i)
          BY <3>1, <5>1, <5>2, <5>3 DEF Faithful, f
        <5>5. QED
          BY <4>1, <5>3, <5>4 DEF f
      <4>2. CASE ~(segments = source.segments /\ start = 0)
        <5> DEFINE s == source.segments[1]
                   cut == Slice(s, start, length)
                   k == i - start
        <5>1. /\ Len(source.segments) = 1 /\ s.kind # "bytes" /\ s.from = 0
              /\ segments = <<cut>>
          BY <3>1, <4>2 DEF Narrowed
        <5>2. j = 1 /\ IsSegment(s)
          BY <4>0, <5>1
        <5>3. cut = [s EXCEPT !.offset = s.offset + start, !.length = length]
          BY DEF Slice
        <5>4. cut.from = 0 /\ cut.length = length
          BY <5>1, <5>3
        <5>5. i \in Nat /\ k \in 1 .. Len(body) /\ k \in 1 .. length /\ s.from + i - start = k
          <6>1. s.length \in Nat
            BY <5>2 DEF IsSegment
          <6>2. i \in Nat
            BY <5>2, <6>1
          <6>3. 0 + i - start \in 1 .. Len(body)
            BY <3>3, <5>1, <5>2
          <6>4. QED
            BY <3>1, <5>1, <6>2, <6>3
        <5>6. CellOf(cut, k) = CellOf(s, i)
          <6> DEFINE o == s.offset
          <6>1. o \in Nat
            BY <5>2 DEF IsSegment
          <6>2. CellOf(s, i) = IF s.kind = "plan" THEN Patched(s.plan)[o + i] ELSE s.cells[o + i]
            BY Zenon DEF CellOf
          <6>3. CellOf(cut, k) =
                   IF s.kind = "plan" THEN Patched(s.plan)[(o + start) + k] ELSE s.cells[(o + start) + k]
            BY <5>2, <5>3 DEF CellOf, IsSegment
          <6> HIDE DEF o
          <6>4. (o + start) + k = o + i
            BY <3>1, <5>5, <6>1
          <6>5. QED
            BY <6>2, <6>3, <6>4
        <5> HIDE DEF cut, k
        <5>7. body[k] = CellOf(cut, k)
          BY <3>1, <5>1, <5>4, <5>5 DEF Faithful
        <5>8. QED
          BY <5>2, <5>5, <5>6, <5>7
      <4>3. QED
        BY <4>1, <4>2
    <3>4. QED
      BY <3>2, <3>3 DEF BodyIsThePart
  <2>3. QED
    BY <2>1, <2>2
<1>2. QED
  BY <1>1, StreamInvariant, PTL

(* Whatever is asked of whatever the listener has, it is served as asked.  *)
THEOREM ServedAsAskedAlways == StreamSpec => []ServedAsAsked
BY BodyIsThePartAlways, RangeIsAsAskedAlways, ArchiveIsAlignedAlways, PTL DEF ServedAsAsked

=============================================================================
