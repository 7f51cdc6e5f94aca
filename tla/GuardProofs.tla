----------------------------- MODULE GuardProofs ------------------------------
(***************************************************************************)
(* The guard of the admin token keeps its promises for any number of       *)
(* addresses and of requests at once, and for any limits: blocks stand,    *)
(* they are earned, and what an address can try within a window is bounded.*)
(***************************************************************************)
EXTENDS AuthGuard, FiniteSetTheorems, TLAPS

----------------------------------------------------------------------------
(* How long a block is                                                     *)

(* A set of naturals that has a member has a least one: of the intervals   *)
(* 0..n, n in the set, one has none of the others as a proper part.        *)
LEMMA Least ==
    ASSUME NEW T \in SUBSET Nat, T # {}
    PROVE  \E n \in T : \A m \in T : n <= m
<1> DEFINE Upto == {0..n : n \in T}
<1>1. Upto \subseteq FiniteSubsetsOf(Nat)
  <2>1. ASSUME NEW n \in T
        PROVE  0..n \in FiniteSubsetsOf(Nat)
    BY FS_Interval DEF FiniteSubsetsOf
  <2>2. QED
    BY <2>1
<1>2. PICK U \in Upto : \A V \in Upto : <<V, U>> \notin StrictSubsetOrdering(Nat)
  <2>1. Upto # {}
    OBVIOUS
  <2> HIDE DEF Upto
  <2>2. QED
    BY <1>1, <2>1, FS_StrictSubsetOrderingWellFounded, WFMin
<1>3. PICK n \in T : U = 0..n
  OBVIOUS
<1>4. ASSUME NEW m \in T, m < n
      PROVE  FALSE
  <2>1. 0..m \in Upto
    OBVIOUS
  <2>2. 0..m \subseteq 0..n /\ 0..m # 0..n
    <3>1. n \in 0..n /\ n \notin 0..m
      BY <1>4
    <3>2. \A i \in 0..m : i \in 0..n
      BY <1>4
    <3>3. QED
      BY <3>1, <3>2
  <2>3. <<0..m, 0..n>> \in StrictSubsetOrdering(Nat)
    BY <2>2 DEF StrictSubsetOrdering
  <2>4. QED
    BY <1>2, <1>3, <2>1, <2>3
<1>5. QED
  BY <1>4

Doubles(n, f) ==
    f = [b \in 0..n |-> IF b = 0 THEN BaseBlock ELSE 2 * f[b - 1]]

LEMMA DoublesExists ==
    ASSUME NEW n \in Nat
    PROVE  \E f : Doubles(n, f)
<1> DEFINE T == {m \in Nat : ~\E f : Doubles(m, f)}
<1>1. SUFFICES ASSUME T # {}
               PROVE  FALSE
  OBVIOUS
<1>2. PICK m \in T : \A k \in T : m <= k
  BY <1>1, Least
<1>3. CASE m = 0
  <2>1. Doubles(0, [b \in 0..0 |-> BaseBlock])
    BY DEF Doubles
  <2>2. QED
    BY <1>3, <2>1
<1>4. CASE m # 0
  <2>1. m - 1 \in Nat /\ m - 1 \notin T
    BY <1>2, <1>4
  <2>2. PICK f : Doubles(m - 1, f)
    BY <2>1
  <2> DEFINE g == [b \in 0..m |-> IF b = 0 THEN BaseBlock ELSE 2 * f[b - 1]]
  <2>3. \A b \in 0..(m - 1) : f[b] = IF b = 0 THEN BaseBlock ELSE 2 * f[b - 1]
    BY <2>2 DEF Doubles
  <2>4. \A b \in 0..(m - 1) : g[b] = f[b]
    BY <2>1, <2>3
  <2>5. \A b \in 0..m : g[b] = IF b = 0 THEN BaseBlock ELSE 2 * g[b - 1]
    <3>1. ASSUME NEW b \in 0..m
          PROVE  g[b] = IF b = 0 THEN BaseBlock ELSE 2 * g[b - 1]
      <4>1. CASE b = 0
        BY <4>1, <1>4
      <4>2. CASE b # 0
        <5>1. b - 1 \in 0..(m - 1)
          BY <4>2
        <5>2. g[b] = 2 * f[b - 1]
          BY <4>2
        <5>3. g[b - 1] = f[b - 1]
          BY <2>4, <5>1
        <5>4. QED
          BY <5>2, <5>3, <4>2
      <4>3. QED
        BY <4>1, <4>2
    <3>2. QED
      BY <3>1
  <2>6. g = [b \in 0..m |-> IF b = 0 THEN BaseBlock ELSE 2 * g[b - 1]]
    <3> HIDE DEF g
    <3>1. QED
      BY <2>5 DEF g
  <2>7. QED
    BY <2>6, <1>2 DEF Doubles
<1>5. QED
  BY <1>3, <1>4

LEMMA DoubledIs ==
    \A b \in 0..MaxDoublings :
       Doubled[b] = IF b = 0 THEN BaseBlock ELSE 2 * Doubled[b - 1]
<1>1. PICK f : Doubles(MaxDoublings, f)
  BY DoublesExists, GuardConstants
<1>2. Doubles(MaxDoublings, Doubled)
  BY <1>1 DEF Doubled, Doubles
<1>3. QED
  BY <1>2 DEF Doubles

(* A block lasts BaseBlock at least, and the next is no shorter.           *)
LEMMA DoubledGrows ==
    \A b \in 0..MaxDoublings : Doubled[b] \in Nat /\ Doubled[b] >= BaseBlock
<1> DEFINE T == {b \in 0..MaxDoublings :
                   ~(Doubled[b] \in Nat /\ Doubled[b] >= BaseBlock)}
<1>1. SUFFICES ASSUME T # {}
               PROVE  FALSE
  OBVIOUS
<1>2. PICK m \in T : \A k \in T : m <= k
  <2>1. T \in SUBSET Nat
    BY GuardConstants
  <2>2. QED
    BY <1>1, <2>1, Least
<1>3. CASE m = 0
  BY <1>2, <1>3, DoubledIs, GuardConstants
<1>4. CASE m # 0
  <2>1. m - 1 \in 0..MaxDoublings /\ m - 1 \notin T
    BY <1>2, <1>4, GuardConstants
  <2>2. Doubled[m] = 2 * Doubled[m - 1]
    BY <1>4, DoubledIs
  <2>3. QED
    BY <2>1, <2>2, GuardConstants
<1>5. QED
  BY <1>3, <1>4

LEMMA BlockForIs ==
    ASSUME NEW b \in 0..MaxDoublings
    PROVE  /\ BlockFor(b) \in 0..MaxBlock
           /\ BlockFor(b) >= BaseBlock
           /\ b < MaxDoublings => BlockFor(b) <= BlockFor(b + 1)
<1>1. Doubled[b] \in Nat /\ Doubled[b] >= BaseBlock
  BY DoubledGrows
<1>2. BlockFor(b) \in 0..MaxBlock /\ BlockFor(b) >= BaseBlock
  BY <1>1, GuardConstants DEF BlockFor
<1>3. ASSUME b < MaxDoublings
      PROVE  BlockFor(b) <= BlockFor(b + 1)
  <2>1. b + 1 \in 0..MaxDoublings /\ b + 1 # 0
    BY <1>3, GuardConstants
  <2>2. Doubled[b + 1] = 2 * Doubled[b]
    BY <2>1, DoubledIs
  <2>3. QED
    BY <1>1, <2>2, GuardConstants DEF BlockFor
<1>4. QED
  BY <1>2, <1>3

----------------------------------------------------------------------------
(* What the guard knows of one address, and what was guessed from it       *)

(* A number of wrong tokens up to every age: never fewer up to a later one.*)
Rising(g) ==
    /\ g \in [Ages -> Nat]
    /\ \A a, b \in Ages : a <= b => g[a] <= g[b]

More(g) == [age \in Ages |-> g[age] + 1]
Aged(g) == [age \in Ages |-> IF age = 0 THEN 0 ELSE g[age - 1]]

(* An entry and the history agree: while the window is open, its failures  *)
(* are as recent as it is old, and all but the first are later than it.    *)
Fits(e, g) ==
    /\ e \in Failures
    /\ e.left <= BlockFor(e.blocks)
    /\ e.count < MaxFailures
    /\ e.age < FailureWindow => e.count >= 1 /\ g[e.age] >= e.count
    /\ e.age \in 1..(FailureWindow - 1) => g[e.age - 1] <= e.count - 1

LEMMA RisingKept ==
    ASSUME NEW g, Rising(g)
    PROVE  Rising(More(g)) /\ Rising(Aged(g))
<1>1. Rising(More(g))
  <2>1. \A a \in Ages : g[a] \in Nat /\ More(g)[a] = g[a] + 1
    BY DEF Rising, More
  <2>2. More(g) \in [Ages -> Nat]
    BY <2>1 DEF More
  <2>3. \A a, b \in Ages : a <= b => More(g)[a] <= More(g)[b]
    BY <2>1 DEF Rising
  <2>4. QED
    BY <2>2, <2>3 DEF Rising
<1>2. Aged(g) \in [Ages -> Nat]
  BY GuardConstants DEF Rising, Aged, Ages
<1>3. ASSUME NEW a \in Ages, NEW b \in Ages, a <= b
      PROVE  Aged(g)[a] <= Aged(g)[b]
  <2>1. CASE a = 0
    BY <1>2, <2>1 DEF Aged
  <2>2. CASE a # 0
    <3>1. a - 1 \in Ages /\ b - 1 \in Ages /\ a - 1 <= b - 1 /\ b # 0
      BY <1>3, <2>2, GuardConstants DEF Ages
    <3>2. Aged(g)[a] = g[a - 1] /\ Aged(g)[b] = g[b - 1]
      BY <2>2, <3>1 DEF Aged
    <3>3. QED
      BY <3>1, <3>2 DEF Rising
  <2>3. QED
    BY <2>1, <2>2
<1>4. QED
  BY <1>1, <1>2, <1>3 DEF Rising

LEMMA NothingRises == Rising(NoGuesses)
BY DEF Rising, NoGuesses, Ages

LEMMA FreshFits ==
    ASSUME NEW g
    PROVE  Fits(Fresh, g)
<1>1. Fresh \in Failures
  BY GuardConstants DEF Fresh, Failures
<1>2. 0 <= BlockFor(0)
  BY BlockForIs, GuardConstants
<1>3. QED
  BY <1>1, <1>2, GuardConstants DEF Fits, Fresh

LEMMA ForgivenFits ==
    ASSUME NEW e, NEW g, Fits(e, g)
    PROVE  Fits([e EXCEPT !.count = 0, !.age = FailureWindow], NoGuesses)
<1>1. /\ e.left \in 0..MaxBlock /\ e.blocks \in 0..MaxDoublings
      /\ e = [count |-> e.count, age |-> e.age, left |-> e.left, blocks |-> e.blocks]
  BY DEF Fits, Failures
<1> DEFINE f == [count |-> 0, age |-> FailureWindow,
                 left |-> e.left, blocks |-> e.blocks]
<1>2. [e EXCEPT !.count = 0, !.age = FailureWindow] = f
  <2>1. PICK d : d = [e EXCEPT !.count = 0]
    OBVIOUS
  <2>2. d = [count |-> 0, age |-> e.age, left |-> e.left, blocks |-> e.blocks]
    BY <1>1, <2>1
  <2>3. [d EXCEPT !.age = FailureWindow] = f
    BY <2>2
  <2>4. QED
    BY <2>1, <2>3
<1>3. f \in Failures
  BY <1>1, GuardConstants DEF Failures
<1>4. Fits(f, NoGuesses)
  BY <1>3, GuardConstants DEF Fits
<1>5. QED
  BY <1>2, <1>4

LEMMA CountedFits ==
    ASSUME NEW e, NEW g, Rising(g), Fits(e, g)
    PROVE  Fits(Counted(e), More(g))
<1> USE GuardConstants
<1>1. /\ e.count \in 0..MaxFailures /\ e.age \in 0..FailureWindow
      /\ e.left \in 0..MaxBlock /\ e.blocks \in 0..MaxDoublings
      /\ e = [count |-> e.count, age |-> e.age, left |-> e.left, blocks |-> e.blocks]
  BY DEF Fits, Failures
<1> DEFINE inWindow == e.age < FailureWindow
           count == IF inWindow THEN e.count + 1 ELSE 1
           next == IF e.blocks < MaxDoublings THEN e.blocks + 1 ELSE MaxDoublings
           age == IF inWindow THEN e.age ELSE 0
<1>2. CASE count >= MaxFailures
  <2> DEFINE f == [count |-> 0, age |-> FailureWindow,
                   left |-> BlockFor(e.blocks), blocks |-> next]
  <2>1. Counted(e) = f
    BY <1>2 DEF Counted
  <2>2. BlockFor(e.blocks) \in 0..MaxBlock /\ BlockFor(e.blocks) <= BlockFor(next)
    BY <1>1, BlockForIs
  <2>3. next \in 0..MaxDoublings
    BY <1>1
  <2>4. f \in Failures
    BY <2>2, <2>3 DEF Failures
  <2>5. QED
    BY <2>1, <2>2, <2>4 DEF Fits
<1>3. CASE ~(count >= MaxFailures)
  <2> DEFINE f == [count |-> count, age |-> age, left |-> e.left, blocks |-> e.blocks]
  <2>1. Counted(e) = f
    BY <1>1, <1>3 DEF Counted
  <2>2. f \in Failures
    BY <1>1, <1>3 DEF Failures
  <2>3. f.age < FailureWindow => f.count >= 1 /\ More(g)[f.age] >= f.count
    BY SMTT(30), <1>1 DEF Fits, More, Rising, Ages
  <2>4. f.age \in 1..(FailureWindow - 1) => More(g)[f.age - 1] <= f.count - 1
    BY SMTT(30), <1>1 DEF Fits, More, Rising, Ages
  <2>5. f.left <= BlockFor(f.blocks) /\ f.count < MaxFailures
    BY <1>1, <1>3 DEF Fits
  <2>6. Fits(f, More(g))
    <3> HIDE DEF f
    <3>1. QED
      BY <2>2, <2>3, <2>4, <2>5 DEF Fits
  <2>7. QED
    BY <2>1, <2>6
<1>4. QED
  BY <1>2, <1>3

LEMMA OlderFits ==
    ASSUME NEW e, NEW g, Rising(g), Fits(e, g)
    PROVE  /\ Fits(Older(e), Aged(g))
           /\ Older(e).left = IF e.left > 0 THEN e.left - 1 ELSE 0
           /\ Older(e).age = IF e.age < FailureWindow THEN e.age + 1 ELSE e.age
           /\ Older(e).count = e.count
<1> USE GuardConstants
<1>1. /\ e.count \in 0..MaxFailures /\ e.age \in 0..FailureWindow
      /\ e.left \in 0..MaxBlock /\ e.blocks \in 0..MaxDoublings
      /\ e = [count |-> e.count, age |-> e.age, left |-> e.left, blocks |-> e.blocks]
  BY DEF Fits, Failures
<1> DEFINE age == IF e.age < FailureWindow THEN e.age + 1 ELSE e.age
           left == IF e.left > 0 THEN e.left - 1 ELSE 0
           f == [count |-> e.count, age |-> age, left |-> left, blocks |-> e.blocks]
<1>2. Older(e) = f
  <2>1. PICK d : d = [e EXCEPT !.age = age]
    OBVIOUS
  <2>2. d = [count |-> e.count, age |-> age, left |-> e.left, blocks |-> e.blocks]
    BY <1>1, <2>1
  <2>3. [d EXCEPT !.left = left] = f
    BY <2>2
  <2>4. Older(e) = [d EXCEPT !.left = left]
    BY <2>1 DEF Older
  <2>5. QED
    BY <2>3, <2>4
<1>3. f \in Failures
  BY <1>1 DEF Failures
<1>4. f.left <= BlockFor(f.blocks)
  BY <1>1, BlockForIs DEF Fits
<1>5. f.age < FailureWindow => f.count >= 1 /\ Aged(g)[f.age] >= f.count
  <2>1. SUFFICES ASSUME age < FailureWindow
                 PROVE  e.count >= 1 /\ Aged(g)[age] >= e.count
    OBVIOUS
  <2>2. age = e.age + 1 /\ e.age < FailureWindow
    BY <1>1, <2>1
  <2>3. age \in Ages /\ Aged(g)[age] = g[e.age]
    BY <1>1, <2>1, <2>2 DEF Aged, Ages
  <2>4. QED
    BY <2>2, <2>3 DEF Fits
<1>6. f.age \in 1..(FailureWindow - 1) => Aged(g)[f.age - 1] <= f.count - 1
  <2>1. SUFFICES ASSUME age \in 1..(FailureWindow - 1)
                 PROVE  Aged(g)[age - 1] <= e.count - 1
    OBVIOUS
  <2>2. age - 1 = e.age /\ e.age \in Ages /\ e.count >= 1
    BY <1>1, <2>1 DEF Fits, Ages
  <2>3. CASE e.age = 0
    BY <1>1, <2>2, <2>3 DEF Aged
  <2>4. CASE e.age # 0
    <3>1. Aged(g)[e.age] = g[e.age - 1] /\ e.age \in 1..(FailureWindow - 1)
      BY <1>1, <2>2, <2>4 DEF Aged, Ages
    <3>2. QED
      BY <2>2, <3>1 DEF Fits
  <2>5. QED
    BY <2>3, <2>4
<1>7. QED
  BY <1>2, <1>3, <1>4, <1>5, <1>6 DEF Fits

----------------------------------------------------------------------------
(* What a step does to one address                                         *)

Entry(ip) == IF ip \in Tracked THEN entries[ip] ELSE Fresh

(* The clearing of a full table leaves an entry alone, or drops one that   *)
(* holds no block and whose window has closed.                             *)
Left(e, f) ==
    \/ f = e
    \/ e.left = 0 /\ e.age = FailureWindow /\ f = Fresh

GuardInv ==
    /\ GuardTypeOK
    /\ IsFiniteSet(Tracked)
    /\ \A ip \in Address : Rising(guesses[ip]) /\ Fits(Entry(ip), guesses[ip])

LEMMA LeftFits ==
    ASSUME NEW e, NEW f, NEW g, Fits(e, g), Left(e, f)
    PROVE  Fits(f, g)
BY FreshFits DEF Left

LEMMA KeptIs ==
    ASSUME GuardInv
    PROVE  /\ DOMAIN Kept \subseteq Tracked
           /\ IsFiniteSet(DOMAIN Kept) /\ Cardinality(DOMAIN Kept) <= MaxTracked
           /\ \A a \in DOMAIN Kept : Kept[a] = entries[a]
           /\ \A a \in Address : Left(Entry(a), IF a \in DOMAIN Kept THEN Kept[a] ELSE Fresh)
           /\ \A a \in Tracked \ DOMAIN Kept : entries[a].left = 0
<1>1. \A a \in Tracked : entries[a] \in Failures /\ Entry(a) = entries[a]
  BY DEF GuardInv, GuardTypeOK, Entry
<1>2. CASE Cardinality(Tracked) < MaxTracked
  <2>1. Kept = entries
    BY <1>2 DEF Kept
  <2>2. \A a \in Address : (IF a \in DOMAIN Kept THEN Kept[a] ELSE Fresh) = Entry(a)
    BY <2>1 DEF Entry, Tracked
  <2>3. QED
    BY <2>1, <2>2 DEF GuardInv, GuardTypeOK, Tracked, Left
<1>3. CASE ~(Cardinality(Tracked) < MaxTracked)
  <2> DEFINE S == {ip \in Tracked : \/ entries[ip].left > 0
                                    \/ entries[ip].age < FailureWindow}
  <2>1. DOMAIN Kept = S /\ \A a \in S : Kept[a] = entries[a]
    BY <1>3 DEF Kept, Restrict
  <2>2. IsFiniteSet(S) /\ Cardinality(S) <= Cardinality(Tracked)
    BY FS_Subset DEF GuardInv
  <2>3. Cardinality(S) <= MaxTracked
    <3>1. Cardinality(S) \in Nat /\ Cardinality(Tracked) \in Nat
      BY <2>2, FS_CardinalityType DEF GuardInv
    <3>2. QED
      BY <2>2, <3>1, GuardConstants DEF GuardInv, GuardTypeOK
  <2>4. ASSUME NEW a \in Tracked \ S
        PROVE  entries[a].left = 0 /\ entries[a].age = FailureWindow
    BY <1>1, GuardConstants DEF Failures
  <2>5. ASSUME NEW a \in Address
        PROVE  Left(Entry(a), IF a \in DOMAIN Kept THEN Kept[a] ELSE Fresh)
    <3>1. CASE a \in S
      BY <1>1, <2>1, <3>1 DEF Left
    <3>2. CASE a \in Tracked \ S
      BY <1>1, <2>1, <2>4, <3>2 DEF Left
    <3>3. CASE a \notin Tracked
      BY <2>1, <3>3 DEF Left, Entry
    <3>4. QED
      BY <3>1, <3>2, <3>3
  <2>6. QED
    BY <2>1, <2>2, <2>3, <2>4, <2>5
<1>4. QED
  BY <1>2, <1>3

LEMMA PastIs ==
    ASSUME GuardInv, NEW t \in Thread, request[t] # Idle
    PROVE  request[t] \in [ip : Address, right : BOOLEAN] /\ request[t].ip \in Address
BY DEF GuardInv, GuardTypeOK

(* A wrong token, counted or not: other addresses lose at most an entry    *)
(* that says nothing, and the table stays within its cap.                  *)
LEMMA FailureStep ==
    ASSUME GuardInv, NEW t \in Thread, Failure(t)
    PROVE  /\ entries' \in [Tracked' -> Failures]
           /\ Tracked' \subseteq Address
           /\ IsFiniteSet(Tracked') /\ Cardinality(Tracked') <= MaxTracked
           /\ \A a \in Tracked : entries[a].left > 0 => a \in Tracked'
           /\ \A a \in Address : \E f :
                 /\ Left(Entry(a), f)
                 /\ \/ Entry(a)' = f /\ guesses'[a] = guesses[a]
                    \/ /\ a = request[t].ip
                       /\ Entry(a)' = Counted(f) /\ guesses'[a] = More(guesses[a])
<1> DEFINE ip == request[t].ip
           full == Cardinality(DOMAIN Kept) >= MaxTracked /\ ip \notin DOMAIN Kept
           was(a) == IF a \in DOMAIN Kept THEN Kept[a] ELSE Fresh
<1>1. ip \in Address
  BY PastIs DEF Failure
<1>2. \A a \in Tracked : entries[a] \in Failures /\ a \in Address
  BY DEF GuardInv, GuardTypeOK
<1>3. CASE full
  <2>1. entries' = Kept /\ guesses' = guesses
    BY <1>3 DEF Failure
  <2>2. Tracked' = DOMAIN Kept
    BY <2>1 DEF Tracked
  <2>3. entries' \in [Tracked' -> Failures]
    <3>1. Kept = [a \in DOMAIN Kept |-> Kept[a]]
      BY DEF Kept, Restrict, GuardInv, GuardTypeOK
    <3>2. \A a \in DOMAIN Kept : Kept[a] \in Failures
      BY <1>2, KeptIs
    <3>3. QED
      BY <2>1, <2>2, <3>1, <3>2
  <2>4. \A a \in Tracked : entries[a].left > 0 => a \in Tracked'
    BY <1>2, <2>2, KeptIs
  <2>5. ASSUME NEW a \in Address
        PROVE  Left(Entry(a), was(a)) /\ Entry(a)' = was(a) /\ guesses'[a] = guesses[a]
    BY <2>1, <2>2, KeptIs DEF Entry
  <2>6. QED
    BY <1>2, <2>2, <2>3, <2>4, <2>5, KeptIs
<1>4. CASE ~full
  <2>1. entries' = Put(Kept, ip, Counted(was(ip))) /\ Guessed(ip)
    BY <1>4 DEF Failure
  <2>2. /\ Tracked' = DOMAIN Kept \cup {ip}
        /\ entries' = [a \in DOMAIN Kept \cup {ip} |->
                         IF a = ip THEN Counted(was(ip)) ELSE Kept[a]]
    BY <2>1 DEF Tracked, Put
  <2>3. Counted(was(ip)) \in Failures
    <3>1. Fits(was(ip), guesses[ip]) /\ Rising(guesses[ip])
      BY <1>1, KeptIs, LeftFits DEF GuardInv
    <3>2. QED
      BY <3>1, CountedFits DEF Fits
  <2>4. entries' \in [Tracked' -> Failures]
    <3>1. \A a \in DOMAIN Kept : Kept[a] \in Failures
      BY <1>2, KeptIs
    <3>2. QED
      BY <2>2, <2>3, <3>1
  <2>5. IsFiniteSet(Tracked') /\ Cardinality(Tracked') <= MaxTracked
    <3>1. IsFiniteSet(DOMAIN Kept) /\ Cardinality(DOMAIN Kept) \in Nat
      BY KeptIs, FS_CardinalityType
    <3>2. /\ IsFiniteSet(DOMAIN Kept \cup {ip})
          /\ Cardinality(DOMAIN Kept \cup {ip})
             = IF ip \in DOMAIN Kept THEN Cardinality(DOMAIN Kept)
                                     ELSE Cardinality(DOMAIN Kept) + 1
      BY <3>1, FS_AddElement
    <3>3. QED
      BY <1>4, <2>2, <3>1, <3>2, KeptIs, GuardConstants
  <2>6. \A a \in Tracked : entries[a].left > 0 => a \in Tracked'
    BY <1>2, <2>2, KeptIs
  <2>7. \A a \in Address : guesses'[a] = IF a = ip THEN More(guesses[a]) ELSE guesses[a]
    BY <1>1, <2>1 DEF Guessed, More, GuardInv, GuardTypeOK
  <2>8. ASSUME NEW a \in Address
        PROVE  /\ Left(Entry(a), was(a))
               /\ Entry(a)' = IF a = ip THEN Counted(was(a)) ELSE was(a)
    BY <2>2, KeptIs DEF Entry
  <2>9. Tracked' \subseteq Address
    BY <1>1, <1>2, <2>2, KeptIs
  <2>10. QED
    BY <2>4, <2>5, <2>6, <2>7, <2>8, <2>9
<1>5. QED
  BY <1>3, <1>4

(* A right token: its address is forgotten, or loses its run of failures.  *)
LEMMA SuccessStep ==
    ASSUME GuardInv, NEW t \in Thread, Success(t)
    PROVE  /\ entries' \in [Tracked' -> Failures]
           /\ Tracked' \subseteq Tracked
           /\ \A a \in Tracked : entries[a].left > 0 =>
                 a \in Tracked' /\ entries'[a].left = entries[a].left
           /\ \A a \in Address :
                 \/ /\ a # request[t].ip
                    /\ Entry(a)' = Entry(a) /\ guesses'[a] = guesses[a]
                 \/ /\ a = request[t].ip
                    /\ guesses'[a] = NoGuesses
                    /\ \/ Entry(a)' = Fresh
                       \/ Entry(a)' = [Entry(a) EXCEPT !.count = 0, !.age = FailureWindow]
<1> DEFINE ip == request[t].ip
<1>1. ip \in Address
  BY PastIs DEF Success
<1>2. \A a \in Tracked : entries[a] \in Failures /\ a \in Address
  BY DEF GuardInv, GuardTypeOK
<1>3. \A a \in Address : guesses'[a] = IF a = ip THEN NoGuesses ELSE guesses[a]
  BY <1>1 DEF Success, GuardInv, GuardTypeOK
<1>4. CASE ip \notin Tracked
  <2>1. entries' = entries
    BY <1>4 DEF Success
  <2>2. QED
    BY <1>1, <1>2, <1>3, <1>4, <2>1 DEF GuardInv, GuardTypeOK, Entry, Tracked
<1>5. CASE ip \in Tracked /\ entries[ip].left = 0
  <2>1. entries' = [a \in Tracked \ {ip} |-> entries[a]]
    BY <1>5 DEF Success, Restrict
  <2>2. Tracked' = Tracked \ {ip} /\ \A a \in Tracked' : entries'[a] = entries[a]
    BY <2>1 DEF Tracked
  <2>3. entries' \in [Tracked' -> Failures]
    BY <1>2, <2>1, <2>2
  <2>4. \A a \in Address : Entry(a)' = IF a = ip THEN Fresh ELSE Entry(a)
    BY <2>2 DEF Entry
  <2>5. \A a \in Tracked : entries[a].left > 0 =>
           a \in Tracked' /\ entries'[a].left = entries[a].left
    BY <1>5, <2>2
  <2>6. QED
    BY <1>3, <2>2, <2>3, <2>4, <2>5
<1>6. CASE ip \in Tracked /\ entries[ip].left # 0
  <2> DEFINE e == [entries[ip] EXCEPT !.count = 0, !.age = FailureWindow]
  <2>1. entries' = [entries EXCEPT ![ip] = e]
    <3>1. entries' = [entries EXCEPT ![ip].count = 0, ![ip].age = FailureWindow]
      BY <1>6 DEF Success
    <3>2. entries \in [Tracked -> Failures]
      BY DEF GuardInv, GuardTypeOK
    <3>3. QED
      BY <1>6, <3>1, <3>2
  <2>2. Fits(e, NoGuesses) /\ e.left = entries[ip].left
    <3>1. Fits(entries[ip], guesses[ip])
      BY <1>1, <1>6 DEF GuardInv, Entry
    <3>2. PICK d : d = entries[ip]
      OBVIOUS
    <3>3. PICK c : c = [d EXCEPT !.count = 0]
      OBVIOUS
    <3>4. c.left = d.left /\ e = [c EXCEPT !.age = FailureWindow]
      BY <3>2, <3>3
    <3>5. [c EXCEPT !.age = FailureWindow].left = c.left
      OBVIOUS
    <3>6. QED
      BY <3>1, <3>2, <3>4, <3>5, ForgivenFits
  <2> HIDE DEF e
  <2>3. Tracked' = Tracked /\ \A a \in Tracked : entries'[a] = IF a = ip THEN e ELSE entries[a]
    BY <2>1 DEF Tracked, GuardInv, GuardTypeOK
  <2>4. entries' \in [Tracked' -> Failures]
    <3>1. e \in Failures
      BY <2>2 DEF Fits
    <3>2. entries \in [Tracked -> Failures]
      BY DEF GuardInv, GuardTypeOK
    <3>3. QED
      BY <2>1, <2>3, <3>1, <3>2
  <2>5. \A a \in Address : Entry(a)' = IF a = ip THEN e ELSE Entry(a)
    BY <1>6, <2>3 DEF Entry
  <2>6. e = [Entry(ip) EXCEPT !.count = 0, !.age = FailureWindow]
    BY <1>6 DEF e, Entry
  <2>7. QED
    BY <1>3, <2>2, <2>3, <2>4, <2>5, <2>6
<1>7. QED
  BY <1>4, <1>5, <1>6

(* A tick: every entry and every history is a tick older.                  *)
LEMMA TickStep ==
    ASSUME GuardInv, GuardTick
    PROVE  /\ entries' \in [Tracked' -> Failures]
           /\ Tracked' = Tracked
           /\ \A a \in Address :
                 /\ Entry(a)' = IF a \in Tracked THEN Older(Entry(a)) ELSE Fresh
                 /\ guesses'[a] = Aged(guesses[a])
<1>1. Tracked' = Tracked /\ entries' = [a \in Tracked |-> Older(entries[a])]
  BY DEF GuardTick, Tracked
<1>2. \A a \in Tracked : Older(entries[a]) \in Failures
  <2>1. ASSUME NEW a \in Tracked
        PROVE  Older(entries[a]) \in Failures
    <3>1. Fits(entries[a], guesses[a]) /\ Rising(guesses[a])
      BY DEF GuardInv, GuardTypeOK, Entry
    <3>2. QED
      BY <3>1, OlderFits DEF Fits
  <2>2. QED
    BY <2>1
<1>3. entries' \in [Tracked' -> Failures]
  BY <1>1, <1>2
<1>4. \A a \in Address : Entry(a)' = IF a \in Tracked THEN Older(Entry(a)) ELSE Fresh
  BY <1>1 DEF Entry
<1>5. \A a \in Address : guesses'[a] = Aged(guesses[a])
  BY DEF GuardTick, Aged
<1>6. QED
  BY <1>1, <1>3, <1>4, <1>5

LEMMA GuardInvInit == GuardInit => GuardInv
<1> SUFFICES ASSUME GuardInit
             PROVE  GuardInv
  OBVIOUS
<1>1. Tracked = {} /\ entries \in [Tracked -> Failures]
  BY DEF GuardInit, Tracked
<1>2. IsFiniteSet(Tracked) /\ Cardinality(Tracked) <= MaxTracked
  BY <1>1, FS_EmptySet, GuardConstants
<1>3. request \in [Thread -> [ip : Address, right : BOOLEAN] \cup {Idle}]
  BY DEF GuardInit
<1>4. \A ip \in Address : Rising(guesses[ip]) /\ Fits(Entry(ip), guesses[ip])
  BY <1>1, NothingRises, FreshFits DEF GuardInit, Entry
<1>5. guesses \in [Address -> [Ages -> Nat]]
  BY DEF GuardInit, NoGuesses
<1>6. QED
  BY <1>1, <1>2, <1>3, <1>4, <1>5 DEF GuardInv, GuardTypeOK

LEMMA AnsweredType ==
    ASSUME GuardInv, NEW t \in Thread, Answered(t)
    PROVE  request' \in [Thread -> [ip : Address, right : BOOLEAN] \cup {Idle}]
BY DEF GuardInv, GuardTypeOK, Answered

(* What is left to show of a step, once every address is as it should be.  *)
LEMMA Together ==
    ASSUME entries' \in [Tracked' -> Failures], Tracked' \subseteq Address,
           IsFiniteSet(Tracked'), Cardinality(Tracked') <= MaxTracked,
           request' \in [Thread -> [ip : Address, right : BOOLEAN] \cup {Idle}],
           guesses' = [a \in Address |-> guesses'[a]],
           \A a \in Address : Rising(guesses'[a]) /\ Fits(Entry(a)', guesses'[a])
    PROVE  GuardInv'
<1>1. guesses' \in [Address -> [Ages -> Nat]]
  BY DEF Rising
<1>2. GuardTypeOK'
  BY <1>1 DEF GuardTypeOK
<1>3. (\A ip \in Address : Rising(guesses[ip]) /\ Fits(Entry(ip), guesses[ip]))'
  OBVIOUS
<1>4. QED
  BY <1>2, <1>3 DEF GuardInv

LEMMA GuardInvNext == GuardInv /\ [GuardNext]_guardVars => GuardInv'
<1> SUFFICES ASSUME GuardInv, [GuardNext]_guardVars
             PROVE  GuardInv'
  OBVIOUS
<1>1. guesses = [a \in Address |-> guesses[a]]
  BY DEF GuardInv, GuardTypeOK
<1>2. CASE UNCHANGED guardVars
  BY <1>2 DEF guardVars, GuardInv, GuardTypeOK, Tracked, Entry
<1>3. ASSUME NEW t \in Thread, NEW ip \in Address, Arrive(t, ip)
      PROVE  GuardInv'
  <2>1. request' \in [Thread -> [ip : Address, right : BOOLEAN] \cup {Idle}]
    BY <1>3 DEF Arrive, GuardInv, GuardTypeOK
  <2>2. entries' = entries /\ guesses' = guesses
    BY <1>3 DEF Arrive
  <2>3. QED
    BY <2>1, <2>2 DEF GuardInv, GuardTypeOK, Tracked, Entry
<1>4. ASSUME NEW t \in Thread, Failure(t)
      PROVE  GuardInv'
  <2>1. request' \in [Thread -> [ip : Address, right : BOOLEAN] \cup {Idle}]
    BY <1>4, AnsweredType DEF Failure
  <2>2. guesses' = [a \in Address |-> guesses'[a]]
    BY <1>1, <1>4 DEF Failure, Guessed
  <2>3. ASSUME NEW a \in Address
        PROVE  Rising(guesses'[a]) /\ Fits(Entry(a)', guesses'[a])
    <3>1. PICK f : /\ Left(Entry(a), f)
                   /\ \/ Entry(a)' = f /\ guesses'[a] = guesses[a]
                      \/ Entry(a)' = Counted(f) /\ guesses'[a] = More(guesses[a])
      BY <1>4, FailureStep
    <3>2. Rising(guesses[a]) /\ Fits(f, guesses[a])
      BY <3>1, LeftFits DEF GuardInv
    <3>3. QED
      BY <3>1, <3>2, RisingKept, CountedFits
  <2>4. /\ entries' \in [Tracked' -> Failures] /\ Tracked' \subseteq Address
        /\ IsFiniteSet(Tracked') /\ Cardinality(Tracked') <= MaxTracked
    BY <1>4, FailureStep
  <2>5. QED
    BY <2>1, <2>2, <2>3, <2>4, Together
<1>5. ASSUME NEW t \in Thread, Success(t)
      PROVE  GuardInv'
  <2>1. request' \in [Thread -> [ip : Address, right : BOOLEAN] \cup {Idle}]
    BY <1>5, AnsweredType DEF Success
  <2>2. guesses' = [a \in Address |-> guesses'[a]]
    BY <1>1, <1>5 DEF Success
  <2>3. ASSUME NEW a \in Address
        PROVE  Rising(guesses'[a]) /\ Fits(Entry(a)', guesses'[a])
    <3>1. Rising(guesses[a]) /\ Fits(Entry(a), guesses[a])
      BY DEF GuardInv
    <3> DEFINE forgiven == [Entry(a) EXCEPT !.count = 0, !.age = FailureWindow]
    <3>2. \/ Entry(a)' = Entry(a) /\ guesses'[a] = guesses[a]
          \/ guesses'[a] = NoGuesses /\ (Entry(a)' = Fresh \/ Entry(a)' = forgiven)
      BY <1>5, SuccessStep
    <3>3. Fits(Fresh, NoGuesses) /\ Fits(forgiven, NoGuesses) /\ Rising(NoGuesses)
      BY <3>1, NothingRises, FreshFits, ForgivenFits
    <3> HIDE DEF forgiven
    <3>4. QED
      BY <3>1, <3>2, <3>3
  <2>4. /\ entries' \in [Tracked' -> Failures] /\ Tracked' \subseteq Tracked
    BY <1>5, SuccessStep
  <2>5. IsFiniteSet(Tracked') /\ Cardinality(Tracked') <= MaxTracked
    <3>1. IsFiniteSet(Tracked') /\ Cardinality(Tracked') <= Cardinality(Tracked)
      BY <2>4, FS_Subset DEF GuardInv
    <3>2. Cardinality(Tracked') \in Nat /\ Cardinality(Tracked) \in Nat
      BY <3>1, FS_CardinalityType DEF GuardInv
    <3>3. QED
      BY <3>1, <3>2, GuardConstants DEF GuardInv, GuardTypeOK
  <2>6. Tracked' \subseteq Address
    BY <2>4 DEF GuardInv, GuardTypeOK
  <2>7. QED
    BY <2>1, <2>2, <2>3, <2>4, <2>5, <2>6, Together
<1>6. CASE GuardTick
  <2>1. request' \in [Thread -> [ip : Address, right : BOOLEAN] \cup {Idle}]
    BY <1>6 DEF GuardTick, GuardInv, GuardTypeOK
  <2>2. guesses' = [a \in Address |-> guesses'[a]]
    BY <1>6 DEF GuardTick
  <2>3. ASSUME NEW a \in Address
        PROVE  Rising(guesses'[a]) /\ Fits(Entry(a)', guesses'[a])
    <3>1. Rising(guesses[a]) /\ Fits(Entry(a), guesses[a])
      BY DEF GuardInv
    <3>2. Entry(a)' = Older(Entry(a)) \/ Entry(a)' = Fresh
      BY <1>6, TickStep
    <3>3. guesses'[a] = Aged(guesses[a])
      BY <1>6, TickStep
    <3>4. QED
      BY <3>1, <3>2, <3>3, RisingKept, FreshFits, OlderFits
  <2>4. QED
    BY <1>6, <2>1, <2>2, <2>3, TickStep, Together DEF GuardInv, GuardTypeOK
<1>7. QED
  BY <1>2, <1>3, <1>4, <1>5, <1>6 DEF GuardNext

(* The table never holds more than MaxTracked addresses, whatever fails    *)
(* and whoever comes (admin.rs, `failure` and its `retain`).               *)
THEOREM GuardTypeCorrect == GuardSpec => []GuardTypeOK
<1>1. GuardInv => GuardTypeOK
  BY DEF GuardInv
<1>2. QED
  BY GuardInvInit, GuardInvNext, <1>1, PTL DEF GuardSpec

----------------------------------------------------------------------------
(* Blocks stand, and are earned                                            *)

LEMMA LeftKeeps ==
    ASSUME NEW e, NEW f, Left(e, f), e.left > 0
    PROVE  f = e
BY DEF Left

LEMMA CountedBlocks ==
    ASSUME NEW e, NEW g, Fits(e, g), Rising(g)
    PROVE  /\ Counted(e).left >= e.left
           /\ e.left = 0 /\ Counted(e).left > 0 => g[FailureWindow - 1] + 1 >= MaxFailures
<1> USE GuardConstants
<1>1. /\ e.count \in 0..MaxFailures /\ e.age \in 0..FailureWindow
      /\ e.left \in 0..MaxBlock /\ e.blocks \in 0..MaxDoublings
      /\ e = [count |-> e.count, age |-> e.age, left |-> e.left, blocks |-> e.blocks]
  BY DEF Fits, Failures
<1> DEFINE inWindow == e.age < FailureWindow
           count == IF inWindow THEN e.count + 1 ELSE 1
<1>2. CASE count >= MaxFailures
  <2>1. Counted(e).left = BlockFor(e.blocks)
    BY <1>2 DEF Counted
  <2>2. g[FailureWindow - 1] \in Nat
    BY DEF Rising, Ages
  <2>3. g[FailureWindow - 1] + 1 >= count
    <3>1. CASE inWindow
      <4>1. e.age \in Ages /\ FailureWindow - 1 \in Ages /\ e.age <= FailureWindow - 1
        BY <1>1, <3>1 DEF Ages
      <4>2. g[e.age] >= e.count /\ g[e.age] <= g[FailureWindow - 1] /\ g[e.age] \in Nat
        BY <3>1, <4>1 DEF Fits, Rising
      <4>3. QED
        BY <1>1, <2>2, <3>1, <4>2
    <3>2. CASE ~inWindow
      BY <2>2, <3>2
    <3>3. QED
      BY <3>1, <3>2
  <2>4. count \in Nat
    BY <1>1
  <2>5. g[FailureWindow - 1] + 1 >= MaxFailures
    BY <1>2, <2>2, <2>3, <2>4
  <2>6. Counted(e).left >= e.left
    BY <1>1, <2>1, BlockForIs DEF Fits
  <2>7. QED
    BY <2>5, <2>6
<1>3. CASE ~(count >= MaxFailures)
  <2>1. Counted(e).left = e.left
    BY <1>1, <1>3 DEF Counted
  <2>2. QED
    BY <1>1, <2>1
<1>4. QED
  BY <1>2, <1>3

(* A block is served in full: no right token of a request under way, no    *)
(* clearing of a full table and no further failure ends or shortens it     *)
(* (admin.rs, `success`, `failure` and its `retain`).                      *)
THEOREM BlocksStand == GuardSpec => BlockStands
<1> DEFINE Stands(ip) ==
              Blocked(ip) => /\ ip \in DOMAIN entries'
                             /\ \/ entries'[ip].left >= entries[ip].left
                                \/ GuardTick /\ entries'[ip].left = entries[ip].left - 1
<1>1. GuardInv /\ [GuardNext]_guardVars => [\A ip \in Address : Stands(ip)]_guardVars
  <2> SUFFICES ASSUME GuardInv, GuardNext, NEW ip \in Address, Blocked(ip)
               PROVE  /\ ip \in Tracked'
                      /\ \/ entries'[ip].left >= entries[ip].left
                         \/ GuardTick /\ entries'[ip].left = entries[ip].left - 1
    BY DEF Tracked
  <2>1. /\ ip \in Tracked /\ entries[ip].left > 0 /\ Entry(ip) = entries[ip]
        /\ Fits(entries[ip], guesses[ip]) /\ Rising(guesses[ip])
        /\ entries[ip].left \in Nat
    BY GuardConstants DEF Blocked, Entry, GuardInv, GuardTypeOK, Failures
  <2>2. ASSUME NEW t \in Thread, NEW a \in Address, Arrive(t, a)
        PROVE  ip \in Tracked' /\ entries'[ip].left >= entries[ip].left
    BY <2>1, <2>2 DEF Arrive, Tracked
  <2>3. ASSUME NEW t \in Thread, Failure(t)
        PROVE  ip \in Tracked' /\ entries'[ip].left >= entries[ip].left
    <3>1. ip \in Tracked'
      BY <2>1, <2>3, FailureStep
    <3>2. entries'[ip] = Entry(ip)'
      BY <3>1 DEF Entry
    <3>3. Entry(ip)' = entries[ip] \/ Entry(ip)' = Counted(entries[ip])
      BY <2>1, <2>3, FailureStep, LeftKeeps
    <3>4. QED
      BY <2>1, <3>1, <3>2, <3>3, CountedBlocks
  <2>4. ASSUME NEW t \in Thread, Success(t)
        PROVE  ip \in Tracked' /\ entries'[ip].left >= entries[ip].left
    <3>1. ip \in Tracked' /\ entries'[ip].left = entries[ip].left
      BY <2>1, <2>4, SuccessStep
    <3>2. QED
      BY <2>1, <3>1
  <2>5. CASE GuardTick
    <3>1. ip \in Tracked' /\ Entry(ip)' = Older(entries[ip])
      BY <2>1, <2>5, TickStep
    <3>2. entries'[ip].left = entries[ip].left - 1
      BY <2>1, <3>1, OlderFits DEF Entry
    <3>3. QED
      BY <2>5, <3>1, <3>2
  <2>6. QED
    BY <2>2, <2>3, <2>4, <2>5 DEF GuardNext
<1>2. QED
  BY <1>1, GuardInvInit, GuardInvNext, PTL DEF GuardSpec, BlockStands

(* A block starts only with the last of MaxFailures wrong tokens within    *)
(* one window, none of them followed by a right one (the comment on        *)
(* FAILURE_WINDOW in admin.rs).                                            *)
THEOREM BlocksAreEarned == GuardSpec => BlockIsEarned
<1>1. GuardInv /\ [GuardNext]_guardVars
      => [\A ip \in Address :
            (/\ ip \in DOMAIN entries' /\ entries'[ip].left > 0
             /\ ~Blocked(ip))
            => RecentGuesses(ip)' >= MaxFailures]_guardVars
  <2> SUFFICES ASSUME GuardInv, GuardNext, NEW ip \in Address,
                      ip \in Tracked', entries'[ip].left > 0, ~Blocked(ip)
               PROVE  guesses'[ip][FailureWindow - 1] >= MaxFailures
    BY DEF Tracked, RecentGuesses
  <2>1. /\ Fits(Entry(ip), guesses[ip]) /\ Rising(guesses[ip])
        /\ Entry(ip).left = 0
    BY GuardConstants DEF Blocked, Entry, Fresh, GuardInv, GuardTypeOK, Failures
  <2>2. entries'[ip] = Entry(ip)'
    BY DEF Entry
  <2>3. ASSUME NEW t \in Thread, NEW a \in Address, Arrive(t, a)
        PROVE  FALSE
    BY <2>1, <2>2, <2>3 DEF Arrive, Entry, Tracked
  <2>4. ASSUME NEW t \in Thread, Failure(t)
        PROVE  guesses'[ip][FailureWindow - 1] >= MaxFailures
    <3>1. PICK f : /\ Left(Entry(ip), f)
                   /\ \/ Entry(ip)' = f /\ guesses'[ip] = guesses[ip]
                      \/ Entry(ip)' = Counted(f) /\ guesses'[ip] = More(guesses[ip])
      BY <2>4, FailureStep
    <3>2. f.left = 0 /\ Fits(f, guesses[ip])
      BY <2>1, <3>1, LeftFits DEF Left, Fresh
    <3>3. Counted(f).left > 0 /\ guesses'[ip] = More(guesses[ip])
      BY <2>2, <3>1, <3>2
    <3>4. guesses'[ip][FailureWindow - 1] = guesses[ip][FailureWindow - 1] + 1
      BY <3>3, GuardConstants DEF More, Ages
    <3>5. QED
      BY <2>1, <3>2, <3>3, <3>4, CountedBlocks
  <2>5. ASSUME NEW t \in Thread, Success(t)
        PROVE  FALSE
    <3>1. ip \in Tracked /\ entries[ip].left = 0 /\ Entry(ip) = entries[ip]
      BY <2>1, <2>5, SuccessStep DEF Entry
    <3>2. PICK d : d = Entry(ip)
      OBVIOUS
    <3>3. PICK c : c = [d EXCEPT !.count = 0]
      OBVIOUS
    <3>4. c.left = 0 /\ [c EXCEPT !.age = FailureWindow].left = 0
      <4>1. d = [count |-> d.count, age |-> d.age, left |-> 0, blocks |-> d.blocks]
        BY <2>1, <3>2 DEF Fits, Failures
      <4>2. c = [count |-> 0, age |-> d.age, left |-> 0, blocks |-> d.blocks]
        BY <3>3, <4>1
      <4>3. QED
        BY <4>2
    <3> DEFINE forgiven == [Entry(ip) EXCEPT !.count = 0, !.age = FailureWindow]
    <3>5. forgiven.left = 0
      BY <3>2, <3>3, <3>4
    <3>6. \/ Entry(ip)' = Entry(ip)
          \/ Entry(ip)' = Fresh
          \/ Entry(ip)' = forgiven
      BY <2>5, SuccessStep
    <3>7. Entry(ip)'.left = 0
      <4> HIDE DEF forgiven
      <4>1. Fresh.left = 0
        BY DEF Fresh
      <4>2. QED
        BY <2>1, <3>5, <3>6, <4>1
    <3>8. QED
      BY <2>2, <3>7
  <2>6. CASE GuardTick
    <3>1. Entry(ip)' = Older(Entry(ip)) \/ Entry(ip)' = Fresh
      BY <2>6, TickStep
    <3>2. Entry(ip)'.left = 0
      BY <2>1, <3>1, OlderFits DEF Fresh
    <3>3. QED
      BY <2>2, <3>2
  <2>7. QED
    BY <2>3, <2>4, <2>5, <2>6 DEF GuardNext
<1>2. QED
  BY <1>1, GuardInvInit, GuardInvNext, PTL DEF GuardSpec, BlockIsEarned

----------------------------------------------------------------------------
(* What can be tried within a window                                       *)

(* Requests of an address that are past `blocked`.                         *)
Under(ip) == {t \in Thread : request[t] # Idle /\ request[t].ip = ip}

(* The wrong tokens that will still be recent when the block has ended.    *)
Still(e, g) ==
    IF e.left >= FailureWindow THEN 0 ELSE g[FailureWindow - 1 - e.left]

(* By the time an address may come again, what is recent is at most the    *)
(* end of one run of failures and what there is of the next.               *)
RunsBounded(e, g) ==
    Still(e, g) <= MaxFailures - 2 + (IF e.age < FailureWindow THEN e.count ELSE 0)

BoundInv ==
    /\ GuardInv
    /\ \A ip \in Address :
          /\ RunsBounded(Entry(ip), guesses[ip])
          /\ RecentGuesses(ip) + Cardinality(Under(ip))
             <= 2 * MaxFailures - 3 + Cardinality(Thread)

LEMMA StillIs ==
    ASSUME NEW e \in Failures, NEW g, Rising(g)
    PROVE  Still(e, g) \in Nat /\ Still(e, g) <= g[FailureWindow - 1]
<1>1. FailureWindow - 1 \in Ages /\ g[FailureWindow - 1] \in Nat
  BY GuardConstants DEF Rising, Ages
<1>2. CASE e.left >= FailureWindow
  BY <1>1, <1>2 DEF Still
<1>3. CASE ~(e.left >= FailureWindow)
  <2>1. e.left \in Nat
    BY DEF Failures
  <2>2. /\ FailureWindow - 1 - e.left \in Ages
        /\ FailureWindow - 1 - e.left <= FailureWindow - 1
    BY <1>3, <2>1, GuardConstants DEF Ages
  <2>3. QED
    BY <1>1, <1>3, <2>2 DEF Still, Rising
<1>4. QED
  BY <1>2, <1>3

LEMMA RunsBoundedFresh ==
    ASSUME NEW e, NEW f, NEW g, Left(e, f), RunsBounded(e, g)
    PROVE  RunsBounded(f, g)
BY GuardConstants DEF Left, RunsBounded, Still, Fresh

LEMMA RunsBoundedForgiven ==
    ASSUME NEW e \in Failures, MaxFailures >= 2
    PROVE  RunsBounded(e, NoGuesses)
<1>1. FailureWindow - 1 \in Ages /\ NoGuesses[FailureWindow - 1] = 0
  BY GuardConstants DEF NoGuesses, Ages
<1>2. Still(e, NoGuesses) = 0
  BY <1>1, StillIs, NothingRises
<1>3. e.count \in Nat
  BY GuardConstants DEF Failures
<1>4. QED
  BY <1>2, <1>3, GuardConstants DEF RunsBounded

LEMMA RunsBoundedCounted ==
    ASSUME NEW e, NEW g, Fits(e, g), Rising(g), RunsBounded(e, g),
           MaxFailures >= 2, BaseBlock >= FailureWindow
    PROVE  RunsBounded(Counted(e), More(g))
<1> USE GuardConstants
<1>1. /\ e.count \in 0..MaxFailures /\ e.age \in 0..FailureWindow
      /\ e.left \in 0..MaxBlock /\ e.blocks \in 0..MaxDoublings
      /\ e \in Failures
      /\ e = [count |-> e.count, age |-> e.age, left |-> e.left, blocks |-> e.blocks]
  BY DEF Fits, Failures
<1> DEFINE inWindow == e.age < FailureWindow
           count == IF inWindow THEN e.count + 1 ELSE 1
           age == IF inWindow THEN e.age ELSE 0
<1>2. CASE count >= MaxFailures
  <2>1. /\ Counted(e).left = BlockFor(e.blocks) /\ Counted(e).age = FailureWindow
    BY <1>2 DEF Counted
  <2>2. BlockFor(e.blocks) \in Nat /\ BlockFor(e.blocks) >= FailureWindow
    BY <1>1, BlockForIs
  <2>3. Still(Counted(e), More(g)) = 0
    BY <2>1, <2>2 DEF Still
  <2>4. QED
    BY <2>1, <2>3 DEF RunsBounded
<1>3. CASE ~(count >= MaxFailures)
  <2>1. Counted(e) = [count |-> count, age |-> age, left |-> e.left, blocks |-> e.blocks]
    BY <1>1, <1>3 DEF Counted
  <2>2. /\ Counted(e).left = e.left /\ Counted(e).count = count
        /\ Counted(e).age < FailureWindow
    BY <1>1, <2>1
  <2>3. count \in Nat /\ count >= 1
    BY <1>1
  <2>4. CASE e.left >= FailureWindow
    <3>1. Still(Counted(e), More(g)) = 0
      BY <2>2, <2>4 DEF Still
    <3>2. QED
      BY <2>2, <2>3, <3>1 DEF RunsBounded
  <2>5. CASE ~(e.left >= FailureWindow)
    <3>1. FailureWindow - 1 - e.left \in Ages
      BY <1>1, <2>5 DEF Ages
    <3>2. Still(Counted(e), More(g)) = Still(e, g) + 1
      BY <2>2, <2>5, <3>1 DEF Still, More
    <3>3. Still(e, g) \in Nat
      BY <1>1, StillIs
    <3>4. Still(e, g) <= MaxFailures - 2 + (count - 1)
      BY <1>1 DEF RunsBounded
    <3>5. QED
      BY <2>2, <2>3, <3>2, <3>3, <3>4 DEF RunsBounded
  <2>6. QED
    BY <2>4, <2>5
<1>4. QED
  BY <1>2, <1>3

LEMMA RunsBoundedOlder ==
    ASSUME NEW e, NEW g, Fits(e, g), Rising(g), RunsBounded(e, g), MaxFailures >= 2
    PROVE  RunsBounded(Older(e), Aged(g))
<1> USE GuardConstants
<1>1. /\ e.count \in 0..MaxFailures /\ e.age \in 0..FailureWindow
      /\ e.left \in 0..MaxBlock /\ e \in Failures
  BY DEF Fits, Failures
<1>2. /\ Older(e).left = IF e.left > 0 THEN e.left - 1 ELSE 0
      /\ Older(e).age = IF e.age < FailureWindow THEN e.age + 1 ELSE e.age
      /\ Older(e).count = e.count
      /\ Older(e) \in Failures
  BY OlderFits DEF Fits
<1>3. Rising(Aged(g))
  BY RisingKept
<1>4. Still(e, g) \in Nat /\ Still(Older(e), Aged(g)) \in Nat
  BY <1>1, <1>2, <1>3, StillIs
<1>5. Still(Older(e), Aged(g)) <= Still(e, g)
  <2>1. CASE Older(e).left >= FailureWindow
    BY <1>4, <2>1 DEF Still
  <2>2. CASE ~(Older(e).left >= FailureWindow)
    <3> DEFINE i == FailureWindow - 1 - Older(e).left
    <3>1. i \in Ages /\ Still(Older(e), Aged(g)) = Aged(g)[i]
      BY <1>1, <1>2, <2>2 DEF Still, Ages
    <3>2. CASE i = 0
      BY <1>4, <3>1, <3>2 DEF Aged
    <3>3. CASE i # 0
      <4>1. Aged(g)[i] = g[i - 1] /\ i - 1 \in Ages
        BY <3>1, <3>3 DEF Aged, Ages
      <4>2. FailureWindow - 1 - e.left \in Ages /\ i - 1 <= FailureWindow - 1 - e.left
        BY <1>1, <1>2, <2>2, <3>1, <3>3 DEF Ages
      <4>3. Still(e, g) = g[FailureWindow - 1 - e.left]
        BY <1>1, <4>2 DEF Still, Ages
      <4>4. g[i - 1] <= g[FailureWindow - 1 - e.left]
        BY <4>1, <4>2 DEF Rising
      <4>5. QED
        BY <3>1, <4>1, <4>3, <4>4
    <3>4. QED
      BY <3>2, <3>3
  <2>3. QED
    BY <2>1, <2>2
<1>6. CASE e.age + 1 # FailureWindow
  BY <1>1, <1>2, <1>4, <1>5, <1>6 DEF RunsBounded
<1>7. CASE e.age + 1 = FailureWindow
  <2>1. Still(Older(e), Aged(g)) <= Aged(g)[FailureWindow - 1]
    BY <1>2, <1>3, StillIs
  <2>2. Aged(g)[FailureWindow - 1] <= MaxFailures - 2
    <3>1. CASE FailureWindow = 1
      BY <3>1 DEF Aged, Ages
    <3>2. CASE FailureWindow # 1
      <4>1. FailureWindow - 1 \in Ages /\ FailureWindow - 1 # 0
        BY <3>2 DEF Ages
      <4>2. Aged(g)[FailureWindow - 1] = g[(FailureWindow - 1) - 1]
        BY <4>1 DEF Aged
      <4>3. e.age = FailureWindow - 1 /\ e.age \in 1..(FailureWindow - 1)
        BY <1>1, <1>7, <3>2
      <4>4. g[e.age - 1] <= e.count - 1 /\ e.count < MaxFailures
        BY <4>3 DEF Fits
      <4>5. g[e.age - 1] \in Nat
        BY <4>3 DEF Rising, Ages
      <4>6. QED
        BY <1>1, <4>2, <4>3, <4>4, <4>5
    <3>3. QED
      BY <3>1, <3>2
  <2>3. Aged(g)[FailureWindow - 1] \in Nat
    BY <1>3 DEF Rising, Ages
  <2>4. QED
    BY <1>1, <1>2, <1>4, <1>7, <2>1, <2>2, <2>3 DEF RunsBounded
<1>8. QED
  BY <1>6, <1>7

LEMMA AgedOfLast ==
    ASSUME NEW g, Rising(g)
    PROVE  /\ g[FailureWindow - 1] \in Nat /\ Aged(g)[FailureWindow - 1] \in Nat
           /\ Aged(g)[FailureWindow - 1] <= g[FailureWindow - 1]
           /\ More(g)[FailureWindow - 1] = g[FailureWindow - 1] + 1
<1>1. FailureWindow - 1 \in Ages
  BY GuardConstants DEF Ages
<1>2. g[FailureWindow - 1] \in Nat /\ More(g)[FailureWindow - 1] = g[FailureWindow - 1] + 1
  BY <1>1 DEF Rising, More
<1>3. CASE FailureWindow - 1 = 0
  BY <1>1, <1>2, <1>3 DEF Aged
<1>4. CASE FailureWindow - 1 # 0
  <2>1. (FailureWindow - 1) - 1 \in Ages /\ (FailureWindow - 1) - 1 <= FailureWindow - 1
    BY <1>1, <1>4, GuardConstants DEF Ages
  <2>2. Aged(g)[FailureWindow - 1] = g[(FailureWindow - 1) - 1]
    BY <1>1, <1>4 DEF Aged
  <2>3. QED
    BY <1>1, <1>2, <2>1, <2>2 DEF Rising
<1>5. QED
  BY <1>3, <1>4

LEMMA UnderIs ==
    ASSUME IsFiniteSet(Thread), NEW ip
    PROVE  /\ IsFiniteSet(Under(ip)) /\ Cardinality(Under(ip)) \in Nat
           /\ Cardinality(Thread) \in Nat
           /\ Cardinality(Under(ip)) <= Cardinality(Thread)
<1>1. Under(ip) \in SUBSET Thread
  BY DEF Under
<1>2. QED
  BY <1>1, FS_Subset, FS_CardinalityType

(* A request that is answered is no longer past `blocked`.                 *)
LEMMA AnsweredLeaves ==
    ASSUME GuardInv, IsFiniteSet(Thread),
           NEW t \in Thread, request[t] # Idle, Answered(t), NEW ip
    PROVE  /\ Cardinality(Under(ip))' \in Nat
           /\ Cardinality(Under(ip))'
              = Cardinality(Under(ip)) - (IF ip = request[t].ip THEN 1 ELSE 0)
<1>1. \A u \in Thread : request'[u] = IF u = t THEN Idle ELSE request[u]
  BY DEF Answered, GuardInv, GuardTypeOK
<1>2. Under(ip)' = Under(ip) \ {t}
  BY <1>1 DEF Under
<1>3. t \in Under(ip) <=> ip = request[t].ip
  BY DEF Under
<1>4. /\ IsFiniteSet(Under(ip) \ {t})
      /\ Cardinality(Under(ip) \ {t})
         = IF t \in Under(ip) THEN Cardinality(Under(ip)) - 1 ELSE Cardinality(Under(ip))
  BY UnderIs, FS_RemoveElement
<1>5. Cardinality(Under(ip) \ {t}) \in Nat
  BY <1>4, FS_CardinalityType
<1>6. QED
  BY <1>2, <1>3, <1>4, <1>5, UnderIs

LEMMA BoundInvInit ==
    ASSUME MaxFailures >= 2, IsFiniteSet(Thread)
    PROVE  GuardInit => BoundInv
<1> SUFFICES ASSUME GuardInit
             PROVE  BoundInv
  OBVIOUS
<1>1. GuardInv
  BY GuardInvInit
<1>2. ASSUME NEW ip \in Address
      PROVE  /\ RunsBounded(Entry(ip), guesses[ip])
             /\ RecentGuesses(ip) + Cardinality(Under(ip))
                <= 2 * MaxFailures - 3 + Cardinality(Thread)
  <2>1. guesses[ip] = NoGuesses /\ Entry(ip) \in Failures
    BY <1>1 DEF GuardInit, GuardInv, Fits
  <2>2. RunsBounded(Entry(ip), guesses[ip])
    BY <2>1, RunsBoundedForgiven
  <2>3. RecentGuesses(ip) = 0
    BY <2>1, GuardConstants DEF RecentGuesses, NoGuesses, Ages
  <2>4. QED
    BY <2>2, <2>3, UnderIs, GuardConstants
<1>3. QED
  BY <1>1, <1>2 DEF BoundInv

LEMMA BoundInvNext ==
    ASSUME MaxFailures >= 2, BaseBlock >= FailureWindow, IsFiniteSet(Thread)
    PROVE  BoundInv /\ [GuardNext]_guardVars => BoundInv'
<1> SUFFICES ASSUME BoundInv, [GuardNext]_guardVars
             PROVE  BoundInv'
  OBVIOUS
<1>1. GuardInv /\ GuardInv'
  BY GuardInvNext DEF BoundInv
<1> DEFINE Last(ip) == guesses[ip][FailureWindow - 1]
           Bounded(ip) == Last(ip) + Cardinality(Under(ip))
                          <= 2 * MaxFailures - 3 + Cardinality(Thread)
<1>2. ASSUME NEW ip \in Address
      PROVE  /\ Fits(Entry(ip), guesses[ip]) /\ Rising(guesses[ip])
             /\ RunsBounded(Entry(ip), guesses[ip]) /\ Bounded(ip)
             /\ Last(ip) \in Nat
  BY <1>1, AgedOfLast DEF BoundInv, GuardInv, RecentGuesses
<1>3. SUFFICES ASSUME NEW ip \in Address
               PROVE  RunsBounded(Entry(ip), guesses[ip])' /\ Bounded(ip)'
  BY <1>1 DEF BoundInv, RecentGuesses
<1>4. CASE UNCHANGED guardVars
  BY <1>2, <1>4 DEF guardVars, Entry, Tracked, Under
<1>5. ASSUME NEW t \in Thread, NEW a \in Address, Arrive(t, a)
      PROVE  RunsBounded(Entry(ip), guesses[ip])' /\ Bounded(ip)'
  <2>1. entries' = entries /\ guesses' = guesses /\ request[t] = Idle /\ ~Blocked(a)
    BY <1>5 DEF Arrive
  <2>2. RunsBounded(Entry(ip), guesses[ip])'
    BY <1>2, <2>1 DEF Entry, Tracked
  <2>3. CASE ip = a
    <3>1. /\ Entry(ip).left = 0 /\ Entry(ip).count \in Nat
          /\ Entry(ip).count <= MaxFailures - 1
      BY <1>2, <2>1, <2>3, GuardConstants DEF Blocked, Entry, Fresh, Fits, Failures
    <3>2. Last(ip) <= MaxFailures - 2 + (MaxFailures - 1)
      <4>1. Still(Entry(ip), guesses[ip]) = Last(ip)
        BY <3>1, GuardConstants DEF Still
      <4>2. QED
        BY <1>2, <3>1, <4>1, GuardConstants DEF RunsBounded
    <3>3. /\ Cardinality(Under(ip)') \in Nat /\ Cardinality(Thread) \in Nat
          /\ Cardinality(Under(ip)') <= Cardinality(Thread)
      <4>1. Under(ip)' \in SUBSET Thread
        BY DEF Under
      <4>2. QED
        BY <4>1, FS_Subset, FS_CardinalityType
    <3>4. QED
      BY <1>2, <2>1, <2>2, <3>2, <3>3, GuardConstants
  <2>4. CASE ip # a
    <3>1. \A u \in Thread : u # t => request'[u] = request[u]
      BY <1>5 DEF Arrive, GuardInv, GuardTypeOK
    <3>2. request'[t].ip = a
      BY <1>1, <1>5 DEF Arrive, GuardInv, GuardTypeOK
    <3>3. Under(ip)' = Under(ip)
      BY <2>1, <2>4, <3>1, <3>2 DEF Under
    <3>4. QED
      BY <1>2, <2>1, <2>2, <3>3
  <2>5. QED
    BY <2>3, <2>4
<1>6. ASSUME NEW t \in Thread, Failure(t)
      PROVE  RunsBounded(Entry(ip), guesses[ip])' /\ Bounded(ip)'
  <2>1. PICK f : /\ Left(Entry(ip), f)
                 /\ \/ Entry(ip)' = f /\ guesses'[ip] = guesses[ip]
                    \/ /\ ip = request[t].ip
                       /\ Entry(ip)' = Counted(f) /\ guesses'[ip] = More(guesses[ip])
    BY <1>1, <1>6, FailureStep
  <2>2. Fits(f, guesses[ip]) /\ RunsBounded(f, guesses[ip])
    BY <1>2, <2>1, LeftFits, RunsBoundedFresh
  <2>3. RunsBounded(Entry(ip)', guesses'[ip])
    BY <1>2, <2>1, <2>2, RunsBoundedCounted
  <2>4. /\ Cardinality(Under(ip))' \in Nat
        /\ Cardinality(Under(ip))'
           = Cardinality(Under(ip)) - (IF ip = request[t].ip THEN 1 ELSE 0)
    BY <1>1, <1>6, AnsweredLeaves DEF Failure
  <2>5. \/ guesses'[ip][FailureWindow - 1] = Last(ip)
        \/ ip = request[t].ip /\ guesses'[ip][FailureWindow - 1] = Last(ip) + 1
    BY <1>2, <2>1, AgedOfLast
  <2>6. Bounded(ip)'
    BY <1>2, <2>4, <2>5, UnderIs, GuardConstants
  <2>7. QED
    BY <2>3, <2>6
<1>7. ASSUME NEW t \in Thread, Success(t)
      PROVE  RunsBounded(Entry(ip), guesses[ip])' /\ Bounded(ip)'
  <2>1. /\ Cardinality(Under(ip))' \in Nat
        /\ Cardinality(Under(ip))'
           = Cardinality(Under(ip)) - (IF ip = request[t].ip THEN 1 ELSE 0)
    BY <1>1, <1>7, AnsweredLeaves DEF Success
  <2>2. \/ Entry(ip)' = Entry(ip) /\ guesses'[ip] = guesses[ip]
        \/ guesses'[ip] = NoGuesses
    BY <1>1, <1>7, SuccessStep
  <2>3. CASE Entry(ip)' = Entry(ip) /\ guesses'[ip] = guesses[ip]
    BY <1>2, <2>1, <2>3, UnderIs, GuardConstants
  <2>4. CASE guesses'[ip] = NoGuesses
    <3>1. Entry(ip)' \in Failures
      BY <1>1 DEF GuardInv, Fits
    <3>2. RunsBounded(Entry(ip)', guesses'[ip])
      BY <2>4, <3>1, RunsBoundedForgiven
    <3>3. guesses'[ip][FailureWindow - 1] = 0
      BY <2>4, GuardConstants DEF NoGuesses, Ages
    <3>4. Bounded(ip)'
      BY <1>2, <2>1, <3>3, UnderIs, GuardConstants
    <3>5. QED
      BY <3>2, <3>4
  <2>5. QED
    BY <2>2, <2>3, <2>4
<1>8. CASE GuardTick
  <2>1. /\ Entry(ip)' = IF ip \in Tracked THEN Older(Entry(ip)) ELSE Fresh
        /\ guesses'[ip] = Aged(guesses[ip])
    BY <1>1, <1>8, TickStep
  <2>2. RunsBounded(Older(Entry(ip)), Aged(guesses[ip]))
    BY <1>2, RunsBoundedOlder
  <2>3. ip \notin Tracked => Older(Entry(ip)) = Fresh
    <3>1. SUFFICES ASSUME ip \notin Tracked
                   PROVE  Older(Fresh) = Fresh
      BY DEF Entry
    <3>2. /\ Fresh.age = FailureWindow /\ Fresh.left = 0
          /\ ~(FailureWindow < FailureWindow) /\ ~(0 > 0)
      BY GuardConstants DEF Fresh
    <3>3. PICK d : d = [Fresh EXCEPT !.age = FailureWindow]
      OBVIOUS
    <3>4. d = Fresh
      BY <3>3 DEF Fresh
    <3>5. [d EXCEPT !.left = 0] = Fresh
      BY <3>4 DEF Fresh
    <3>6. Older(Fresh) = [d EXCEPT !.left = 0]
      BY <3>2, <3>3 DEF Older
    <3>7. QED
      BY <3>5, <3>6
  <2>4. RunsBounded(Entry(ip)', guesses'[ip])
    BY <2>1, <2>2, <2>3
  <2>5. Under(ip)' = Under(ip)
    BY <1>8 DEF GuardTick, Under
  <2>6. Bounded(ip)'
    BY <1>2, <2>1, <2>5, AgedOfLast, UnderIs, GuardConstants
  <2>7. QED
    BY <2>4, <2>6
<1>9. QED
  BY <1>4, <1>5, <1>6, <1>7, <1>8 DEF GuardNext

(* With at least two failures to a block, blocks no shorter than a window  *)
(* and so many requests at once, as in admin.rs (5 failures, blocks and    *)
(* windows of 60 s): what an address that is tracked can try within a      *)
(* window is bounded by two runs of failures and the requests under way    *)
(* when a block began. One failure to a block, or a block shorter than the *)
(* window, would break the bound.                                          *)
THEOREM GuessesAreBounded ==
    ASSUME MaxFailures >= 2, BaseBlock >= FailureWindow, IsFiniteSet(Thread)
    PROVE  GuardSpec => []GuessesBounded
<1>1. BoundInv => GuessesBounded
  <2> SUFFICES ASSUME BoundInv, NEW ip \in Address
               PROVE  RecentGuesses(ip) <= 2 * MaxFailures - 3 + Cardinality(Thread)
    BY DEF GuessesBounded
  <2>1. RecentGuesses(ip) \in Nat
    BY AgedOfLast DEF RecentGuesses, BoundInv, GuardInv
  <2>2. RecentGuesses(ip) + Cardinality(Under(ip))
        <= 2 * MaxFailures - 3 + Cardinality(Thread)
    BY DEF BoundInv
  <2>3. QED
    BY <2>1, <2>2, UnderIs, GuardConstants
<1>2. QED
  BY <1>1, BoundInvInit, BoundInvNext, PTL DEF GuardSpec
=============================================================================
