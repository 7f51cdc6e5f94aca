----------------------------- MODULE ServerProofs ------------------------------
(***************************************************************************)
(* What the server admits, refuses and records, for any number of peers,   *)
(* connections, worker threads and restarts: the slots of TFTP are counted *)
(* right, captures are bounded and stand as evidence, a request is refused *)
(* only for its own token, and a server that accepts is whole.             *)
(***************************************************************************)
EXTENDS MCServer, GuardProofs

----------------------------------------------------------------------------
(* Sums over finite sets                                                   *)

(* Of the finite sets that have some property, one has no smaller such set *)
(* inside it.                                                              *)
LEMMA Smallest ==
    ASSUME NEW D, NEW B \in SUBSET FiniteSubsetsOf(D), B # {}
    PROVE  \E S \in B : \A T \in B : T \subseteq S => T = S
<1>1. PICK S \in B : \A T \in B : <<T, S>> \notin StrictSubsetOrdering(D)
  BY FS_StrictSubsetOrderingWellFounded, WFMin
<1>2. S \in SUBSET D /\ \A T \in B : T \in SUBSET D
  BY DEF FiniteSubsetsOf
<1>3. QED
  BY <1>1, <1>2 DEF StrictSubsetOrdering

(* How MapThenSumSet adds up.                                              *)
AddsUp(S, h, f) ==
    f = [s \in SUBSET S |->
           IF s = {} THEN 0
           ELSE LET x == CHOOSE x \in s : TRUE IN h[x] + f[s \ {x}]]

Pick(s) == CHOOSE x \in s : TRUE

LEMMA PickIs ==
    ASSUME NEW s, s # {}
    PROVE  Pick(s) \in s
BY DEF Pick

LEMMA AddsUpAt ==
    ASSUME NEW S, NEW h, NEW f, AddsUp(S, h, f), NEW s \in SUBSET S
    PROVE  f[s] = IF s = {} THEN 0 ELSE h[Pick(s)] + f[s \ {Pick(s)}]
BY DEF AddsUp, Pick

(* Two ways of adding up agree where both are defined.                     *)
LEMMA AddsUpAgree ==
    ASSUME NEW S, NEW T, NEW h, NEW f, NEW g, AddsUp(S, h, f), AddsUp(T, h, g),
           NEW s, IsFiniteSet(s), s \subseteq S, s \subseteq T
    PROVE  f[s] = g[s]
<1> DEFINE B == {u \in SUBSET s : f[u] # g[u]}
<1>1. SUFFICES ASSUME B # {}
               PROVE  FALSE
  <2>1. s \notin B => f[s] = g[s]
    OBVIOUS
  <2>2. QED
    BY <2>1
<1>2. B \in SUBSET FiniteSubsetsOf(s)
  <2>1. \A u \in SUBSET s : IsFiniteSet(u)
    BY FS_Subset
  <2>2. QED
    BY <2>1 DEF FiniteSubsetsOf
<1>3. PICK u \in B : \A v \in B : v \subseteq u => v = u
  <2> HIDE DEF B
  <2>1. QED
    BY <1>1, <1>2, Smallest
<1>4. u \in SUBSET S /\ u \in SUBSET T /\ u \in SUBSET s
  OBVIOUS
<1>5. CASE u = {}
  BY <1>3, <1>4, <1>5, AddsUpAt
<1>6. CASE u # {}
  <2> DEFINE v == u \ {Pick(u)}
  <2>1. v \subseteq u /\ v # u /\ v \in SUBSET s
    BY <1>4, <1>6, PickIs
  <2>2. f[v] = g[v]
    BY <1>3, <2>1
  <2>3. f[u] = h[Pick(u)] + f[v] /\ g[u] = h[Pick(u)] + g[v]
    BY <1>4, <1>6, AddsUpAt
  <2>4. QED
    BY <1>3, <2>2, <2>3
<1>7. QED
  BY <1>5, <1>6

LEMMA AddsUpExists ==
    ASSUME NEW h, NEW S, IsFiniteSet(S)
    PROVE  \E f : AddsUp(S, h, f)
<1> DEFINE B == {u \in SUBSET S : ~\E f : AddsUp(u, h, f)}
<1>1. SUFFICES ASSUME B # {}
               PROVE  FALSE
  OBVIOUS
<1>2. \A u \in SUBSET S : IsFiniteSet(u)
  BY FS_Subset
<1>3. PICK u \in B : \A v \in B : v \subseteq u => v = u
  <2>1. B \in SUBSET FiniteSubsetsOf(S)
    BY <1>2 DEF FiniteSubsetsOf
  <2> HIDE DEF B
  <2>2. QED
    BY <1>1, <2>1, Smallest
<1> DEFINE rest(v) == CHOOSE f : AddsUp(v, h, f)
           of(v) == rest(v)[v]
           sum(v) == IF v = {} THEN 0 ELSE h[Pick(v)] + of(v \ {Pick(v)})
           all == [v \in SUBSET u |-> sum(v)]
<1>4. ASSUME NEW v \in SUBSET u, v # u
      PROVE  AddsUp(v, h, rest(v))
  BY <1>3, <1>4
<1>5. ASSUME NEW v \in SUBSET u, v # u
      PROVE  all[v] = of(v)
  <2>1. of(v) = IF v = {} THEN 0 ELSE h[Pick(v)] + rest(v)[v \ {Pick(v)}]
    BY <1>4, <1>5, AddsUpAt
  <2>2. CASE v = {}
    BY <2>1, <2>2
  <2>3. CASE v # {}
    <3> DEFINE w == v \ {Pick(v)}
    <3>1. w \subseteq v /\ w # v /\ w \in SUBSET u /\ w # u
      BY <2>3, PickIs
    <3>2. AddsUp(w, h, rest(w)) /\ AddsUp(v, h, rest(v))
      BY <1>4, <1>5, <3>1
    <3>3. IsFiniteSet(w)
      BY <1>2, <3>1
    <3>4. of(w) = rest(v)[w]
      <4> HIDE DEF rest, w
      <4>1. QED
        BY <3>1, <3>2, <3>3, AddsUpAgree
    <3>5. QED
      BY <2>1, <2>3, <3>4
  <2>4. QED
    BY <2>2, <2>3
<1>6. ASSUME NEW v \in SUBSET u
      PROVE  all[v] = IF v = {} THEN 0 ELSE h[Pick(v)] + all[v \ {Pick(v)}]
  <2>1. CASE v = {}
    BY <2>1
  <2>2. CASE v # {}
    <3>1. v \ {Pick(v)} \in SUBSET u /\ v \ {Pick(v)} # u
      BY <2>2, PickIs
    <3>2. all[v \ {Pick(v)}] = of(v \ {Pick(v)})
      BY <1>5, <3>1
    <3>3. all[v] = h[Pick(v)] + of(v \ {Pick(v)})
      BY <2>2
    <3>4. QED
      BY <2>2, <3>2, <3>3
  <2>3. QED
    BY <2>1, <2>2
<1>7. AddsUp(u, h, all)
  <2>1. all = [v \in SUBSET u |-> all[v]]
    OBVIOUS
  <2> HIDE DEF all
  <2>2. QED
    BY <1>6, <2>1 DEF AddsUp, Pick
<1>8. QED
  BY <1>3, <1>7

(* What the members of S have together.                                    *)
Total(S, h) == (CHOOSE f : AddsUp(S, h, f))[S]

LEMMA TotalIs ==
    ASSUME NEW h, NEW S, IsFiniteSet(S)
    PROVE  Total(S, h) = IF S = {} THEN 0 ELSE h[Pick(S)] + Total(S \ {Pick(S)}, h)
<1> DEFINE f == CHOOSE g : AddsUp(S, h, g)
           T == S \ {Pick(S)}
           k == CHOOSE g : AddsUp(T, h, g)
<1>1. IsFiniteSet(T)
  BY FS_Subset
<1>2. AddsUp(S, h, f) /\ AddsUp(T, h, k)
  BY <1>1, AddsUpExists
<1>3. f[S] = IF S = {} THEN 0 ELSE h[Pick(S)] + f[T]
  BY <1>2, AddsUpAt
<1>4. f[T] = k[T]
  <2> HIDE DEF f, k
  <2>1. T \subseteq S
    OBVIOUS
  <2> HIDE DEF T
  <2>2. QED
    BY <1>1, <1>2, <2>1, AddsUpAgree
<1>5. Total(S, h) = f[S] /\ Total(T, h) = k[T]
  BY DEF Total
<1>6. QED
  BY <1>3, <1>4, <1>5

LEMMA TotalNat ==
    ASSUME NEW D, NEW h \in [D -> Nat], NEW S \in SUBSET D, IsFiniteSet(S)
    PROVE  Total(S, h) \in Nat
<1> DEFINE B == {u \in SUBSET S : Total(u, h) \notin Nat}
<1>1. SUFFICES ASSUME B # {}
               PROVE  FALSE
  OBVIOUS
<1>2. \A u \in SUBSET S : IsFiniteSet(u)
  BY FS_Subset
<1>3. PICK u \in B : \A v \in B : v \subseteq u => v = u
  <2>1. B \in SUBSET FiniteSubsetsOf(S)
    BY <1>2 DEF FiniteSubsetsOf
  <2> HIDE DEF B
  <2>2. QED
    BY <1>1, <2>1, Smallest
<1>4. CASE u = {}
  <2>1. Total(u, h) = 0
    BY <1>2, <1>4, TotalIs
  <2>2. QED
    BY <1>3, <2>1
<1>5. CASE u # {}
  <2>1. Pick(u) \in u
    BY <1>5, PickIs
  <2>2. Total(u \ {Pick(u)}, h) \in Nat
    BY <1>3, <2>1
  <2>3. h[Pick(u)] \in Nat
    BY <2>1
  <2>4. Total(u, h) = h[Pick(u)] + Total(u \ {Pick(u)}, h)
    BY <1>2, <1>5, TotalIs
  <2>5. QED
    BY <1>3, <2>2, <2>3, <2>4
<1>6. QED
  BY <1>4, <1>5

(* Any member may be counted first.                                        *)
LEMMA TotalSplit ==
    ASSUME NEW D, NEW h \in [D -> Nat], NEW S \in SUBSET D, IsFiniteSet(S), NEW x \in S
    PROVE  Total(S, h) = h[x] + Total(S \ {x}, h)
<1> DEFINE Splits(u) == \A y \in u : Total(u, h) = h[y] + Total(u \ {y}, h)
           B == {u \in SUBSET S : ~Splits(u)}
<1>1. SUFFICES ASSUME B # {}
               PROVE  FALSE
  OBVIOUS
<1>2. \A u \in SUBSET S : IsFiniteSet(u)
  BY FS_Subset
<1>3. PICK u \in B : \A v \in B : v \subseteq u => v = u
  <2>1. B \in SUBSET FiniteSubsetsOf(S)
    BY <1>2 DEF FiniteSubsetsOf
  <2> HIDE DEF B
  <2>2. QED
    BY <1>1, <2>1, Smallest
<1>4. PICK y \in u : Total(u, h) # h[y] + Total(u \ {y}, h)
  BY <1>3
<1> DEFINE c == Pick(u)
<1>5. c \in u /\ Total(u, h) = h[c] + Total(u \ {c}, h)
  BY <1>2, <1>4, PickIs, TotalIs
<1>6. y # c
  BY <1>4, <1>5
<1>7. Splits(u \ {c}) /\ Splits(u \ {y})
  BY <1>3, <1>4, <1>5
<1> HIDE DEF c
<1>8. Total(u \ {c}, h) = h[y] + Total((u \ {c}) \ {y}, h)
  BY <1>4, <1>6, <1>7
<1>9. Total(u \ {y}, h) = h[c] + Total((u \ {y}) \ {c}, h)
  BY <1>5, <1>6, <1>7
<1>10. (u \ {c}) \ {y} = (u \ {y}) \ {c}
  OBVIOUS
<1>11. h[y] \in Nat /\ h[c] \in Nat /\ Total((u \ {c}) \ {y}, h) \in Nat
  <2>1. (u \ {c}) \ {y} \in SUBSET D /\ IsFiniteSet((u \ {c}) \ {y})
    BY <1>2
  <2>2. QED
    BY <1>4, <1>5, <2>1, TotalNat
<1>12. QED
  BY <1>4, <1>5, <1>8, <1>9, <1>10, <1>11

(* What is counted elsewhere does not matter.                              *)
LEMMA TotalSame ==
    ASSUME NEW h, NEW k, NEW S, IsFiniteSet(S), \A x \in S : h[x] = k[x]
    PROVE  Total(S, h) = Total(S, k)
<1> DEFINE B == {u \in SUBSET S : Total(u, h) # Total(u, k)}
<1>1. SUFFICES ASSUME B # {}
               PROVE  FALSE
  <2>1. S \notin B => Total(S, h) = Total(S, k)
    OBVIOUS
  <2>2. QED
    BY <2>1
<1>2. \A u \in SUBSET S : IsFiniteSet(u)
  BY FS_Subset
<1>3. PICK u \in B : \A v \in B : v \subseteq u => v = u
  <2>1. B \in SUBSET FiniteSubsetsOf(S)
    BY <1>2 DEF FiniteSubsetsOf
  <2> HIDE DEF B
  <2>2. QED
    BY <1>1, <2>1, Smallest
<1>4. CASE u = {}
  BY <1>2, <1>3, <1>4, TotalIs
<1>5. CASE u # {}
  <2>1. Pick(u) \in u
    BY <1>5, PickIs
  <2>2. Total(u \ {Pick(u)}, h) = Total(u \ {Pick(u)}, k)
    BY <1>3, <2>1
  <2>3. h[Pick(u)] = k[Pick(u)]
    BY <2>1
  <2>4. /\ Total(u, h) = h[Pick(u)] + Total(u \ {Pick(u)}, h)
        /\ Total(u, k) = k[Pick(u)] + Total(u \ {Pick(u)}, k)
    BY <1>2, <1>5, TotalIs
  <2>5. QED
    BY <1>3, <2>2, <2>3, <2>4
<1>6. QED
  BY <1>4, <1>5

LEMMA TotalChange ==
    ASSUME NEW D, NEW h \in [D -> Nat], NEW S \in SUBSET D, IsFiniteSet(S),
           NEW x \in S, NEW n \in Nat
    PROVE  Total(S, [h EXCEPT ![x] = n]) = Total(S, h) + n - h[x]
<1> DEFINE k == [h EXCEPT ![x] = n]
<1>1. k \in [D -> Nat] /\ k[x] = n /\ \A y \in S \ {x} : h[y] = k[y]
  OBVIOUS
<1>2. IsFiniteSet(S \ {x}) /\ S \ {x} \in SUBSET D
  BY FS_Subset
<1> HIDE DEF k
<1>3. /\ Total(S, h) = h[x] + Total(S \ {x}, h)
      /\ Total(S, k) = n + Total(S \ {x}, k)
  BY <1>1, TotalSplit
<1>4. Total(S \ {x}, h) = Total(S \ {x}, k)
  BY <1>1, <1>2, TotalSame
<1>5. Total(S \ {x}, h) \in Nat /\ h[x] \in Nat
  BY <1>2, TotalNat
<1>6. Total(S, k) = Total(S, h) + n - h[x]
  BY <1>3, <1>4, <1>5
<1>7. QED
  BY <1>6 DEF k

----------------------------------------------------------------------------
(* Admission to TFTP                                                       *)

LEMMA TasksAreTotal ==
    ASSUME NEW Ps, NEW Ks, NEW Ss, IsFiniteSet(Ps \X Ks \X Ss)
    PROVE  Tasks(Ps, Ks, Ss) = Total(Ps \X Ks \X Ss, tasks)
<1> DEFINE S == Ps \X Ks \X Ss
           f == CHOOSE g : g = [s \in SUBSET S |->
                   IF s = {} THEN 0
                   ELSE tasks[CHOOSE x \in s : TRUE] + g[s \ {CHOOSE x \in s : TRUE}]]
           k == CHOOSE g : AddsUp(S, tasks, g)
<1>1. Tasks(Ps, Ks, Ss) = f[S]
  BY DEF Tasks, MapThenSumSet, MapThenFoldSet
<1>2. PICK g : AddsUp(S, tasks, g)
  BY AddsUpExists
<1>3. AddsUp(S, tasks, f)
  BY <1>2 DEF AddsUp
<1>4. AddsUp(S, tasks, k)
  BY <1>2
<1>5. f[S] = k[S]
  <2> HIDE DEF f, k, S
  <2>1. IsFiniteSet(S)
    BY DEF S
  <2>2. QED
    BY <1>3, <1>4, <2>1, AddsUpAgree
<1>6. QED
  BY <1>1, <1>5 DEF Total

AllTasks == Peer \X Kinds \X Steps

(* The slots of a peer, on every way a task goes.                          *)
Held(p) == tasks[<<p, "read", "spawned">>] + tasks[<<p, "read", "transfer">>]
           + tasks[<<p, "read", "ended">>]

ServeInv ==
    /\ tasks \in [AllTasks -> Nat]
    /\ Total(AllTasks, tasks) <= MaxTransfers
    /\ DOMAIN perPeer \subseteq Peer
    /\ perPeer \in [DOMAIN perPeer -> Nat \ {0}]
    /\ \A p \in Peer : Count(p) = Held(p) /\ Count(p) <= MaxPerPeer

LEMMA KindsAndSteps ==
    /\ IsFiniteSet(Kinds) /\ IsFiniteSet(Steps)
    /\ IsFiniteSet({"spawned", "transfer", "ended"}) /\ IsFiniteSet({"read"})
<1>1. \A x : IsFiniteSet({x})
  BY FS_Singleton
<1>2. Kinds = {"read"} \cup {"other"}
  BY DEF Kinds
<1>3. {"spawned", "transfer", "ended"} = ({"spawned"} \cup {"transfer"}) \cup {"ended"}
  OBVIOUS
<1>4. Steps = {"spawned", "transfer", "ended"} \cup {"released"}
  BY DEF Steps
<1>5. IsFiniteSet(Kinds)
  BY <1>1, <1>2, FS_AddElement
<1>6. IsFiniteSet({"spawned"} \cup {"transfer"})
  BY <1>1, FS_AddElement
<1>7. IsFiniteSet({"spawned", "transfer", "ended"})
  BY <1>3, <1>6, FS_AddElement
<1>8. IsFiniteSet(Steps)
  BY <1>4, <1>7, FS_AddElement
<1>9. QED
  BY <1>1, <1>5, <1>7, <1>8

LEMMA ProductFinite ==
    ASSUME NEW A, NEW B, NEW C, IsFiniteSet(A), IsFiniteSet(B), IsFiniteSet(C)
    PROVE  IsFiniteSet(A \X B \X C)
<1>1. IsFiniteSet(B \X C) /\ IsFiniteSet(A \X (B \X C))
  BY FS_Product
<1> DEFINE S == A \X (B \X C)
           T == A \X B \X C
           f == [s \in S |-> <<s[1], s[2][1], s[2][2]>>]
<1>2. f \in Surjection(S, T)
  <2>1. \A s \in S : s[1] \in A /\ s[2][1] \in B /\ s[2][2] \in C
    OBVIOUS
  <2>2. f \in [S -> T]
    BY <2>1
  <2>3. ASSUME NEW t \in T
        PROVE  \E s \in S : f[s] = t
    <3>1. t[1] \in A /\ t[2] \in B /\ t[3] \in C /\ t = <<t[1], t[2], t[3]>>
      OBVIOUS
    <3>2. <<t[1], <<t[2], t[3]>>>> \in S
      BY <3>1
    <3>3. f[<<t[1], <<t[2], t[3]>>>>] = t
      BY <3>1, <3>2
    <3>4. QED
      BY <3>2, <3>3
  <2> HIDE DEF f, S, T
  <2>4. QED
    BY <2>2, <2>3 DEF Surjection
<1>3. QED
  <2> HIDE DEF S, T, f
  <2>1. IsFiniteSet(S)
    BY <1>1 DEF S
  <2>2. IsFiniteSet(T)
    BY <1>2, <2>1, FS_Surjection
  <2>3. QED
    BY <2>2 DEF T

LEMMA AllTasksFinite ==
    ASSUME IsFiniteSet(Peer)
    PROVE  /\ IsFiniteSet(AllTasks)
           /\ Permits = MaxTransfers - Total(AllTasks, tasks)
BY KindsAndSteps, ProductFinite, TasksAreTotal DEF AllTasks, Permits

LEMMA TaskIsOne ==
    ASSUME NEW p \in Peer, NEW k \in Kinds, NEW s \in Steps
    PROVE  <<p, k, s>> \in AllTasks
BY DEF AllTasks

LEMMA MovesIs ==
    ASSUME ServeInv, IsFiniteSet(Peer), NEW p \in Peer, NEW k \in Kinds,
           NEW from \in Steps, NEW to \in Steps, from # to, Moves(p, k, from, to)
    PROVE  /\ tasks' \in [AllTasks -> Nat]
           /\ Total(AllTasks, tasks') = Total(AllTasks, tasks)
           /\ \A t \in AllTasks :
                 tasks'[t] = IF t = <<p, k, from>> THEN tasks[t] - 1
                             ELSE IF t = <<p, k, to>> THEN tasks[t] + 1 ELSE tasks[t]
<1> DEFINE a == <<p, k, from>>
           b == <<p, k, to>>
<1>1. a \in AllTasks /\ b \in AllTasks /\ a # b
  BY TaskIsOne
<1>2. tasks \in [AllTasks -> Nat] /\ tasks[a] \in Nat /\ tasks[a] > 0 /\ tasks[b] \in Nat
  BY <1>1 DEF ServeInv, Moves
<1>3. tasks' = [tasks EXCEPT ![a] = @ - 1, ![b] = @ + 1]
  BY DEF Moves
<1> HIDE DEF a, b
<1>4. PICK one : one = [tasks EXCEPT ![a] = tasks[a] - 1]
  OBVIOUS
<1>0. IsFiniteSet(AllTasks) /\ AllTasks \in SUBSET AllTasks
  BY AllTasksFinite
<1>5. one \in [AllTasks -> Nat] /\ one[b] = tasks[b] /\ one[a] = tasks[a] - 1
  BY <1>1, <1>2, <1>4
<1>6. tasks' = [one EXCEPT ![b] = tasks[b] + 1]
  BY <1>1, <1>2, <1>3, <1>4
<1>7. Total(AllTasks, one) = Total(AllTasks, tasks) + (tasks[a] - 1) - tasks[a]
  <2>1. PICK n \in Nat : n = tasks[a] - 1
    BY <1>2
  <2>2. PICK h \in [AllTasks -> Nat] : h = tasks
    BY <1>2
  <2>3. Total(AllTasks, [h EXCEPT ![a] = n]) = Total(AllTasks, h) + n - h[a]
    BY <1>0, <1>1, TotalChange
  <2>4. QED
    BY <1>4, <2>1, <2>2, <2>3
<1>8. Total(AllTasks, tasks') = Total(AllTasks, one) + (tasks[b] + 1) - one[b]
  <2>1. PICK n \in Nat : n = tasks[b] + 1
    BY <1>2
  <2>2. Total(AllTasks, [one EXCEPT ![b] = n]) = Total(AllTasks, one) + n - one[b]
    BY <1>0, <1>1, <1>5, TotalChange
  <2>3. QED
    BY <1>6, <2>1, <2>2
<1>9. Total(AllTasks, tasks) \in Nat
  BY <1>2, AllTasksFinite, TotalNat
<1>10. Total(AllTasks, tasks') = Total(AllTasks, tasks)
  BY <1>2, <1>5, <1>7, <1>8, <1>9
<1>11. tasks' \in [AllTasks -> Nat]
  BY <1>1, <1>2, <1>5, <1>6
<1>12. \A t \in AllTasks :
          tasks'[t] = IF t = a THEN tasks[t] - 1 ELSE IF t = b THEN tasks[t] + 1 ELSE tasks[t]
  BY <1>1, <1>2, <1>4, <1>5, <1>6
<1>13. QED
  BY <1>10, <1>11, <1>12 DEF a, b

(* Slots follow their tasks: only the one that gives its slot back counts. *)
LEMMA HeldMoves ==
    ASSUME ServeInv, IsFiniteSet(Peer), NEW p \in Peer, NEW k \in Kinds,
           NEW from \in Steps, NEW to \in Steps, Moves(p, k, from, to),
           <<from, to>> \in {<<"spawned", "transfer">>, <<"spawned", "ended">>,
                             <<"transfer", "ended">>, <<"ended", "released">>},
           NEW q \in Peer
    PROVE  Held(q)' = IF q = p /\ k = "read" /\ to = "released"
                      THEN Held(q) - 1 ELSE Held(q)
<1>1. from # to
  OBVIOUS
<1> DEFINE x == <<q, "read", "spawned">>
           y == <<q, "read", "transfer">>
           z == <<q, "read", "ended">>
<1>2. "read" \in Kinds /\ {"spawned", "transfer", "ended"} \subseteq Steps
  BY DEF Kinds, Steps
<1>3. x \in AllTasks /\ y \in AllTasks /\ z \in AllTasks
  BY <1>2, TaskIsOne
<1>4. tasks[x] \in Nat /\ tasks[y] \in Nat /\ tasks[z] \in Nat
  BY <1>3 DEF ServeInv
<1> DEFINE its == q = p /\ k = "read"
           moved(t, s) == IF its /\ from = s THEN tasks[t] - 1
                          ELSE IF its /\ to = s THEN tasks[t] + 1 ELSE tasks[t]
<1>5. \A t \in AllTasks :
         tasks'[t] = IF t = <<p, k, from>> THEN tasks[t] - 1
                     ELSE IF t = <<p, k, to>> THEN tasks[t] + 1 ELSE tasks[t]
  BY <1>1, MovesIs
<1>6. \A s : (<<q, "read", s>> = <<p, k, from>> <=> its /\ from = s)
          /\ (<<q, "read", s>> = <<p, k, to>> <=> its /\ to = s)
  OBVIOUS
<1>7. /\ tasks'[x] = moved(x, "spawned")
      /\ tasks'[y] = moved(y, "transfer")
      /\ tasks'[z] = moved(z, "ended")
  BY <1>3, <1>5, <1>6
<1>8. Held(q)' = tasks'[x] + tasks'[y] + tasks'[z] /\ Held(q) = tasks[x] + tasks[y] + tasks[z]
  BY DEF Held
<1> HIDE DEF x, y, z, its
<1>9. /\ its => Held(q)' = IF to = "released" THEN Held(q) - 1 ELSE Held(q)
      /\ ~its => Held(q)' = Held(q)
  BY <1>4, <1>7, <1>8
<1>10. QED
  BY <1>9 DEF its

LEMMA ServeInvInit ==
    ASSUME IsFiniteSet(Peer)
    PROVE  ServeInit => ServeInv
<1> SUFFICES ASSUME ServeInit
             PROVE  ServeInv
  OBVIOUS
<1> USE ServeConstants
<1>1. tasks = [t \in AllTasks |-> 0] /\ perPeer = [p \in {} |-> 0]
  BY DEF ServeInit, AllTasks
<1>2. Total(AllTasks, tasks) = 0
  <2> DEFINE B == {S \in SUBSET AllTasks : Total(S, tasks) # 0}
  <2>1. SUFFICES ASSUME B # {}
                 PROVE  FALSE
    OBVIOUS
  <2>2. \A S \in SUBSET AllTasks : IsFiniteSet(S)
    BY AllTasksFinite, FS_Subset
  <2>3. PICK S \in B : \A T \in B : T \subseteq S => T = S
    <3>1. B \in SUBSET FiniteSubsetsOf(AllTasks)
      BY <2>2 DEF FiniteSubsetsOf
    <3> HIDE DEF B
    <3>2. QED
      BY <2>1, <3>1, Smallest
  <2>4. CASE S = {}
    <3>1. Total(S, tasks) = 0
      BY <2>2, <2>4, TotalIs
    <3>2. QED
      BY <2>3, <3>1
  <2>5. CASE S # {}
    <3>1. Pick(S) \in S
      BY <2>5, PickIs
    <3>2. tasks[Pick(S)] = 0 /\ Total(S \ {Pick(S)}, tasks) = 0
      BY <1>1, <2>3, <3>1
    <3>3. Total(S, tasks) = tasks[Pick(S)] + Total(S \ {Pick(S)}, tasks)
      BY <2>2, <2>5, TotalIs
    <3>4. QED
      BY <2>3, <3>2, <3>3
  <2>6. QED
    BY <2>4, <2>5
<1>3. ASSUME NEW p \in Peer
      PROVE  Count(p) = Held(p) /\ Count(p) <= MaxPerPeer
  <2>1. "read" \in Kinds /\ {"spawned", "transfer", "ended"} \subseteq Steps
    BY DEF Kinds, Steps
  <2>2. \A s \in {"spawned", "transfer", "ended"} : tasks[<<p, "read", s>>] = 0
    BY <1>1, <2>1, TaskIsOne
  <2>3. Held(p) = 0
    BY <2>2 DEF Held
  <2>4. QED
    BY <1>1, <2>3 DEF Count
<1>4. QED
  BY <1>1, <1>2, <1>3 DEF ServeInv

LEMMA AdmitIs ==
    ASSUME ServeInv, IsFiniteSet(Peer), NEW p \in Peer, NEW k \in Kinds, Admit(p, k)
    PROVE  /\ tasks' \in [AllTasks -> Nat]
           /\ Total(AllTasks, tasks') <= MaxTransfers
           /\ \A q \in Peer : Held(q)' = IF q = p /\ k = "read" THEN Held(q) + 1 ELSE Held(q)
<1> DEFINE a == <<p, k, "spawned">>
<1>1. a \in AllTasks /\ IsFiniteSet(AllTasks) /\ AllTasks \in SUBSET AllTasks
  BY TaskIsOne, AllTasksFinite DEF Steps
<1>2. tasks \in [AllTasks -> Nat] /\ tasks[a] \in Nat
  BY <1>1 DEF ServeInv
<1>3. PICK n \in Nat : n = tasks[a] + 1
  BY <1>2
<1>4. tasks' = [tasks EXCEPT ![a] = n]
  BY <1>3 DEF Admit
<1>5. Total(AllTasks, tasks) \in Nat /\ Total(AllTasks, tasks) < MaxTransfers
  <2>1. Total(AllTasks, tasks) \in Nat
    BY <1>1, <1>2, TotalNat
  <2>2. MaxTransfers - Total(AllTasks, tasks) > 0
    BY AllTasksFinite DEF Admit
  <2>3. QED
    BY <2>1, <2>2, ServeConstants
<1>6. Total(AllTasks, tasks') = Total(AllTasks, tasks) + n - tasks[a]
  <2> HIDE DEF a
  <2>1. QED
    BY <1>1, <1>2, <1>4, TotalChange
<1>7. Total(AllTasks, tasks') <= MaxTransfers
  BY <1>2, <1>3, <1>5, <1>6, ServeConstants
<1>8. ASSUME NEW q \in Peer
      PROVE  Held(q)' = IF q = p /\ k = "read" THEN Held(q) + 1 ELSE Held(q)
  <2> DEFINE x == <<q, "read", "spawned">>
             y == <<q, "read", "transfer">>
             z == <<q, "read", "ended">>
  <2>1. x \in AllTasks /\ y \in AllTasks /\ z \in AllTasks
    BY TaskIsOne DEF Kinds, Steps
  <2>2. tasks[x] \in Nat /\ tasks[y] \in Nat /\ tasks[z] \in Nat
    BY <1>2, <2>1
  <2>3. x = a <=> q = p /\ k = "read"
    OBVIOUS
  <2>4. y # a /\ z # a
    OBVIOUS
  <2>5. Held(q)' = tasks'[x] + tasks'[y] + tasks'[z] /\ Held(q) = tasks[x] + tasks[y] + tasks[z]
    BY DEF Held
  <2>6. tasks'[y] = tasks[y] /\ tasks'[z] = tasks[z]
    BY <1>2, <1>4, <2>1, <2>4
  <2>7. tasks'[x] = IF q = p /\ k = "read" THEN tasks[x] + 1 ELSE tasks[x]
    BY <1>1, <1>2, <1>3, <1>4, <2>1, <2>3
  <2> HIDE DEF x, y, z
  <2>8. QED
    BY <2>2, <2>5, <2>6, <2>7
<1>9. tasks' \in [AllTasks -> Nat]
  BY <1>1, <1>2, <1>4
<1>10. QED
  BY <1>7, <1>8, <1>9

LEMMA HeldNat ==
    ASSUME ServeInv, NEW p \in Peer
    PROVE  Held(p) \in Nat
<1>1. \A s \in Steps : tasks[<<p, "read", s>>] \in Nat
  BY TaskIsOne DEF ServeInv, Kinds
<1>2. QED
  BY <1>1 DEF Held, Steps

LEMMA ServeInvNext ==
    ASSUME IsFiniteSet(Peer)
    PROVE  ServeInv /\ [ServeNext]_serveVars => ServeInv'
<1> SUFFICES ASSUME ServeInv, [ServeNext]_serveVars
             PROVE  ServeInv'
  OBVIOUS
<1> USE ServeConstants
<1>1. \A q \in DOMAIN perPeer : perPeer[q] \in Nat \ {0} /\ q \in Peer
  BY DEF ServeInv
<1>2. \A q \in Peer : Count(q) \in Nat /\ Count(q) = Held(q) /\ Count(q) <= MaxPerPeer
  BY HeldNat DEF ServeInv
<1>3. CASE UNCHANGED serveVars
  BY <1>3 DEF serveVars, ServeInv, Count, Held
<1>4. ASSUME NEW p \in Peer, NEW k \in Kinds, Admit(p, k)
      PROVE  ServeInv'
  <2>1. CASE k = "read"
    <3>1. /\ Count(p) < MaxPerPeer
          /\ perPeer' = [q \in DOMAIN perPeer \cup {p} |->
                           IF q = p THEN Count(p) + 1 ELSE perPeer[q]]
      BY <1>4, <2>1 DEF Admit
    <3>2. perPeer' \in [DOMAIN perPeer' -> Nat \ {0}] /\ DOMAIN perPeer' \subseteq Peer
      BY <1>1, <1>2, <3>1
    <3>3. \A q \in Peer : Count(q)' = IF q = p THEN Count(p) + 1 ELSE Count(q)
      BY <3>1 DEF Count
    <3>4. \A q \in Peer : Count(q)' = Held(q)' /\ Count(q)' <= MaxPerPeer
      BY <1>2, <1>4, <2>1, <3>1, <3>3, AdmitIs
    <3>5. QED
      BY <1>4, <3>2, <3>4, AdmitIs DEF ServeInv
  <2>2. CASE k # "read"
    <3>1. perPeer' = perPeer
      BY <1>4, <2>2 DEF Admit
    <3>2. \A q \in Peer : Count(q)' = Count(q)
      BY <3>1 DEF Count
    <3>3. \A q \in Peer : Count(q)' = Held(q)' /\ Count(q)' <= MaxPerPeer
      BY <1>2, <1>4, <2>2, <3>2, AdmitIs
    <3>4. QED
      BY <1>4, <3>1, <3>3, AdmitIs DEF ServeInv
  <2>3. QED
    BY <2>1, <2>2
<1>5. ASSUME NEW p \in Peer, NEW k \in Kinds, NEW from \in Steps, NEW to \in Steps,
             Moves(p, k, from, to), UNCHANGED perPeer,
             <<from, to>> \in {<<"spawned", "transfer">>, <<"spawned", "ended">>,
                               <<"transfer", "ended">>}
      PROVE  ServeInv'
  <2>1. from # to /\ to # "released"
    BY <1>5
  <2>2. \A q \in Peer : Held(q)' = Held(q)
    BY <1>5, <2>1, HeldMoves
  <2>3. \A q \in Peer : Count(q)' = Count(q)
    BY <1>5 DEF Count
  <2>4. /\ tasks' \in [AllTasks -> Nat]
        /\ Total(AllTasks, tasks') = Total(AllTasks, tasks)
    BY <1>5, <2>1, MovesIs
  <2>5. QED
    BY <1>5, <2>2, <2>3, <2>4 DEF ServeInv
<1>6. ASSUME NEW p \in Peer, NEW k \in Kinds, TakePort(p, k) \/ TransferEnds(p, k)
      PROVE  ServeInv'
  <2>1. PICK from \in Steps, to \in Steps :
           /\ Moves(p, k, from, to) /\ UNCHANGED perPeer
           /\ <<from, to>> \in {<<"spawned", "transfer">>, <<"spawned", "ended">>,
                                <<"transfer", "ended">>}
    BY <1>6 DEF TakePort, TransferEnds, Steps
  <2>2. QED
    BY <1>5, <2>1
<1>7. ASSUME NEW p \in Peer, NEW k \in Kinds, ReleaseSlot(p, k)
      PROVE  ServeInv'
  <2>1. /\ "ended" \in Steps /\ "released" \in Steps
        /\ Moves(p, k, "ended", "released")
    BY <1>7 DEF ReleaseSlot, Steps
  <2>2. /\ tasks' \in [AllTasks -> Nat]
        /\ Total(AllTasks, tasks') = Total(AllTasks, tasks)
    BY <2>1, MovesIs
  <2>3. \A q \in Peer : Held(q)' = IF q = p /\ k = "read" THEN Held(q) - 1 ELSE Held(q)
    BY <2>1, HeldMoves
  <2>4. CASE k # "read"
    <3>1. perPeer' = perPeer
      BY <1>7, <2>4 DEF ReleaseSlot
    <3>2. \A q \in Peer : Count(q)' = Count(q) /\ Held(q)' = Held(q)
      BY <2>3, <2>4, <3>1 DEF Count
    <3>3. QED
      BY <2>2, <3>1, <3>2 DEF ServeInv
  <2>5. CASE k = "read"
    <3>1. Held(p) > 0
      <4>1. \A s \in Steps : tasks[<<p, "read", s>>] \in Nat
        BY TaskIsOne DEF ServeInv, Kinds
      <4>2. tasks[<<p, "read", "ended">>] > 0
        BY <2>1, <2>5 DEF Moves
      <4>3. QED
        BY <4>1, <4>2 DEF Held, Steps
    <3>2. p \in DOMAIN perPeer /\ Count(p) = perPeer[p]
      BY <1>2, <3>1 DEF Count
    <3>3. CASE perPeer[p] <= 1
      <4>1. perPeer' = [q \in DOMAIN perPeer \ {p} |-> perPeer[q]]
        BY <1>7, <2>5, <3>2, <3>3 DEF ReleaseSlot, Restrict
      <4>2. perPeer' \in [DOMAIN perPeer' -> Nat \ {0}] /\ DOMAIN perPeer' \subseteq Peer
        BY <1>1, <4>1
      <4>3. \A q \in Peer : Count(q)' = IF q = p THEN 0 ELSE Count(q)
        BY <4>1 DEF Count
      <4>4. perPeer[p] = 1
        BY <1>1, <3>2, <3>3
      <4>5. \A q \in Peer : Count(q)' = Held(q)' /\ Count(q)' <= MaxPerPeer
        BY <1>2, <2>3, <2>5, <3>2, <4>3, <4>4
      <4>6. QED
        BY <2>2, <4>2, <4>5 DEF ServeInv
    <3>4. CASE ~(perPeer[p] <= 1)
      <4>1. perPeer' = [perPeer EXCEPT ![p] = perPeer[p] - 1]
        BY <1>7, <2>5, <3>2, <3>4 DEF ReleaseSlot
      <4>2. DOMAIN perPeer' = DOMAIN perPeer
        BY <4>1 DEF ServeInv
      <4>3. perPeer' \in [DOMAIN perPeer' -> Nat \ {0}] /\ DOMAIN perPeer' \subseteq Peer
        BY <1>1, <3>2, <3>4, <4>1, <4>2 DEF ServeInv
      <4>4. \A q \in Peer : Count(q)' = IF q = p THEN Count(q) - 1 ELSE Count(q)
        BY <3>2, <4>1, <4>2 DEF Count, ServeInv
      <4>5. \A q \in Peer : Count(q)' = Held(q)' /\ Count(q)' <= MaxPerPeer
        BY <1>2, <2>3, <2>5, <4>4
      <4>6. QED
        BY <2>2, <4>3, <4>5 DEF ServeInv
    <3>5. QED
      BY <3>3, <3>4
  <2>6. QED
    BY <2>4, <2>5
<1>8. ASSUME NEW p \in Peer, NEW k \in Kinds, ReleasePermit(p, k)
      PROVE  ServeInv'
  <2> DEFINE a == <<p, k, "released">>
  <2>1. a \in AllTasks /\ IsFiniteSet(AllTasks) /\ AllTasks \in SUBSET AllTasks
    BY TaskIsOne, AllTasksFinite DEF Steps
  <2>2. tasks \in [AllTasks -> Nat] /\ tasks[a] \in Nat /\ tasks[a] > 0
    BY <1>8, <2>1 DEF ServeInv, ReleasePermit
  <2>3. PICK n \in Nat : n = tasks[a] - 1
    BY <2>2
  <2>4. tasks' = [tasks EXCEPT ![a] = n] /\ perPeer' = perPeer
    BY <1>8, <2>3 DEF ReleasePermit
  <2>5. Total(AllTasks, tasks') = Total(AllTasks, tasks) + n - tasks[a]
    <3> HIDE DEF a
    <3>1. QED
      BY ZenonT(60), <2>1, <2>2, <2>4, TotalChange
  <2>6. Total(AllTasks, tasks) \in Nat /\ Total(AllTasks, tasks) <= MaxTransfers
    BY <2>1, <2>2, TotalNat DEF ServeInv
  <2>7. Total(AllTasks, tasks') <= MaxTransfers
    BY <2>2, <2>3, <2>5, <2>6
  <2>8. ASSUME NEW q \in Peer
        PROVE  Held(q)' = Held(q) /\ Count(q)' = Count(q)
    <3>1. \A s \in {"spawned", "transfer", "ended"} :
             tasks'[<<q, "read", s>>] = tasks[<<q, "read", s>>]
      <4>1. ASSUME NEW s \in {"spawned", "transfer", "ended"}
            PROVE  tasks'[<<q, "read", s>>] = tasks[<<q, "read", s>>]
        <5>1. <<q, "read", s>> \in AllTasks
          BY TaskIsOne DEF Kinds, Steps
        <5>2. <<q, "read", s>> # a
          OBVIOUS
        <5>3. QED
          BY <2>2, <2>4, <5>1, <5>2
      <4>2. QED
        BY <4>1
    <3>2. QED
      BY <2>4, <3>1 DEF Held, Count
  <2>9. tasks' \in [AllTasks -> Nat]
    BY <2>1, <2>2, <2>4
  <2>10. QED
    BY <2>4, <2>7, <2>8, <2>9 DEF ServeInv
<1>9. QED
  BY <1>3, <1>4, <1>6, <1>7, <1>8 DEF ServeNext, Progress

LEMMA SlotsCounted ==
    ASSUME ServeInv, IsFiniteSet(Peer)
    PROVE  ServeTypeOK /\ SlotsAreCounted
<1> USE ServeConstants
<1>1. Total(AllTasks, tasks) \in Nat /\ IsFiniteSet(AllTasks) /\ AllTasks \in SUBSET AllTasks
  BY AllTasksFinite, TotalNat DEF ServeInv
<1>2. ServeTypeOK
  <2>1. Permits >= 0
    BY <1>1, AllTasksFinite DEF ServeInv
  <2>2. ASSUME NEW t \in AllTasks
        PROVE  tasks[t] \in 0..MaxTransfers
    <3>1. PICK h \in [AllTasks -> Nat] : h = tasks
      BY DEF ServeInv
    <3>2. Total(AllTasks, h) = h[t] + Total(AllTasks \ {t}, h)
      BY <1>1, TotalSplit
    <3>3. IsFiniteSet(AllTasks \ {t}) /\ AllTasks \ {t} \in SUBSET AllTasks
      BY <1>1, FS_Subset
    <3>4. Total(AllTasks \ {t}, h) \in Nat
      BY <3>3, TotalNat
    <3>5. QED
      BY <1>1, <3>1, <3>2, <3>4 DEF ServeInv
  <2>3. tasks \in [AllTasks -> 0..MaxTransfers]
    BY <2>2 DEF ServeInv
  <2>4. QED
    BY <2>1, <2>3 DEF ServeTypeOK, ServeInv, AllTasks
<1>3. ASSUME NEW p \in Peer
      PROVE  Tasks({p}, {"read"}, {"spawned", "transfer", "ended"}) = Held(p)
  <2> DEFINE S == {p} \X {"read"} \X {"spawned", "transfer", "ended"}
             x == <<p, "read", "spawned">>
             y == <<p, "read", "transfer">>
             z == <<p, "read", "ended">>
  <2>1. IsFiniteSet(S)
    <3>1. IsFiniteSet({p})
      BY FS_Singleton
    <3>2. QED
      BY <3>1, KindsAndSteps, ProductFinite
  <2>2. Tasks({p}, {"read"}, {"spawned", "transfer", "ended"}) = Total(S, tasks)
    BY <2>1, TasksAreTotal
  <2>3. S = {x, y, z} /\ x # y /\ x # z /\ y # z
    OBVIOUS
  <2>4. x \in AllTasks /\ y \in AllTasks /\ z \in AllTasks
    BY TaskIsOne DEF Kinds, Steps
  <2>5. PICK h \in [AllTasks -> Nat] : h = tasks
    BY DEF ServeInv
  <2>6. Held(p) = h[x] + h[y] + h[z]
    BY <2>5 DEF Held
  <2> HIDE DEF x, y, z, S
  <2>7. S \ {x} = {y, z} /\ {y, z} \ {y} = {z} /\ {z} \ {z} = {}
    BY <2>3
  <2>8. IsFiniteSet({y, z}) /\ IsFiniteSet({z}) /\ IsFiniteSet({})
    <3>1. {y, z} \in SUBSET S /\ {z} \in SUBSET S /\ {} \in SUBSET S
      BY <2>3
    <3>2. QED
      BY <2>1, <3>1, FS_Subset
  <2>9. /\ S \in SUBSET AllTasks /\ {y, z} \in SUBSET AllTasks /\ {z} \in SUBSET AllTasks
        /\ x \in S /\ y \in {y, z} /\ z \in {z}
    BY <2>3, <2>4
  <2>10. Total(S, h) = h[x] + Total(S \ {x}, h)
    BY <2>1, <2>9, TotalSplit
  <2>11. Total({y, z}, h) = h[y] + Total({y, z} \ {y}, h)
    BY <2>8, <2>9, TotalSplit
  <2>12. Total({z}, h) = h[z] + Total({z} \ {z}, h)
    BY <2>8, <2>9, TotalSplit
  <2>13. Total({}, h) = 0
    BY <2>8, TotalIs
  <2>14. h[x] \in Nat /\ h[y] \in Nat /\ h[z] \in Nat
    BY <2>4
  <2>15. Total({z}, h) = h[z]
    BY <2>7, <2>12, <2>13, <2>14
  <2>16. Total({y, z}, h) = h[y] + h[z]
    BY <2>7, <2>11, <2>15
  <2>17. Total(S, h) = h[x] + (h[y] + h[z])
    BY <2>7, <2>10, <2>16
  <2>18. Total(S, h) = Held(p)
    BY <2>6, <2>14, <2>17
  <2>19. QED
    BY <2>2, <2>5, <2>18
<1>4. ASSUME NEW p \in Peer
      PROVE  /\ Count(p) = Held(p) /\ Held(p) <= MaxPerPeer
             /\ p \in DOMAIN perPeer <=> Held(p) > 0
  <2>1. Count(p) = Held(p) /\ Held(p) <= MaxPerPeer
    BY DEF ServeInv
  <2>2. \A q \in DOMAIN perPeer : perPeer[q] \in Nat \ {0}
    BY DEF ServeInv
  <2>3. p \in DOMAIN perPeer <=> Count(p) > 0
    BY <2>2 DEF Count
  <2>4. QED
    BY <2>1, <2>3
<1>5. SlotsAreCounted
  BY <1>3, <1>4 DEF SlotsAreCounted
<1>6. QED
  BY <1>2, <1>5

----------------------------------------------------------------------------
(* Captures                                                                *)

Marks == [at : {"off", "load", "count", "name", "body", "meta"}, stem : Stem, n : Nat]

(* Captures that were let through and not yet counted, and those that are  *)
(* counted and have no body yet.                                           *)
Passed == {c \in Conn : recording[c].at = "count"}
Unwritten == {c \in Conn : recording[c].at \in {"name", "body"}}

RecordingOK ==
    /\ recording \in [Conn -> Marks]
    /\ \A c \in Conn : recording[c].at = "off" => recording[c] = Off
    /\ IsFiniteSet(Recording) /\ Cardinality(Recording) <= Workers

ClockOK ==
    /\ second \in 0..LastSecond /\ life \in 0..LastLife /\ started \in 0..second
    /\ seq \in Nat /\ written \in Nat /\ missed \in Nat

FilesOK ==
    /\ DOMAIN bodies \subseteq Stem /\ IsFiniteSet(DOMAIN bodies)
    /\ DOMAIN metas \subseteq DOMAIN bodies
    /\ \A c \in Conn : recording[c].at = "meta" => recording[c].stem \in DOMAIN bodies

(* The count is behind the files, written and to be written, by no more    *)
(* than a restart has left out; and all that was ever let through is       *)
(* little ahead of the cap but for those.                                  *)
CountsOK ==
    /\ Cardinality(DOMAIN bodies) + Cardinality(Unwritten) <= written + missed
    /\ Cardinality(DOMAIN bodies) + Cardinality(Unwritten) + Cardinality(Passed)
       <= MaxCaptures + Workers - 1 + missed

(* What a file holds tells when it was named, and a capture whose body is  *)
(* yet to be written has a number that no file of this life has.           *)
NamesOK ==
    /\ \A s \in DOMAIN bodies :
          /\ s[1] <= second
          /\ bodies[s][1] = life => s[2] = bodies[s][2] /\ bodies[s][2] < seq
          /\ bodies[s][1] # life => s[1] <= started
          /\ bodies[s] \in (0..life) \X Nat
    /\ \A c \in Conn : recording[c].at \in {"body", "meta"} =>
          /\ recording[c].stem[2] = recording[c].n
          /\ recording[c].n < seq
          /\ recording[c].stem[1] \in started..second
    /\ \A c \in Conn : recording[c].at = "body" =>
          /\ \A s \in DOMAIN bodies : bodies[s][1] = life => bodies[s][2] # recording[c].n
          /\ \A d \in Conn \ {c} : recording[d].at = "body" => recording[d].n # recording[c].n

CaptureInv == RecordingOK /\ ClockOK /\ FilesOK /\ CountsOK /\ NamesOK

LEMMA OffIs == Off \in Marks /\ Off.at = "off"
BY CaptureConstants DEF Off, Marks, Stem

LEMMA AddOne ==
    ASSUME NEW S, NEW x, IsFiniteSet(S)
    PROVE  /\ Cardinality(S) \in Nat
           /\ IsFiniteSet(S \cup {x}) /\ IsFiniteSet(S \ {x})
           /\ Cardinality(S \cup {x}) = IF x \in S THEN Cardinality(S) ELSE Cardinality(S) + 1
           /\ Cardinality(S \ {x}) = IF x \in S THEN Cardinality(S) - 1 ELSE Cardinality(S)
           /\ Cardinality(S \cup {x}) \in Nat /\ Cardinality(S \ {x}) \in Nat
<1>1. IsFiniteSet(S \cup {x}) /\ IsFiniteSet(S \ {x})
  BY FS_AddElement, FS_RemoveElement
<1>2. QED
  BY <1>1, FS_AddElement, FS_RemoveElement, FS_CardinalityType

(* What a move of one capture does to the sets that are counted.           *)
LEMMA MarkMoves ==
    ASSUME RecordingOK, NEW c \in Conn, NEW r \in Marks,
           recording' = [recording EXCEPT ![c] = r],
           r.at = "off" => r = Off,
           recording[c].at # "off" \/ Cardinality(Recording) < Workers
    PROVE  /\ RecordingOK'
           /\ recording'[c] = r /\ \A d \in Conn \ {c} : recording'[d] = recording[d]
           /\ IsFiniteSet(Passed) /\ IsFiniteSet(Unwritten)
           /\ Passed' = IF r.at = "count" THEN Passed \cup {c} ELSE Passed \ {c}
           /\ Unwritten' = IF r.at \in {"name", "body"} THEN Unwritten \cup {c}
                                                        ELSE Unwritten \ {c}
           /\ Cardinality(Passed') <= Workers
<1>1. recording'[c] = r /\ \A d \in Conn \ {c} : recording'[d] = recording[d]
  BY DEF RecordingOK
<1>2. Passed \in SUBSET Recording /\ Unwritten \in SUBSET Recording
  BY DEF Passed, Unwritten, Recording
<1>3. IsFiniteSet(Passed) /\ IsFiniteSet(Unwritten)
  BY <1>2, FS_Subset DEF RecordingOK
<1>4. Recording' = IF r.at = "off" THEN Recording \ {c} ELSE Recording \cup {c}
  BY <1>1 DEF Recording
<1>5. Passed' = IF r.at = "count" THEN Passed \cup {c} ELSE Passed \ {c}
  BY <1>1 DEF Passed
<1>6. Unwritten' = IF r.at \in {"name", "body"} THEN Unwritten \cup {c} ELSE Unwritten \ {c}
  BY <1>1 DEF Unwritten
<1>7. c \in Recording <=> recording[c].at # "off"
  BY DEF Recording
<1>8. IsFiniteSet(Recording') /\ Cardinality(Recording') <= Workers
  <2>1. IsFiniteSet(Recording) /\ Cardinality(Recording) <= Workers
    BY DEF RecordingOK
  <2>2. CASE r.at = "off"
    <3>1. Recording' = Recording \ {c}
      BY <1>4, <2>2
    <3>2. /\ IsFiniteSet(Recording \ {c}) /\ Cardinality(Recording) \in Nat
          /\ Cardinality(Recording \ {c})
             = IF c \in Recording THEN Cardinality(Recording) - 1 ELSE Cardinality(Recording)
      BY <2>1, AddOne
    <3>3. QED
      BY <2>1, <3>1, <3>2, CaptureConstants
  <2>3. CASE r.at # "off"
    <3>1. Recording' = Recording \cup {c}
      BY <1>4, <2>3
    <3>2. IsFiniteSet(Recording \cup {c}) /\ Cardinality(Recording) \in Nat
      BY <2>1, AddOne
    <3>3. Cardinality(Recording \cup {c})
          = IF c \in Recording THEN Cardinality(Recording) ELSE Cardinality(Recording) + 1
      BY <2>1, AddOne
    <3>4. QED
      BY <1>7, <2>1, <3>1, <3>2, <3>3, CaptureConstants
  <2>4. QED
    BY <2>2, <2>3
<1>9. recording' \in [Conn -> Marks]
  BY DEF RecordingOK
<1>10. RecordingOK'
  BY <1>1, <1>8, <1>9 DEF RecordingOK
<1>11. Cardinality(Passed') <= Workers
  <2>1. Passed' \in SUBSET Recording'
    BY DEF Passed, Recording
  <2>2. /\ Cardinality(Passed') <= Cardinality(Recording')
        /\ Cardinality(Passed') \in Nat /\ Cardinality(Recording') \in Nat
    BY <1>8, <2>1, FS_Subset, FS_CardinalityType
  <2>3. QED
    BY <1>8, <2>2, CaptureConstants
<1>12. QED
  BY <1>1, <1>3, <1>5, <1>6, <1>10, <1>11

LEMMA MoveIs ==
    ASSUME RecordingOK, NEW c \in Conn, NEW at, Move(c, at)
    PROVE  recording' = [recording EXCEPT
              ![c] = [at |-> at, stem |-> recording[c].stem, n |-> recording[c].n]]
<1>1. PICK r : r = recording[c]
  OBVIOUS
<1>2. r = [at |-> r.at, stem |-> r.stem, n |-> r.n]
  BY <1>1 DEF RecordingOK, Marks
<1>3. [r EXCEPT !.at = at] = [at |-> at, stem |-> r.stem, n |-> r.n]
  BY <1>2
<1>4. recording' = [recording EXCEPT ![c] = [r EXCEPT !.at = at]]
  BY <1>1 DEF Move
<1>5. QED
  BY <1>1, <1>3, <1>4

(* Everything that is counted at once.                                     *)
LEMMA Counts ==
    ASSUME CaptureInv
    PROVE  /\ IsFiniteSet(Passed) /\ IsFiniteSet(Unwritten)
           /\ Cardinality(Passed) \in Nat /\ Cardinality(Unwritten) \in Nat
           /\ Cardinality(DOMAIN bodies) \in Nat
           /\ written \in Nat /\ missed \in Nat
<1>1. Passed \in SUBSET Recording /\ Unwritten \in SUBSET Recording
  BY DEF Passed, Unwritten, Recording
<1>2. IsFiniteSet(Passed) /\ IsFiniteSet(Unwritten)
  BY <1>1, FS_Subset DEF CaptureInv, RecordingOK
<1>3. QED
  BY <1>2, FS_CardinalityType DEF CaptureInv, FilesOK, ClockOK

LEMMA CaptureInvInit == CaptureInit => CaptureInv
<1> SUFFICES ASSUME CaptureInit
             PROVE  CaptureInv
  OBVIOUS
<1> USE CaptureConstants
<1>1. /\ recording = [c \in Conn |-> Off]
      /\ second = 0 /\ life = 0 /\ started = 0 /\ seq = 0 /\ written = 0
      /\ DOMAIN bodies = {} /\ DOMAIN metas = {} /\ missed = 0
  BY DEF CaptureInit
<1>2. \A c \in Conn : recording[c] = Off /\ recording[c].at = "off"
  BY <1>1, OffIs
<1>3. Recording = {} /\ Passed = {} /\ Unwritten = {}
  BY <1>2 DEF Recording, Passed, Unwritten
<1>4. RecordingOK
  BY <1>1, <1>2, <1>3, OffIs, FS_EmptySet DEF RecordingOK
<1>5. ClockOK
  BY <1>1 DEF ClockOK
<1>6. FilesOK
  BY <1>1, <1>2, FS_EmptySet DEF FilesOK
<1>7. CountsOK
  BY <1>1, <1>3, FS_EmptySet DEF CountsOK
<1>8. NamesOK
  BY <1>1, <1>2 DEF NamesOK
<1>9. QED
  BY <1>4, <1>5, <1>6, <1>7, <1>8 DEF CaptureInv

(* A move that writes no file and takes no number.                         *)
LEMMA NamesKept ==
    ASSUME NamesOK, NEW c \in Conn, recording'[c].at \notin {"body", "meta"},
           \A d \in Conn \ {c} : recording'[d] = recording[d],
           UNCHANGED <<second, life, started, seq, bodies>>
    PROVE  NamesOK'
<1>1. ASSUME NEW d \in Conn, recording'[d].at \in {"body", "meta"}
      PROVE  d # c /\ recording'[d] = recording[d]
  BY <1>1
<1>2. \A s \in DOMAIN bodies' :
          /\ s[1] <= second'
          /\ bodies'[s][1] = life' => s[2] = bodies'[s][2] /\ bodies'[s][2] < seq'
          /\ bodies'[s][1] # life' => s[1] <= started'
          /\ bodies'[s] \in (0..life') \X Nat
  BY DEF NamesOK
<1>3. ASSUME NEW d \in Conn, recording'[d].at \in {"body", "meta"}
      PROVE  /\ recording'[d].stem[2] = recording'[d].n
             /\ recording'[d].n < seq'
             /\ recording'[d].stem[1] \in started'..second'
  BY <1>1, <1>3 DEF NamesOK
<1>4. ASSUME NEW d \in Conn, recording'[d].at = "body"
      PROVE  /\ \A s \in DOMAIN bodies' :
                   bodies'[s][1] = life' => bodies'[s][2] # recording'[d].n
             /\ \A e \in Conn \ {d} :
                   recording'[e].at = "body" => recording'[e].n # recording'[d].n
  BY <1>1, <1>4 DEF NamesOK
<1>5. QED
  BY <1>2, <1>3, <1>4 DEF NamesOK

LEMMA RecordKeeps ==
    ASSUME CaptureInv, NEW c \in Conn, recording[c] = Off, Record(c)
    PROVE  CaptureInv'
<1> DEFINE r == [at |-> "load", stem |-> recording[c].stem, n |-> recording[c].n]
<1>1. recording' = [recording EXCEPT ![c] = r]
  BY MoveIs DEF Record, CaptureInv
<1>2. r \in Marks
  BY DEF CaptureInv, RecordingOK, Marks
<1> HIDE DEF r
<1>3. r.at = "load"
  BY DEF r
<1>4. /\ RecordingOK'
      /\ recording'[c] = r /\ \A d \in Conn \ {c} : recording'[d] = recording[d]
      /\ Passed' = Passed \ {c} /\ Unwritten' = Unwritten \ {c}
  BY <1>1, <1>2, <1>3, MarkMoves DEF CaptureInv, Record
<1>5. c \notin Passed /\ c \notin Unwritten
  BY DEF Passed, Unwritten, Off
<1>6. Passed' = Passed /\ Unwritten' = Unwritten
  BY <1>4, <1>5
<1>7. UNCHANGED <<second, life, started, seq, written, bodies, metas, missed>>
  BY DEF Record
<1>8. ClockOK' /\ CountsOK'
  BY <1>6, <1>7 DEF CaptureInv, ClockOK, CountsOK
<1>9. FilesOK'
  BY <1>3, <1>4, <1>7 DEF CaptureInv, FilesOK
<1>10. NamesOK'
  BY <1>3, <1>4, <1>7, NamesKept DEF CaptureInv
<1>11. QED
  BY <1>4, <1>8, <1>9, <1>10 DEF CaptureInv

LEMMA LoadKeeps ==
    ASSUME CaptureInv, NEW c \in Conn, LoadWritten(c)
    PROVE  CaptureInv'
<1> USE CaptureConstants
<1>1. UNCHANGED <<second, life, started, seq, written, bodies, metas, missed>>
  BY DEF LoadWritten
<1>2. recording[c].at = "load" /\ c \notin Passed /\ c \notin Unwritten
  BY DEF LoadWritten, Passed, Unwritten
<1>3. CASE written >= MaxCaptures
  <2>1. recording' = [recording EXCEPT ![c] = Off]
    BY <1>3 DEF LoadWritten
  <2>2. /\ RecordingOK'
        /\ recording'[c] = Off /\ \A d \in Conn \ {c} : recording'[d] = recording[d]
        /\ Passed' = Passed \ {c} /\ Unwritten' = Unwritten \ {c}
    BY <1>2, <2>1, OffIs, MarkMoves DEF CaptureInv
  <2>3. Passed' = Passed /\ Unwritten' = Unwritten
    BY <1>2, <2>2
  <2>4. ClockOK' /\ CountsOK'
    BY <1>1, <2>1, <2>3 DEF CaptureInv, ClockOK, CountsOK
  <2>5. FilesOK' /\ NamesOK'
    <3>1. recording'[c].at = "off"
      BY <2>2, OffIs
    <3>2. FilesOK'
      BY <1>1, <2>2, <3>1 DEF CaptureInv, FilesOK
    <3>3. NamesOK'
      BY <1>1, <2>2, <3>1, NamesKept DEF CaptureInv
    <3>4. QED
      BY <3>2, <3>3
  <2>6. QED
    BY <2>2, <2>4, <2>5 DEF CaptureInv
<1>4. CASE ~(written >= MaxCaptures)
  <2> DEFINE r == [at |-> "count", stem |-> recording[c].stem, n |-> recording[c].n]
  <2>1. recording' = [recording EXCEPT ![c] = r]
    BY <1>4, MoveIs DEF LoadWritten, CaptureInv
  <2>2. r \in Marks
    BY DEF CaptureInv, RecordingOK, Marks
  <2> HIDE DEF r
  <2>3. r.at = "count"
    BY DEF r
  <2>4. /\ RecordingOK'
        /\ recording'[c] = r /\ \A d \in Conn \ {c} : recording'[d] = recording[d]
        /\ IsFiniteSet(Passed) /\ Passed' = Passed \cup {c} /\ Unwritten' = Unwritten \ {c}
        /\ Cardinality(Passed') <= Workers
    BY <1>2, <2>1, <2>2, <2>3, MarkMoves DEF CaptureInv
  <2>5. Unwritten' = Unwritten
    BY <1>2, <2>4
  <2>6. ClockOK' /\ CountsOK'
    <3>1. Cardinality(Passed') \in Nat
      BY <2>4, AddOne
    <3>2. /\ written <= MaxCaptures - 1 /\ written \in Nat /\ missed \in Nat
          /\ Cardinality(Unwritten) \in Nat /\ Cardinality(DOMAIN bodies) \in Nat
      BY <1>4, Counts
    <3>3. /\ Cardinality(DOMAIN bodies) + Cardinality(Unwritten) <= written + missed
          /\ Cardinality(Passed') <= Workers
      BY <2>4 DEF CaptureInv, CountsOK
    <3>4. Cardinality(DOMAIN bodies) + Cardinality(Unwritten) + Cardinality(Passed')
          <= MaxCaptures + Workers - 1 + missed
      BY <3>1, <3>2, <3>3
    <3>5. CountsOK'
      BY <1>1, <2>5, <3>3, <3>4 DEF CountsOK
    <3>6. QED
      BY <1>1, <2>1, <3>5 DEF CaptureInv, ClockOK
  <2>7. FilesOK' /\ NamesOK'
    <3>1. FilesOK'
      BY <1>1, <2>3, <2>4 DEF CaptureInv, FilesOK
    <3>2. NamesOK'
      BY <1>1, <2>3, <2>4, NamesKept DEF CaptureInv
    <3>3. QED
      BY <3>1, <3>2
  <2>8. QED
    BY <2>4, <2>6, <2>7 DEF CaptureInv
<1>5. QED
  BY <1>3, <1>4

LEMMA CountKeeps ==
    ASSUME CaptureInv, NEW c \in Conn, CountWritten(c)
    PROVE  CaptureInv'
<1> USE CaptureConstants
<1> DEFINE r == [at |-> "name", stem |-> recording[c].stem, n |-> recording[c].n]
<1>1. /\ UNCHANGED <<second, life, started, seq, bodies, metas, missed>>
      /\ written' = written + 1
  BY DEF CountWritten
<1>2. recording[c].at = "count" /\ c \in Passed /\ c \notin Unwritten
  BY DEF CountWritten, Passed, Unwritten
<1>3. recording' = [recording EXCEPT ![c] = r]
  BY MoveIs DEF CountWritten, CaptureInv
<1>4. r \in Marks
  BY DEF CaptureInv, RecordingOK, Marks
<1> HIDE DEF r
<1>5. r.at = "name"
  BY DEF r
<1>6. /\ RecordingOK'
      /\ recording'[c] = r /\ \A d \in Conn \ {c} : recording'[d] = recording[d]
      /\ Passed' = Passed \ {c} /\ Unwritten' = Unwritten \cup {c}
  BY <1>2, <1>3, <1>4, <1>5, MarkMoves DEF CaptureInv
<1>7. /\ Cardinality(Passed') = Cardinality(Passed) - 1
      /\ Cardinality(Unwritten') = Cardinality(Unwritten) + 1
  BY <1>2, <1>6, Counts, AddOne
<1>8. CountsOK'
  BY <1>1, <1>7, Counts DEF CaptureInv, CountsOK
<1>9. ClockOK'
  BY <1>1 DEF CaptureInv, ClockOK
<1>10. FilesOK'
  BY <1>1, <1>5, <1>6 DEF CaptureInv, FilesOK
<1>11. NamesOK'
  BY <1>1, <1>5, <1>6, NamesKept DEF CaptureInv
<1>12. QED
  BY <1>6, <1>8, <1>9, <1>10, <1>11 DEF CaptureInv

LEMMA NumberKeeps ==
    ASSUME CaptureInv, NEW c \in Conn, TakeNumber(c)
    PROVE  CaptureInv'
<1> USE CaptureConstants
<1> DEFINE r == [at |-> "body", stem |-> <<second, seq>>, n |-> seq]
<1>1. /\ UNCHANGED <<second, life, started, written, bodies, metas, missed>>
      /\ seq' = seq + 1
  BY DEF TakeNumber
<1>2. recording[c].at = "name" /\ c \notin Passed /\ c \in Unwritten
  BY DEF TakeNumber, Passed, Unwritten
<1>3. recording' = [recording EXCEPT ![c] = r]
  BY DEF TakeNumber
<1>4. second \in 0..LastSecond /\ seq \in Nat /\ started \in 0..second
  BY DEF CaptureInv, ClockOK
<1>5. r \in Marks
  BY <1>4 DEF Marks, Stem
<1>6. r.at = "body" /\ r.n = seq /\ r.stem[1] = second /\ r.stem[2] = seq
  OBVIOUS
<1> HIDE DEF r
<1>7. /\ RecordingOK'
      /\ recording'[c] = r /\ \A d \in Conn \ {c} : recording'[d] = recording[d]
      /\ Passed' = Passed \ {c} /\ Unwritten' = Unwritten \cup {c}
  BY <1>2, <1>3, <1>5, <1>6, MarkMoves DEF CaptureInv
<1>8. Passed' = Passed /\ Unwritten' = Unwritten
  BY <1>2, <1>7
<1>9. CountsOK' /\ ClockOK'
  BY <1>1, <1>4, <1>8 DEF CaptureInv, CountsOK, ClockOK
<1>10. FilesOK'
  BY <1>1, <1>6, <1>7 DEF CaptureInv, FilesOK
<1>11. NamesOK'
  <2>1. ASSUME NEW s \in DOMAIN bodies
        PROVE  /\ s[1] <= second
               /\ bodies[s][1] = life => s[2] = bodies[s][2] /\ bodies[s][2] < seq + 1
               /\ bodies[s][1] # life => s[1] <= started
               /\ bodies[s] \in (0..life) \X Nat
    BY <1>4 DEF CaptureInv, NamesOK
  <2>2. ASSUME NEW d \in Conn \ {c}, recording[d].at \in {"body", "meta"}
        PROVE  /\ recording[d].stem[2] = recording[d].n
               /\ recording[d].n < seq /\ recording[d].n < seq + 1
               /\ recording[d].stem[1] \in started..second
    <3>1. recording[d].n \in Nat
      BY DEF CaptureInv, RecordingOK, Marks
    <3>2. QED
      BY <1>4, <2>2, <3>1 DEF CaptureInv, NamesOK
  <2>3. ASSUME NEW d \in Conn, recording'[d].at \in {"body", "meta"}
        PROVE  /\ recording'[d].stem[2] = recording'[d].n
               /\ recording'[d].n < seq'
               /\ recording'[d].stem[1] \in started'..second'
    BY <1>1, <1>4, <1>6, <1>7, <2>2, <2>3
  <2>4. \A s \in DOMAIN bodies : bodies[s][1] = life => bodies[s][2] # seq
    BY <1>4 DEF CaptureInv, NamesOK
  <2>5. ASSUME NEW d \in Conn, recording'[d].at = "body"
        PROVE  /\ \A s \in DOMAIN bodies : bodies[s][1] = life => bodies[s][2] # recording'[d].n
               /\ \A e \in Conn \ {d} :
                     recording'[e].at = "body" => recording'[e].n # recording'[d].n
    <3>1. CASE d = c
      <4>1. ASSUME NEW e \in Conn \ {d}, recording'[e].at = "body"
            PROVE  recording'[e].n # seq
        <5>1. recording[e].n < seq /\ recording'[e] = recording[e]
          BY <1>7, <2>2, <3>1, <4>1
        <5>2. QED
          BY <1>4, <5>1
      <4>2. QED
        BY <1>6, <1>7, <2>4, <3>1, <4>1
    <3>2. CASE d # c
      <4>1. recording'[d] = recording[d] /\ recording[d].at = "body"
        BY <1>7, <2>5, <3>2
      <4>2. \A s \in DOMAIN bodies : bodies[s][1] = life => bodies[s][2] # recording[d].n
        BY <4>1 DEF CaptureInv, NamesOK
      <4>3. recording[d].n < seq
        BY <2>2, <3>2, <4>1
      <4>4. ASSUME NEW e \in Conn \ {d}, recording'[e].at = "body"
            PROVE  recording'[e].n # recording[d].n
        <5>1. CASE e = c
          BY <1>4, <1>6, <1>7, <4>3, <5>1
        <5>2. CASE e # c
          <6>1. recording'[e] = recording[e]
            BY <1>7, <5>2
          <6>2. QED
            BY <4>1, <4>4, <6>1 DEF CaptureInv, NamesOK
        <5>3. QED
          BY <5>1, <5>2
      <4>5. QED
        BY <4>1, <4>2, <4>4
    <3>3. QED
      BY <3>1, <3>2
  <2>6. QED
    BY <1>1, <2>1, <2>3, <2>5 DEF NamesOK
<1>12. QED
  BY <1>7, <1>9, <1>10, <1>11 DEF CaptureInv

(* A body that cannot be written, and the end of a record.                 *)
LEMMA GivenUpKeeps ==
    ASSUME CaptureInv, NEW c \in Conn, recording[c].at # "off",
           recording' = [recording EXCEPT ![c] = Off],
           UNCHANGED <<second, life, started, seq, written, bodies, missed>>,
           DOMAIN metas' \subseteq DOMAIN bodies
    PROVE  CaptureInv'
<1>1. /\ RecordingOK'
      /\ recording'[c] = Off /\ \A d \in Conn \ {c} : recording'[d] = recording[d]
      /\ Passed' = Passed \ {c} /\ Unwritten' = Unwritten \ {c}
  BY OffIs, MarkMoves DEF CaptureInv
<1>2. recording'[c].at = "off"
  BY <1>1, OffIs
<1>3. /\ Cardinality(Passed') \in Nat /\ Cardinality(Passed') <= Cardinality(Passed)
      /\ Cardinality(Unwritten') \in Nat
      /\ Cardinality(Unwritten') <= Cardinality(Unwritten)
  <2>1. /\ Cardinality(Passed \ {c}) \in Nat
        /\ Cardinality(Passed \ {c})
           = IF c \in Passed THEN Cardinality(Passed) - 1 ELSE Cardinality(Passed)
    BY Counts, AddOne
  <2>2. /\ Cardinality(Unwritten \ {c}) \in Nat
        /\ Cardinality(Unwritten \ {c})
           = IF c \in Unwritten THEN Cardinality(Unwritten) - 1 ELSE Cardinality(Unwritten)
    BY Counts, AddOne
  <2>3. QED
    BY <1>1, <2>1, <2>2, Counts
<1>4. CountsOK'
  BY <1>3, Counts, CaptureConstants DEF CaptureInv, CountsOK
<1>5. ClockOK'
  BY DEF CaptureInv, ClockOK
<1>6. FilesOK'
  BY <1>1, <1>2 DEF CaptureInv, FilesOK
<1>7. NamesOK'
  BY <1>1, <1>2, NamesKept DEF CaptureInv
<1>8. QED
  BY <1>1, <1>4, <1>5, <1>6, <1>7 DEF CaptureInv

(* A body that is written. If a file had the name, it was of an earlier    *)
(* life, and of the second this life began in.                             *)
LEMMA WriteIs ==
    ASSUME CaptureInv, NEW c \in Conn, recording[c].at = "body",
           bodies' = Write(bodies, recording[c])
    PROVE  /\ recording[c].stem \in Stem
           /\ DOMAIN bodies' = DOMAIN bodies \cup {recording[c].stem}
           /\ bodies'[recording[c].stem] = <<life, recording[c].n>>
           /\ \A s \in DOMAIN bodies : s # recording[c].stem => bodies'[s] = bodies[s]
           /\ recording[c].stem \in DOMAIN bodies =>
                 /\ bodies[recording[c].stem][1] # life
                 /\ recording[c].stem[1] = started
<1> DEFINE r == recording[c]
<1>1. r.stem \in Stem /\ r.n \in Nat
  BY DEF CaptureInv, RecordingOK, Marks
<1>2. bodies' = [s \in DOMAIN bodies \cup {r.stem} |->
                   IF s = r.stem THEN <<life, r.n>> ELSE bodies[s]]
  BY DEF Write
<1>3. /\ r.stem[2] = r.n /\ r.stem[1] \in started..second
      /\ \A s \in DOMAIN bodies : bodies[s][1] = life => bodies[s][2] # r.n
  BY DEF CaptureInv, NamesOK
<1>4. started \in Nat /\ second \in Nat
  BY CaptureConstants DEF CaptureInv, ClockOK
<1> HIDE DEF r
<1>5. ASSUME r.stem \in DOMAIN bodies
      PROVE  bodies[r.stem][1] # life /\ r.stem[1] = started
  <2>1. bodies[r.stem][1] # life
    BY <1>3, <1>5 DEF CaptureInv, NamesOK
  <2>2. r.stem[1] <= started
    BY <1>5, <2>1 DEF CaptureInv, NamesOK
  <2>3. QED
    BY <1>3, <1>4, <2>1, <2>2
<1>6. QED
  BY <1>1, <1>2, <1>5 DEF r

LEMMA BodyKeeps ==
    ASSUME CaptureInv, NEW c \in Conn, WriteBody(c)
    PROVE  CaptureInv'
<1> USE CaptureConstants
<1>1. /\ UNCHANGED <<second, life, started, seq, written, metas, missed>>
      /\ recording[c].at = "body" /\ c \notin Passed /\ c \in Unwritten
  BY DEF WriteBody, Passed, Unwritten
<1>2. CASE recording' = [recording EXCEPT ![c] = Off] /\ UNCHANGED bodies
  BY <1>1, <1>2, GivenUpKeeps DEF CaptureInv, FilesOK
<1>3. CASE bodies' = Write(bodies, recording[c]) /\ Move(c, "meta")
  <2> DEFINE r == [at |-> "meta", stem |-> recording[c].stem, n |-> recording[c].n]
             stem == recording[c].stem
  <2>1. recording' = [recording EXCEPT ![c] = r]
    BY <1>3, MoveIs DEF CaptureInv
  <2>2. r \in Marks
    BY DEF CaptureInv, RecordingOK, Marks
  <2>3. r.at = "meta" /\ r.stem = stem /\ r.n = recording[c].n
    OBVIOUS
  <2> HIDE DEF r
  <2>4. /\ RecordingOK'
        /\ recording'[c] = r /\ \A d \in Conn \ {c} : recording'[d] = recording[d]
        /\ Passed' = Passed \ {c} /\ Unwritten' = Unwritten \ {c}
    BY <1>1, <2>1, <2>2, <2>3, MarkMoves DEF CaptureInv
  <2>5. /\ stem \in Stem /\ DOMAIN bodies' = DOMAIN bodies \cup {stem}
        /\ bodies'[stem] = <<life, recording[c].n>>
        /\ \A s \in DOMAIN bodies : s # stem => bodies'[s] = bodies[s]
    BY <1>1, <1>3, WriteIs
  <2>6. life \in Nat /\ recording[c].n \in Nat /\ second \in Nat /\ started \in Nat
    BY DEF CaptureInv, ClockOK, RecordingOK, Marks
  <2> HIDE DEF stem
  <2>7. CountsOK'
    <3>1. Passed' = Passed /\ Cardinality(Unwritten') = Cardinality(Unwritten) - 1
      <4>1. Passed' = Passed /\ Unwritten' = Unwritten \ {c}
        BY <1>1, <2>4
      <4>2. Cardinality(Unwritten \ {c})
            = IF c \in Unwritten THEN Cardinality(Unwritten) - 1 ELSE Cardinality(Unwritten)
        BY Counts, AddOne
      <4>3. QED
        BY <1>1, <4>1, <4>2
    <3>2. /\ Cardinality(DOMAIN bodies') <= Cardinality(DOMAIN bodies) + 1
          /\ Cardinality(DOMAIN bodies') \in Nat
      <4>1. IsFiniteSet(DOMAIN bodies) /\ Cardinality(DOMAIN bodies) \in Nat
        BY Counts DEF CaptureInv, FilesOK
      <4>2. /\ Cardinality(DOMAIN bodies \cup {stem}) \in Nat
            /\ Cardinality(DOMAIN bodies \cup {stem})
               = IF stem \in DOMAIN bodies THEN Cardinality(DOMAIN bodies)
                                           ELSE Cardinality(DOMAIN bodies) + 1
        BY <4>1, AddOne
      <4>3. QED
        BY <2>5, <4>1, <4>2
    <3>3. QED
      BY <1>1, <3>1, <3>2, Counts DEF CaptureInv, CountsOK
  <2>8. ClockOK'
    BY <1>1 DEF CaptureInv, ClockOK
  <2>9. FilesOK'
    <3>1. IsFiniteSet(DOMAIN bodies')
      <4>1. IsFiniteSet(DOMAIN bodies)
        BY DEF CaptureInv, FilesOK
      <4>2. IsFiniteSet(DOMAIN bodies \cup {stem})
        BY <4>1, AddOne
      <4>3. QED
        BY <2>5, <4>2
    <3>2. DOMAIN bodies' \subseteq Stem /\ DOMAIN metas' \subseteq DOMAIN bodies'
      BY <1>1, <2>5 DEF CaptureInv, FilesOK
    <3>3. \A d \in Conn : recording'[d].at = "meta" => recording'[d].stem \in DOMAIN bodies'
      BY <2>3, <2>4, <2>5 DEF CaptureInv, FilesOK
    <3>4. QED
      BY <3>1, <3>2, <3>3 DEF FilesOK
  <2>10. NamesOK'
    <3>1. /\ stem[2] = recording[c].n /\ recording[c].n < seq /\ stem[1] \in started..second
      BY <1>1 DEF CaptureInv, NamesOK, stem
    <3>2. ASSUME NEW s \in DOMAIN bodies'
          PROVE  /\ s[1] <= second'
                 /\ bodies'[s][1] = life' => s[2] = bodies'[s][2] /\ bodies'[s][2] < seq'
                 /\ bodies'[s][1] # life' => s[1] <= started'
                 /\ bodies'[s] \in (0..life') \X Nat
      <4>1. CASE s = stem
        BY <1>1, <2>5, <2>6, <3>1, <4>1
      <4>2. CASE s # stem
        <5>1. s \in DOMAIN bodies /\ bodies'[s] = bodies[s]
          BY <2>5, <4>2
        <5>2. QED
          BY <1>1, <5>1 DEF CaptureInv, NamesOK
      <4>3. QED
        BY <4>1, <4>2
    <3>3. ASSUME NEW d \in Conn, recording'[d].at \in {"body", "meta"}
          PROVE  /\ recording'[d].stem[2] = recording'[d].n
                 /\ recording'[d].n < seq'
                 /\ recording'[d].stem[1] \in started'..second'
      <4>1. CASE d = c
        BY <1>1, <2>3, <2>4, <3>1, <4>1
      <4>2. CASE d # c
        <5>1. recording'[d] = recording[d]
          BY <2>4, <4>2
        <5>2. QED
          BY <1>1, <3>3, <5>1 DEF CaptureInv, NamesOK
      <4>3. QED
        BY <4>1, <4>2
    <3>4. ASSUME NEW d \in Conn, recording'[d].at = "body"
          PROVE  /\ \A s \in DOMAIN bodies' :
                       bodies'[s][1] = life' => bodies'[s][2] # recording'[d].n
                 /\ \A e \in Conn \ {d} :
                       recording'[e].at = "body" => recording'[e].n # recording'[d].n
      <4>1. d # c /\ recording'[d] = recording[d] /\ recording[d].at = "body"
        BY <2>3, <2>4, <3>4
      <4>2. /\ \A s \in DOMAIN bodies : bodies[s][1] = life => bodies[s][2] # recording[d].n
            /\ \A e \in Conn \ {d} : recording[e].at = "body" => recording[e].n # recording[d].n
        BY <4>1 DEF CaptureInv, NamesOK
      <4>3. recording[c].n # recording[d].n
        BY <1>1, <4>1, <4>2
      <4>4. ASSUME NEW s \in DOMAIN bodies', bodies'[s][1] = life'
            PROVE  bodies'[s][2] # recording'[d].n
        <5>1. CASE s = stem
          BY <2>5, <4>1, <4>3, <5>1
        <5>2. CASE s # stem
          BY <1>1, <2>5, <4>1, <4>2, <4>4, <5>2
        <5>3. QED
          BY <5>1, <5>2
      <4>5. ASSUME NEW e \in Conn \ {d}, recording'[e].at = "body"
            PROVE  recording'[e].n # recording'[d].n
        <5>1. e # c /\ recording'[e] = recording[e]
          BY <2>3, <2>4, <4>5
        <5>2. QED
          BY <4>1, <4>2, <4>5, <5>1
      <4>6. QED
        BY <4>4, <4>5
    <3>5. QED
      BY <3>2, <3>3, <3>4 DEF NamesOK
  <2>11. QED
    BY <2>4, <2>7, <2>8, <2>9, <2>10 DEF CaptureInv
<1>4. QED
  BY <1>2, <1>3 DEF WriteBody

LEMMA MetaKeeps ==
    ASSUME CaptureInv, NEW c \in Conn, WriteMeta(c)
    PROVE  CaptureInv'
<1>1. /\ UNCHANGED <<second, life, started, seq, written, bodies, missed>>
      /\ recording[c].at = "meta" /\ recording' = [recording EXCEPT ![c] = Off]
      /\ metas' = Write(metas, recording[c]) \/ metas' = metas
  BY DEF WriteMeta
<1>2. recording[c].stem \in DOMAIN bodies /\ DOMAIN metas \subseteq DOMAIN bodies
  BY <1>1 DEF CaptureInv, FilesOK
<1>3. DOMAIN metas' \subseteq DOMAIN bodies
  BY <1>1, <1>2 DEF Write
<1>4. QED
  BY <1>1, <1>3, GivenUpKeeps

LEMMA StepKeeps ==
    ASSUME CaptureInv, NEW c \in Conn, RecordStep(c)
    PROVE  CaptureInv'
BY LoadKeeps, CountKeeps, NumberKeeps, BodyKeeps, MetaKeeps DEF RecordStep

LEMMA TickKeeps ==
    ASSUME CaptureInv, CaptureTick
    PROVE  CaptureInv'
<1> USE CaptureConstants
<1>1. /\ second' = second + 1 /\ second < LastSecond
      /\ UNCHANGED <<life, started, seq, written, bodies, metas, recording, missed>>
  BY DEF CaptureTick
<1>2. second \in 0..LastSecond /\ started \in 0..second
  BY DEF CaptureInv, ClockOK
<1>3. RecordingOK' /\ FilesOK' /\ CountsOK'
  BY <1>1 DEF CaptureInv, RecordingOK, FilesOK, CountsOK, Recording, Passed, Unwritten
<1>4. ClockOK'
  BY <1>1, <1>2 DEF CaptureInv, ClockOK
<1>5. NamesOK'
  <2>1. ASSUME NEW s \in DOMAIN bodies
        PROVE  s[1] \in Nat /\ s[1] <= second + 1
    <3>1. s \in Stem
      BY DEF CaptureInv, FilesOK
    <3>2. QED
      BY <1>2, <3>1 DEF CaptureInv, NamesOK, Stem
  <2>2. started..second \subseteq started..(second + 1)
    BY <1>2
  <2>3. QED
    BY <1>1, <2>1, <2>2 DEF CaptureInv, NamesOK
<1>6. QED
  BY <1>3, <1>4, <1>5 DEF CaptureInv

(* The end of the process cuts every record off.                           *)
LEMMA CutOffKeeps ==
    ASSUME CaptureInv, recording' = [c \in Conn |-> Off],
           UNCHANGED <<second, life, started, seq, written, bodies, metas, missed>>
    PROVE  CaptureInv'
<1> USE CaptureConstants
<1>1. \A c \in Conn : recording'[c] = Off /\ recording'[c].at = "off"
  BY OffIs
<1>2. Recording' = {} /\ Passed' = {} /\ Unwritten' = {}
  BY <1>1 DEF Recording, Passed, Unwritten
<1>3. RecordingOK'
  BY <1>1, <1>2, OffIs, FS_EmptySet DEF RecordingOK
<1>4. ClockOK' /\ FilesOK'
  BY <1>1 DEF CaptureInv, ClockOK, FilesOK
<1>5. CountsOK'
  <2>1. Cardinality(Passed') = 0 /\ Cardinality(Unwritten') = 0
    BY <1>2, FS_EmptySet
  <2>2. QED
    BY <2>1, Counts DEF CaptureInv, CountsOK
<1>6. NamesOK'
  BY <1>1 DEF CaptureInv, NamesOK
<1>7. QED
  BY <1>3, <1>4, <1>5, <1>6 DEF CaptureInv

(* A new life counts what it finds. What it leaves out of the count is     *)
(* what the bound allows for from then on.                                 *)
LEMMA RestartKeeps ==
    ASSUME CaptureInv, CaptureRestart, life < LastLife
    PROVE  CaptureInv'
<1> USE CaptureConstants
<1>1. /\ life' = life + 1 /\ started' = second /\ seq' = 0
      /\ recording' = [c \in Conn |-> Off]
      /\ UNCHANGED <<second, bodies, metas>>
  BY DEF CaptureRestart
<1>2. PICK unseen \in 0..Cardinality(DOMAIN bodies) :
          /\ written' = Cardinality(DOMAIN bodies) - unseen
          /\ missed' = IF unseen > missed THEN unseen ELSE missed
  BY DEF CaptureRestart
<1>3. /\ written' \in Nat /\ missed' \in Nat /\ missed <= missed'
       /\ Cardinality(DOMAIN bodies) <= written' + missed'
  BY <1>2, Counts
<1>4. \A c \in Conn : recording'[c] = Off /\ recording'[c].at = "off"
  BY <1>1, OffIs
<1>5. Recording' = {} /\ Passed' = {} /\ Unwritten' = {}
  BY <1>4 DEF Recording, Passed, Unwritten
<1>6. second \in 0..LastSecond /\ life \in 0..LastLife
  BY DEF CaptureInv, ClockOK
<1>7. RecordingOK'
  BY <1>1, <1>4, <1>5, OffIs, FS_EmptySet DEF RecordingOK
<1>8. ClockOK'
  BY <1>1, <1>6, <1>3 DEF ClockOK
<1>9. FilesOK'
  BY <1>1, <1>4 DEF CaptureInv, FilesOK
<1>10. CountsOK'
  <2>1. Cardinality(Passed') = 0 /\ Cardinality(Unwritten') = 0
    BY <1>5, FS_EmptySet
  <2>2. Cardinality(DOMAIN bodies) <= MaxCaptures + Workers - 1 + missed
    BY Counts DEF CaptureInv, CountsOK
  <2>3. QED
    BY <1>1, <1>3, <2>1, <2>2, Counts DEF CountsOK
<1>11. NamesOK'
  <2>1. ASSUME NEW s \in DOMAIN bodies
        PROVE  /\ s[1] <= second /\ bodies[s][1] # life + 1
               /\ bodies[s] \in (0..(life + 1)) \X Nat
    <3>1. s[1] <= second /\ bodies[s] \in (0..life) \X Nat
      BY DEF CaptureInv, NamesOK
    <3>2. QED
      BY <1>6, <3>1
  <2>2. QED
    BY <1>1, <1>4, <2>1 DEF NamesOK
<1>12. QED
  BY <1>7, <1>8, <1>9, <1>10, <1>11 DEF CaptureInv

LEMMA CaptureStands ==
    ASSUME CaptureInv, UNCHANGED captureVars
    PROVE  CaptureInv'
<1>1. UNCHANGED <<second, life, started, seq, written, bodies, metas, recording,
               missed>>
  BY DEF captureVars
<1>2. RecordingOK' /\ ClockOK'
  BY <1>1 DEF CaptureInv, RecordingOK, ClockOK, Recording
<1>3. FilesOK' /\ CountsOK'
  BY <1>1 DEF CaptureInv, FilesOK, CountsOK, Passed, Unwritten
<1>4. NamesOK'
  BY <1>1 DEF CaptureInv, NamesOK
<1>5. QED
  BY <1>2, <1>3, <1>4 DEF CaptureInv

(* What the cap and the evidence rest on.                                  *)
LEMMA CapturesAreBounded ==
    ASSUME CaptureInv
    PROVE  CaptureTypeOK /\ CapturesBounded
<1> USE CaptureConstants
<1>1. CaptureTypeOK
  <2>1. \A c \in Conn : recording[c].stem \in Stem
    BY DEF CaptureInv, RecordingOK, Marks
  <2>2. QED
    BY <2>1 DEF CaptureInv, ClockOK, FilesOK, CaptureTypeOK
<1>2. CapturesBounded
  BY Counts DEF CaptureInv, CountsOK, CapturesBounded
<1>3. QED
  BY <1>1, <1>2

(* A record's own steps: only a body that is written changes one.          *)
LEMMA EvidenceStands ==
    ASSUME CaptureInv, NEW c \in Conn, RecordStep(c), NEW stem \in DOMAIN bodies
    PROVE  /\ stem \in DOMAIN bodies'
           /\ bodies'[stem] # bodies[stem] => bodies[stem][1] # life /\ stem[1] = started
<1>1. CASE UNCHANGED bodies
  BY <1>1
<1>2. CASE recording[c].at = "body" /\ bodies' = Write(bodies, recording[c])
  BY <1>2, WriteIs
<1>3. QED
  BY <1>1, <1>2
     DEF RecordStep, LoadWritten, CountWritten, TakeNumber, WriteBody, WriteMeta

----------------------------------------------------------------------------
(* Connections                                                             *)

Places == {"closed", "headers", "body", "hook", "resolve", "disarm", "record",
           "reply", "refused"}

Placed == [at : Places, req : Requests \cup {NoRequest}]

(* The credential a refused request lacks is the one of its own path.      *)
LacksItsOwn(req) ==
    /\ req.kind # "health"
    /\ IF req.kind = "installed" /\ cfg.installed
       THEN req.bearer # "installed" /\ ~req.inBody
       ELSE cfg.answer /\ req.bearer # "answer"

(* What holds of a connection wherever it is.                              *)
IsRight(r) ==
    /\ r.at = "hook" => IsWebhook(r.req)
    /\ r.at = "refused" => LacksItsOwn(r.req)

ConnOK ==
    /\ cfg \in Configs
    /\ conn \in [Conn -> Placed]
    /\ IsFiniteSet(Holding) /\ Cardinality(Holding) <= MaxConnections
    /\ \A c \in Conn : IsRight(conn[c])

(* A process that is on its way down has a life left to come back with.    *)
ProcessOK ==
    /\ shed \in BOOLEAN /\ adrift \in BOOLEAN
    /\ process \in {"up", "stopping", "down"}
    /\ process # "up" => life < LastLife

MatchOK == \A c \in Conn : recording[c] # Off => conn[c].at = "record"

HttpInv == CaptureInv /\ ConnOK /\ ProcessOK /\ MatchOK

LEMMA AtIs ==
    ASSUME NEW at \in Places \ {"hook", "refused"}
    PROVE  At(at) \in Placed /\ At(at).at = at /\ IsRight(At(at))
BY DEF At, Placed, IsRight, Places

LEMMA ConnMoves ==
    ASSUME ConnOK, NEW c \in Conn, NEW r \in Placed, IsRight(r),
           conn' = [conn EXCEPT ![c] = r], UNCHANGED cfg,
           conn[c] # Closed \/ r = Closed \/ Cardinality(Holding) < MaxConnections
    PROVE  /\ ConnOK'
           /\ conn'[c] = r /\ \A d \in Conn \ {c} : conn'[d] = conn[d]
<1> USE HttpConstants
<1>1. conn'[c] = r /\ \A d \in Conn \ {c} : conn'[d] = conn[d]
  BY DEF ConnOK
<1>2. conn' \in [Conn -> Placed]
  BY DEF ConnOK
<1>3. Holding' = IF r = Closed THEN Holding \ {c} ELSE Holding \cup {c}
  BY <1>1 DEF Holding
<1>4. c \in Holding <=> conn[c] # Closed
  BY DEF Holding
<1>5. /\ IsFiniteSet(Holding) /\ Cardinality(Holding) \in Nat
      /\ Cardinality(Holding) <= MaxConnections
  BY FS_CardinalityType DEF ConnOK
<1>6. IsFiniteSet(Holding') /\ Cardinality(Holding') <= MaxConnections
  <2>1. CASE r = Closed
    <3>1. /\ IsFiniteSet(Holding \ {c})
          /\ Cardinality(Holding \ {c})
             = IF c \in Holding THEN Cardinality(Holding) - 1 ELSE Cardinality(Holding)
      BY <1>5, AddOne
    <3>2. QED
      BY <1>3, <1>5, <2>1, <3>1
  <2>2. CASE r # Closed
    <3>1. /\ IsFiniteSet(Holding \cup {c})
          /\ Cardinality(Holding \cup {c})
             = IF c \in Holding THEN Cardinality(Holding) ELSE Cardinality(Holding) + 1
      BY <1>5, AddOne
    <3>2. QED
      BY <1>3, <1>4, <1>5, <2>2, <3>1
  <2>3. QED
    BY <2>1, <2>2
<1>7. ASSUME NEW d \in Conn
      PROVE  IsRight(conn[d])'
  <2>1. IsRight(conn[d]) /\ IsRight(r)
    BY <1>1 DEF ConnOK
  <2>2. QED
    BY <2>1 DEF IsRight, IsWebhook, LacksItsOwn
<1>8. QED
  BY <1>1, <1>2, <1>6, <1>7 DEF ConnOK

(* A step to a place that says nothing of the request.                     *)
LEMMA StepIs ==
    ASSUME ConnOK, NEW c \in Conn, NEW at \in Places \ {"hook", "refused"}, Step(c, at),
           UNCHANGED cfg, conn[c].at # "closed" \/ Cardinality(Holding) < MaxConnections
    PROVE  /\ ConnOK'
           /\ conn'[c].at = at /\ \A d \in Conn \ {c} : conn'[d] = conn[d]
<1>1. At(at) \in Placed /\ At(at).at = at /\ IsRight(At(at))
  BY AtIs
<1>2. conn[c] = Closed => conn[c].at = "closed"
  BY DEF Closed, At
<1>3. QED
  BY <1>1, <1>2, ConnMoves DEF Step

(* Every connection ends with the process.                                 *)
LEMMA AllClosed ==
    ASSUME ConnOK, conn' = [c \in Conn |-> Closed], UNCHANGED cfg
    PROVE  ConnOK'
<1>1. Closed \in Placed /\ Closed.at = "closed" /\ IsRight(Closed)
  BY AtIs DEF Closed, Places
<1>2. \A c \in Conn : conn'[c] = Closed
  OBVIOUS
<1>3. Holding' = {}
  BY <1>2 DEF Holding
<1>4. IsFiniteSet(Holding') /\ Cardinality(Holding') <= MaxConnections
  BY <1>3, FS_EmptySet, HttpConstants
<1>5. \A c \in Conn : IsRight(conn[c])'
  BY <1>1, <1>2 DEF IsRight
<1>6. QED
  BY <1>1, <1>4, <1>5 DEF ConnOK

LEMMA ConnStands ==
    ASSUME ConnOK, UNCHANGED <<conn, cfg>>
    PROVE  ConnOK'
<1>1. \A c \in Conn : IsRight(conn[c])'
  BY DEF ConnOK, IsRight, IsWebhook, LacksItsOwn
<1>2. QED
  BY <1>1 DEF ConnOK, Holding

LEMMA HttpInvInit == HttpInit => HttpInv
<1> SUFFICES ASSUME HttpInit
             PROVE  HttpInv
  OBVIOUS
<1>1. CaptureInv
  BY CaptureInvInit DEF HttpInit
<1>2. /\ cfg \in Configs /\ conn = [c \in Conn |-> Closed]
      /\ shed = FALSE /\ adrift = FALSE /\ process = "up"
  BY DEF HttpInit
<1>3. Closed \in Placed /\ Closed.at = "closed" /\ IsRight(Closed)
  BY AtIs DEF Closed, Places
<1>4. Holding = {}
  BY <1>2 DEF Holding
<1>5. ConnOK
  BY <1>2, <1>3, <1>4, FS_EmptySet, HttpConstants DEF ConnOK
<1>6. MatchOK
  BY DEF HttpInit, CaptureInit, MatchOK
<1>7. QED
  BY <1>1, <1>2, <1>5, <1>6 DEF HttpInv, ProcessOK

(* One connection moves on, and no capture does.                           *)
LEMMA ConnKeeps ==
    ASSUME HttpInv, NEW c \in Conn, ConnOK', \A d \in Conn \ {c} : conn'[d] = conn[d],
           conn[c].at # "record" \/ recording[c] = Off,
           UNCHANGED captureVars, process' = process,
           shed' \in BOOLEAN, adrift' \in BOOLEAN
    PROVE  HttpInv'
<1>1. CaptureInv'
  BY CaptureStands DEF HttpInv
<1>2. life' = life /\ recording' = recording
  BY DEF captureVars
<1>3. ProcessOK'
  BY <1>2 DEF HttpInv, ProcessOK
<1>4. ASSUME NEW d \in Conn, recording'[d] # Off
      PROVE  conn'[d].at = "record"
  BY <1>2, <1>4 DEF HttpInv, MatchOK
<1>5. QED
  BY <1>1, <1>3, <1>4 DEF HttpInv, MatchOK

(* ... to a place that says nothing of the request.                        *)
LEMMA StepKeepsAll ==
    ASSUME HttpInv, NEW c \in Conn, NEW at \in Places \ {"hook", "refused"}, Step(c, at),
           conn[c].at # "closed" \/ Cardinality(Holding) < MaxConnections,
           conn[c].at # "record" \/ recording[c] = Off,
           UNCHANGED <<captureVars, cfg, shed, process>>, adrift' \in BOOLEAN
    PROVE  HttpInv'
<1>1. ConnOK' /\ \A d \in Conn \ {c} : conn'[d] = conn[d]
  BY StepIs DEF HttpInv
<1>2. shed' \in BOOLEAN
  BY DEF HttpInv, ProcessOK
<1>3. QED
  BY <1>1, <1>2, ConnKeeps

LEMMA RefuseKeeps ==
    ASSUME HttpInv, NEW c \in Conn, NEW req \in Requests, Refuse(c, req),
           LacksItsOwn(req), conn[c].at \in {"headers", "hook"},
           UNCHANGED <<captureVars, cfg, shed, adrift, process>>
    PROVE  HttpInv'
<1>1. PICK r : r = [at |-> "refused", req |-> req]
  OBVIOUS
<1>2. r \in Placed /\ IsRight(r)
  BY <1>1 DEF Placed, Places, IsRight
<1>3. conn[c] # Closed
  BY DEF Closed, At
<1>4. conn' = [conn EXCEPT ![c] = r]
  BY <1>1 DEF Refuse
<1>5. ConnOK' /\ \A d \in Conn \ {c} : conn'[d] = conn[d]
  BY <1>2, <1>3, <1>4, ConnMoves DEF HttpInv
<1>6. QED
  BY <1>5, ConnKeeps DEF HttpInv, ProcessOK

LEMMA HandleKeeps ==
    ASSUME HttpInv, NEW c \in Conn, Handle(c)
    PROVE  HttpInv'
<1>1. /\ conn[c].at = "headers"
      /\ UNCHANGED <<captureVars, cfg, shed, adrift, process>>
  BY DEF Handle
<1>2. adrift' \in BOOLEAN
  BY <1>1 DEF HttpInv, ProcessOK
<1>3. PICK req \in Requests :
        \E status \in Routes(req) :
          CASE status = 401 -> Refuse(c, req)
            [] status = 0 /\ IsWebhook(req) ->
                  conn' = [conn EXCEPT ![c] = [At("hook") EXCEPT !.req = req]]
            [] status = 0 /\ ~IsWebhook(req) -> Step(c, "body")
            [] status \notin {0, 401} -> Reply(c, status)
  BY DEF Handle
<1>4. PICK status \in Routes(req) :
         /\ status = 401 => Refuse(c, req)
         /\ status = 0 /\ IsWebhook(req) =>
               conn' = [conn EXCEPT ![c] = [At("hook") EXCEPT !.req = req]]
         /\ status = 0 /\ ~IsWebhook(req) => Step(c, "body")
         /\ status \notin {0, 401} => Reply(c, status)
  <2>1. PICK status \in Routes(req) :
          CASE status = 401 -> Refuse(c, req)
            [] status = 0 /\ IsWebhook(req) ->
                  conn' = [conn EXCEPT ![c] = [At("hook") EXCEPT !.req = req]]
            [] status = 0 /\ ~IsWebhook(req) -> Step(c, "body")
            [] status \notin {0, 401} -> Reply(c, status)
    BY <1>3
  <2>2. status = 401 => Refuse(c, req)
    BY <2>1
  <2>3. status = 0 /\ IsWebhook(req) =>
               conn' = [conn EXCEPT ![c] = [At("hook") EXCEPT !.req = req]]
    BY <2>1
  <2>4. status = 0 /\ ~IsWebhook(req) => Step(c, "body")
    BY <2>1
  <2>5. status \notin {0, 401} => Reply(c, status)
    BY <2>1
  <2>6. QED
    BY <2>1, <2>2, <2>3, <2>4, <2>5
<1>5. CASE status = 401
  <2>1. Refuse(c, req)
    BY <1>4, <1>5
  <2>2. /\ req.kind # "health" /\ ~IsWebhook(req) /\ cfg.answer /\ req.bearer # "answer"
    BY <1>5 DEF Routes
  <2>3. LacksItsOwn(req)
    BY <2>2 DEF LacksItsOwn, IsWebhook
  <2>4. QED
    BY <1>1, <2>1, <2>3, RefuseKeeps
<1>6. CASE status = 0 /\ IsWebhook(req)
  <2>1. PICK r : r = [at |-> "hook", req |-> req]
    OBVIOUS
  <2>2. r = [At("hook") EXCEPT !.req = req]
    BY <2>1 DEF At
  <2>3. conn' = [conn EXCEPT ![c] = r]
    BY <1>4, <1>6, <2>2
  <2>4. r \in Placed /\ IsRight(r)
    BY <1>6, <2>1 DEF Placed, Places, IsRight
  <2>5. conn[c] # Closed
    BY <1>1 DEF Closed, At
  <2>6. ConnOK' /\ \A d \in Conn \ {c} : conn'[d] = conn[d]
    BY <1>1, <2>3, <2>4, <2>5, ConnMoves DEF HttpInv
  <2>7. QED
    BY <1>1, <2>6, ConnKeeps DEF HttpInv, ProcessOK
<1>7. CASE status = 0 /\ ~IsWebhook(req)
  <2>1. Step(c, "body")
    BY <1>4, <1>7
  <2>2. "body" \in Places \ {"hook", "refused"}
    BY DEF Places
  <2>3. QED
    BY <1>1, <1>2, <2>1, <2>2, StepKeepsAll
<1>8. CASE status \notin {0, 401}
  <2>1. Step(c, "reply")
    BY <1>4, <1>8 DEF Reply
  <2>2. "reply" \in Places \ {"hook", "refused"}
    BY DEF Places
  <2>3. QED
    BY <1>1, <1>2, <2>1, <2>2, StepKeepsAll
<1>9. QED
  BY <1>5, <1>6, <1>7, <1>8

(* The webhook is refused for the lack of its own token, and of no other.  *)
LEMMA HookBodyKeeps ==
    ASSUME HttpInv, NEW c \in Conn, HookBody(c)
    PROVE  HttpInv'
<1>1. /\ conn[c].at = "hook"
      /\ UNCHANGED <<captureVars, cfg, shed, adrift, process>>
  BY DEF HookBody
<1>2. adrift' \in BOOLEAN /\ {"reply", "disarm"} \subseteq Places \ {"hook", "refused"}
  BY <1>1 DEF HttpInv, ProcessOK, Places
<1>3. PICK req : req = conn[c].req
  OBVIOUS
<1>4. IsWebhook(req) /\ req \in Requests
  <2>1. IsWebhook(req)
    BY <1>1, <1>3 DEF HttpInv, ConnOK, IsRight
  <2>2. req \in Requests \cup {NoRequest}
    BY <1>3 DEF HttpInv, ConnOK, Placed
  <2>3. req # NoRequest
    BY <2>1 DEF NoRequest, IsWebhook
  <2>4. QED
    BY <2>1, <2>2, <2>3
<1>5. CASE Step(c, "reply") \/ Step(c, "disarm")
  BY <1>1, <1>2, <1>5, StepKeepsAll
<1>6. CASE Refuse(c, req) /\ ~(req.bearer = "installed" \/ req.inBody)
  <2>1. LacksItsOwn(req)
    BY <1>4, <1>6 DEF LacksItsOwn, IsWebhook
  <2>2. QED
    BY <1>1, <1>4, <1>6, <2>1, RefuseKeeps
<1>7. QED
  BY <1>3, <1>5, <1>6 DEF HookBody, Reply

LEMMA ResolvedKeeps ==
    ASSUME HttpInv, NEW c \in Conn, Resolved(c)
    PROVE  HttpInv'
<1>1. conn[c].at = "resolve" /\ UNCHANGED <<cfg, shed, adrift, process>>
  BY DEF Resolved
<1>2. {"record", "reply"} \subseteq Places \ {"hook", "refused"}
  BY DEF Places
<1>3. recording[c] = Off
  BY <1>1 DEF HttpInv, MatchOK
<1>4. CASE cfg.capture
  <2>1. Step(c, "record") /\ Record(c)
    BY <1>4 DEF Resolved
  <2>2. CaptureInv'
    BY <1>3, <2>1, RecordKeeps DEF HttpInv
  <2>3. ConnOK' /\ conn'[c].at = "record" /\ \A d \in Conn \ {c} : conn'[d] = conn[d]
    BY <1>1, <1>2, <2>1, StepIs DEF HttpInv
  <2>4. ProcessOK'
    BY <1>1, <2>1 DEF Record, HttpInv, ProcessOK
  <2>5. ASSUME NEW d \in Conn, recording'[d] # Off
        PROVE  conn'[d].at = "record"
    <3>1. CASE d = c
      BY <2>3, <3>1
    <3>2. CASE d # c
      <4>1. recording'[d] = recording[d]
        BY <2>1, <3>2 DEF Record, Move, HttpInv, CaptureInv, RecordingOK
      <4>2. QED
        BY <2>3, <2>5, <3>2, <4>1 DEF HttpInv, MatchOK
    <3>3. QED
      BY <3>1, <3>2
  <2>6. QED
    BY <2>2, <2>3, <2>4, <2>5 DEF HttpInv, MatchOK
<1>5. CASE ~cfg.capture
  <2>1. Step(c, "reply") /\ UNCHANGED captureVars
    BY <1>5 DEF Resolved, Reply
  <2>2. adrift' \in BOOLEAN
    BY <1>1 DEF HttpInv, ProcessOK
  <2>3. QED
    BY <1>1, <1>2, <2>1, <2>2, StepKeepsAll
<1>6. QED
  BY <1>4, <1>5

(* A record's own step: the connection waits in "record" till it is off.   *)
LEMMA RecordOnKeeps ==
    ASSUME HttpInv, NEW c \in Conn, RecordOn(c)
    PROVE  HttpInv'
<1>1. RecordStep(c) /\ UNCHANGED <<cfg, conn, shed, adrift, process>>
  BY DEF RecordOn
<1>2. CaptureInv'
  BY <1>1, StepKeeps DEF HttpInv
<1>3. ConnOK'
  BY <1>1, ConnStands DEF HttpInv
<1>4. /\ life' = life /\ recording[c].at # "off"
      /\ \A d \in Conn \ {c} : recording'[d] = recording[d]
  BY <1>1 DEF RecordStep, LoadWritten, CountWritten, TakeNumber, WriteBody, WriteMeta,
              Move, HttpInv, CaptureInv, RecordingOK
<1>5. conn[c].at = "record"
  BY <1>4, OffIs DEF HttpInv, MatchOK
<1>6. MatchOK'
  BY <1>1, <1>4, <1>5 DEF HttpInv, MatchOK
<1>7. ProcessOK'
  BY <1>1, <1>4 DEF HttpInv, ProcessOK
<1>8. QED
  BY <1>2, <1>3, <1>6, <1>7 DEF HttpInv

(* The end of the process, asked for or not.                               *)
LEMMA ProcessKeeps ==
    ASSUME HttpInv, Stop \/ Exit \/ Restart
    PROVE  HttpInv'
<1>1. CASE Stop
  <2>1. /\ process' = "stopping" /\ life < LastLife /\ Recording = {}
        /\ conn' = [c \in Conn |-> Closed] /\ shed' = FALSE /\ adrift' \in BOOLEAN
        /\ UNCHANGED <<captureVars, cfg>>
    BY <1>1 DEF Stop, HttpInv, ProcessOK
  <2>2. life' = life /\ recording' = recording
    BY <2>1 DEF captureVars
  <2>3. \A c \in Conn : recording[c] = Off
    BY <2>1 DEF Recording, HttpInv, CaptureInv, RecordingOK
  <2>4. CaptureInv' /\ ConnOK'
    BY <2>1, CaptureStands, AllClosed DEF HttpInv
  <2>5. QED
    BY <2>1, <2>2, <2>3, <2>4 DEF HttpInv, ProcessOK, MatchOK
<1>2. CASE Exit
  <2>1. /\ process' = "down" /\ life < LastLife /\ adrift' = FALSE
        /\ conn' = [c \in Conn |-> Closed] /\ shed' = FALSE
        /\ recording' = [c \in Conn |-> Off]
        /\ UNCHANGED <<second, life, started, seq, written, bodies, metas, cfg, missed>>
    BY <1>2 DEF Exit
  <2>2. CaptureInv' /\ ConnOK'
    BY <2>1, CutOffKeeps, AllClosed DEF HttpInv
  <2>3. QED
    BY <2>1, <2>2 DEF HttpInv, ProcessOK, MatchOK
<1>3. CASE Restart
  <2>1. process = "down" /\ process' = "up" /\ CaptureRestart
        /\ UNCHANGED <<cfg, conn, shed, adrift>>
    BY <1>3 DEF Restart
  <2>2. life < LastLife
    BY <2>1 DEF HttpInv, ProcessOK
  <2>3. CaptureInv' /\ ConnOK'
    BY <2>1, <2>2, RestartKeeps, ConnStands DEF HttpInv
  <2>4. \A c \in Conn : recording'[c] = Off
    BY <2>1 DEF CaptureRestart
  <2>5. QED
    BY <2>1, <2>3, <2>4 DEF HttpInv, ProcessOK, MatchOK
<1>4. QED
  BY <1>1, <1>2, <1>3

LEMMA HttpInvNext == HttpInv /\ [HttpNext]_httpVars => HttpInv'
<1> SUFFICES ASSUME HttpInv, [HttpNext]_httpVars
             PROVE  HttpInv'
  OBVIOUS
<1>1. shed \in BOOLEAN /\ adrift \in BOOLEAN
  BY DEF HttpInv, ProcessOK
<1>2. {"headers", "resolve", "reply", "closed"} \subseteq Places \ {"hook", "refused"}
  BY DEF Places
<1>3. CASE UNCHANGED httpVars
  <2>1. CaptureInv' /\ ConnOK'
    BY <1>3, CaptureStands, ConnStands DEF httpVars, HttpInv
  <2>2. ProcessOK' /\ MatchOK'
    BY <1>3 DEF httpVars, captureVars, HttpInv, ProcessOK, MatchOK
  <2>3. QED
    BY <2>1, <2>2 DEF HttpInv
<1>4. ASSUME NEW c \in Conn, Accept(c)
      PROVE  HttpInv'
  <2>1. /\ Step(c, "headers") /\ Cardinality(Holding) < MaxConnections
        /\ conn[c].at # "record"
        /\ UNCHANGED <<captureVars, cfg, shed, adrift, process>>
    BY <1>4 DEF Accept, Closed, At
  <2>2. QED
    BY <1>1, <1>2, <2>1, StepKeepsAll
<1>5. ASSUME NEW c \in Conn, Body(c) \/ WorkEnds(c) \/ Ends(c)
      PROVE  HttpInv'
  <2>1. /\ Step(c, "resolve") \/ Step(c, "reply") \/ Step(c, "closed")
        /\ conn[c].at \notin {"closed", "record"}
        /\ UNCHANGED <<captureVars, cfg, shed, adrift, process>>
    BY <1>5 DEF Body, WorkEnds, Ends, Reply, Step, Closed
  <2>2. QED
    BY <1>1, <1>2, <2>1, StepKeepsAll
<1>6. ASSUME NEW c \in Conn, Recorded(c)
      PROVE  HttpInv'
  <2>1. /\ Step(c, "reply") /\ recording[c] = Off /\ conn[c].at = "record"
        /\ UNCHANGED <<captureVars, cfg, shed, adrift, process>>
    BY <1>6 DEF Recorded, Reply
  <2>2. QED
    BY <1>1, <1>2, <2>1, StepKeepsAll
<1>7. ASSUME NEW c \in Conn, Dropped(c)
      PROVE  HttpInv'
  <2>1. /\ Step(c, "closed") /\ conn[c].at \notin {"closed", "record"}
        /\ adrift' \in BOOLEAN
        /\ UNCHANGED <<captureVars, cfg, shed, process>>
    BY <1>1, <1>7 DEF Dropped, Step, Closed
  <2>2. QED
    BY <1>2, <2>1, StepKeepsAll
<1>8. CASE Shed \/ ShedEnds \/ AdriftEnds
  <2>1. /\ shed' \in BOOLEAN /\ adrift' \in BOOLEAN
        /\ UNCHANGED <<captureVars, cfg, conn, process>>
    BY <1>1, <1>8 DEF Shed, ShedEnds, AdriftEnds
  <2>2. CaptureInv' /\ ConnOK'
    BY <2>1, CaptureStands, ConnStands DEF HttpInv
  <2>3. QED
    BY <2>1, <2>2 DEF captureVars, HttpInv, ProcessOK, MatchOK
<1>9. CASE HttpTick
  <2>1. CaptureTick /\ UNCHANGED <<cfg, conn, shed, adrift, process>>
    BY <1>9 DEF HttpTick
  <2>2. CaptureInv' /\ ConnOK'
    BY <2>1, TickKeeps, ConnStands DEF HttpInv
  <2>3. QED
    BY <2>1, <2>2 DEF CaptureTick, HttpInv, ProcessOK, MatchOK
<1>10. QED
  BY <1>3, <1>4, <1>5, <1>6, <1>7, <1>8, <1>9, HandleKeeps, HookBodyKeeps, ResolvedKeeps,
     RecordOnKeeps, ProcessKeeps DEF HttpNext

LEMMA HttpHolds ==
    ASSUME HttpInv
    PROVE  HttpTypeOK /\ RefusedForItsOwnToken /\ CapturesBounded
<1>1. CaptureTypeOK /\ CapturesBounded
  BY CapturesAreBounded DEF HttpInv
<1>2. \A c \in Conn : conn[c].req \in Requests \cup {NoRequest}
  BY DEF HttpInv, ConnOK, Placed
<1>3. HttpTypeOK
  BY <1>1, <1>2 DEF HttpInv, ConnOK, ProcessOK, MatchOK, HttpTypeOK
<1>4. RefusedForItsOwnToken
  BY DEF HttpInv, ConnOK, IsRight, LacksItsOwn, RefusedForItsOwnToken
<1>5. QED
  BY <1>1, <1>3, <1>4

(* No body goes, whatever step it is.                                      *)
LEMMA HttpKeepsEvidence ==
    ASSUME HttpInv, [HttpNext]_httpVars, NEW stem \in DOMAIN bodies
    PROVE  /\ stem \in DOMAIN bodies'
           /\ bodies'[stem] # bodies[stem] => bodies[stem][1] # life /\ stem[1] = started
<1>1. ASSUME NEW c \in Conn, RecordOn(c)
      PROVE  /\ stem \in DOMAIN bodies'
             /\ bodies'[stem] # bodies[stem] => bodies[stem][1] # life /\ stem[1] = started
  BY <1>1, EvidenceStands DEF RecordOn, HttpInv
<1>2. CASE bodies' = bodies
  BY <1>2
<1>3. QED
  BY ZenonT(60), <1>1, <1>2
     DEF HttpNext, httpVars, captureVars, Accept, Handle, Body, HookBody, Resolved, Record,
         WorkEnds, Recorded, Ends, Dropped, Shed, ShedEnds, AdriftEnds, Stop, Exit, Restart,
         CaptureRestart, HttpTick, CaptureTick

----------------------------------------------------------------------------
(* From main to the accept loop                                            *)

(* The stages that come after one that takes or gives up something.        *)
PastUid == {"verify", "serving"}
PastGid == PastUid \cup {"uid"}
PastGroups == PastGid \cup {"gid"}
PastTftp == PastGroups \cup {"lookup", "groups"}
PastMedia == PastTftp \cup {"boot", "tftp"}
PastAdmin == PastMedia \cup {"media"}
PastMain == PastAdmin \cup {"store", "admin"}
AllStages == PastMain \cup {"config", "log", "validate", "dispatch", "main"}

LEMMA StagesAre ==
    /\ Len(Stages) = 16
    /\ \A i \in 1..16 : \A j \in 1..16 : Stages[i] = Stages[j] => i = j
    /\ ToSet(Stages) = AllStages
<1>1. Len(Stages) = 16 /\ DOMAIN Stages = 1..16
  BY DEF Stages
<1>2. \A i \in 1..16 : \A j \in 1..16 : Stages[i] = Stages[j] => i = j
  BY DEF Stages
<1>3. ToSet(Stages) = AllStages
  BY <1>1 DEF ToSet, Stages, AllStages, PastMain, PastAdmin, PastMedia, PastTftp, PastGroups,
              PastGid, PastUid
<1>4. QED
  BY <1>1, <1>2, <1>3

LEMMA NextIs ==
    ASSUME NEW i \in 2..16, stage = Stages[i - 1], NextStage
    PROVE  stage' = Stages[i]
<1> DEFINE P(j) == Stages[j - 1] = stage
           k == CHOOSE j \in 2..16 : P(j)
<1>1. stage' = Stages[k]
  BY StagesAre DEF NextStage
<1>2. k \in 2..16 /\ P(k)
  BY DEF P
<1>3. i - 1 \in 1..16 /\ k - 1 \in 1..16
  BY <1>2
<1>4. Stages[k - 1] = Stages[i - 1]
  BY <1>2
<1> HIDE DEF k, P
<1>5. k - 1 = i - 1
  BY <1>3, <1>4, StagesAre
<1>6. k = i
  BY <1>2, <1>5
<1>7. QED
  BY <1>1, <1>6

LEMMA Follows ==
    ASSUME NextStage
    PROVE  /\ stage = "config" => stage' = "log"
           /\ stage = "log" => stage' = "validate"
           /\ stage = "validate" => stage' = "dispatch"
           /\ stage = "dispatch" => stage' = "main"
           /\ stage = "main" => stage' = "store"
           /\ stage = "store" => stage' = "admin"
           /\ stage = "admin" => stage' = "media"
           /\ stage = "media" => stage' = "boot"
           /\ stage = "boot" => stage' = "tftp"
           /\ stage = "tftp" => stage' = "lookup"
           /\ stage = "lookup" => stage' = "groups"
           /\ stage = "groups" => stage' = "gid"
           /\ stage = "gid" => stage' = "uid"
           /\ stage = "uid" => stage' = "verify"
           /\ stage = "verify" => stage' = "serving"
<1>1. \A i \in 2..16 : stage = Stages[i - 1] => stage' = Stages[i]
  BY NextIs
<1>2. /\ stage = Stages[1] => stage' = Stages[2]
      /\ stage = Stages[2] => stage' = Stages[3]
      /\ stage = Stages[3] => stage' = Stages[4]
      /\ stage = Stages[4] => stage' = Stages[5]
      /\ stage = Stages[5] => stage' = Stages[6]
      /\ stage = Stages[6] => stage' = Stages[7]
      /\ stage = Stages[7] => stage' = Stages[8]
      /\ stage = Stages[8] => stage' = Stages[9]
  BY <1>1
<1>3. /\ stage = Stages[9] => stage' = Stages[10]
      /\ stage = Stages[10] => stage' = Stages[11]
      /\ stage = Stages[11] => stage' = Stages[12]
      /\ stage = Stages[12] => stage' = Stages[13]
      /\ stage = Stages[13] => stage' = Stages[14]
      /\ stage = Stages[14] => stage' = Stages[15]
      /\ stage = Stages[15] => stage' = Stages[16]
  BY <1>1
<1>4. QED
  BY <1>2, <1>3 DEF Stages

(* What has been bound, and what has been given up, at each stage.         *)
StartInv ==
    /\ asked \in Settings /\ stage \in AllStages /\ exit \in {"", "success", "failure"}
    /\ bound \subseteq Optional \cup {"main"}
    /\ ids \in [uid : {"root", "service"}, gid : {"root", "service"},
                groups : {"root", "service"}]
    /\ stage \notin PastGroups => ids = IF asked.root THEN Root ELSE Service
    /\ stage \in PastMain => "main" \in bound
    /\ stage \in PastAdmin /\ "admin" \in asked.on => "admin" \in bound
    /\ stage \in PastMedia /\ "media" \in asked.on => "media" \in bound
    /\ stage \in PastTftp /\ "tftp" \in asked.on =>
          "tftp" \in bound \/ "tftp" \in asked.taken \/ ~asked.root
    /\ stage \in PastGroups /\ Dropping => ids.groups = "service"
    /\ stage \in PastGid /\ Dropping => ids.gid = "service"
    /\ stage \in PastUid /\ asked.user => ids.uid = "service"

LEMMA StartInvInit == StartInit => StartInv
<1> SUFFICES ASSUME StartInit
             PROVE  StartInv
  OBVIOUS
<1>1. asked \in Settings /\ stage = "config" /\ bound = {} /\ exit = ""
  BY DEF StartInit
<1>2. ids = IF asked.root THEN Root ELSE Service
  BY DEF StartInit
<1>3. stage \notin PastMain /\ stage \in AllStages
  BY <1>1 DEF AllStages, PastMain, PastAdmin, PastMedia, PastTftp, PastGroups, PastGid, PastUid
<1>4. PastUid \subseteq PastGid /\ PastGid \subseteq PastGroups /\ PastGroups \subseteq PastTftp
  BY DEF PastTftp, PastGroups, PastGid
<1>5. PastTftp \subseteq PastMedia /\ PastMedia \subseteq PastAdmin /\ PastAdmin \subseteq PastMain
  BY DEF PastMain, PastAdmin, PastMedia
<1>6. QED
  BY <1>1, <1>2, <1>3, <1>4, <1>5 DEF StartInv, Root, Service

LEMMA StartStands ==
    ASSUME StartInv, UNCHANGED <<asked, stage, bound, ids>>,
           exit' \in {"", "success", "failure"}
    PROVE  StartInv'
BY ZenonT(60) DEF StartInv, Dropping, AllStages, PastMain, PastAdmin, PastMedia, PastTftp, PastGroups,
       PastGid, PastUid

LEMMA StartInvNext == StartInv /\ [StartNext]_startVars => StartInv'
<1> SUFFICES ASSUME StartInv, [StartNext]_startVars
             PROVE  StartInv'
  OBVIOUS
<1> USE DEF Now
<1>1. CASE UNCHANGED startVars
  BY <1>1, StartStands DEF startVars, StartInv
<1>2. ASSUME Fails \/ Succeeds
      PROVE  StartInv'
  BY <1>2, StartStands DEF Fails, Succeeds
(* A stage that changes nothing but the stage.                             *)
<1>3. ASSUME Goes, stage \in {"config", "log", "validate", "dispatch", "store", "boot", "lookup"}
      PROVE  StartInv'
  BY ZenonT(60), <1>3, Follows
     DEF Goes, StartInv, Dropping, AllStages, PastMain, PastAdmin, PastMedia, PastTftp,
         PastGroups, PastGid, PastUid
<1>4. CASE Configure \/ OpenLog \/ Validate \/ Dispatch \/ OpenStore \/ FindBootDir \/ LookUp
  BY <1>2, <1>3, <1>4 DEF Configure, OpenLog, Validate, Dispatch, OpenStore, FindBootDir, LookUp
<1>5. CASE BindMain
  <2>1. CASE Fails
    BY <1>2, <2>1
  <2>2. CASE ~Fails
    <3>1. /\ stage = "main" /\ stage' = "store" /\ bound' = bound \cup {"main"}
          /\ UNCHANGED <<asked, ids, exit>>
      BY <1>5, <2>2, Follows DEF BindMain, Bind
    <3>2. QED
      BY <3>1 DEF StartInv, Dropping, AllStages, PastMain, PastAdmin, PastMedia,
         PastTftp, PastGroups, PastGid, PastUid
  <2>3. QED
    BY <2>1, <2>2
<1>6. CASE BindAdmin
  <2>1. CASE Fails
    BY <1>2, <2>1
  <2>2. CASE ~Fails
    <3>1. /\ stage = "admin" /\ stage' = "media" /\ UNCHANGED <<asked, ids, exit>>
          /\ bound' = IF "admin" \in asked.on THEN bound \cup {"admin"} ELSE bound
      BY <1>6, <2>2, Follows DEF BindAdmin, Bind, Goes
    <3>2. bound' \subseteq Optional \cup {"main"} /\ bound \subseteq bound'
          /\ ("admin" \in asked.on => "admin" \in bound')
      BY <3>1 DEF StartInv, Optional
    <3>3. QED
      BY <3>1, <3>2 DEF StartInv, Dropping, AllStages, PastMain, PastAdmin, PastMedia,
         PastTftp, PastGroups, PastGid, PastUid
  <2>3. QED
    BY <2>1, <2>2
<1>7. CASE BindMedia
  <2>1. CASE Fails
    BY <1>2, <2>1
  <2>2. CASE ~Fails
    <3>1. /\ stage = "media" /\ stage' = "boot" /\ UNCHANGED <<asked, ids, exit>>
          /\ bound' = IF "media" \in asked.on THEN bound \cup {"media"} ELSE bound
      BY <1>7, <2>2, Follows DEF BindMedia, Bind, Goes
    <3>2. bound' \subseteq Optional \cup {"main"} /\ bound \subseteq bound'
          /\ ("media" \in asked.on => "media" \in bound')
      BY <3>1 DEF StartInv, Optional
    <3>3. QED
      BY <3>1, <3>2 DEF StartInv, Dropping, AllStages, PastMain, PastAdmin, PastMedia,
         PastTftp, PastGroups, PastGid, PastUid
  <2>3. QED
    BY <2>1, <2>2
(* The port is lost only to another process, or for never having been root.*)
<1>8. CASE BindTftp
  <2>1. /\ stage = "tftp" /\ stage' = "lookup" /\ UNCHANGED <<asked, ids, exit>>
        /\ bound' = IF "tftp" \in asked.on /\ CanBind("tftp") THEN bound \cup {"tftp"} ELSE bound
    BY <1>8, Follows DEF BindTftp
  <2>2. ids = IF asked.root THEN Root ELSE Service
    BY <2>1 DEF StartInv, PastGroups, PastGid, PastUid
  <2>3. CanBind("tftp") \/ "tftp" \in asked.taken \/ ~asked.root
    BY <2>2 DEF CanBind, Root
  <2>4. /\ bound' \subseteq Optional \cup {"main"} /\ bound \subseteq bound'
        /\ "tftp" \in asked.on => "tftp" \in bound' \/ "tftp" \in asked.taken \/ ~asked.root
    BY <2>1, <2>3 DEF StartInv, Optional
  <2>5. QED
    BY <2>1, <2>4 DEF StartInv, Dropping, AllStages, PastMain, PastAdmin, PastMedia,
       PastTftp, PastGroups, PastGid, PastUid
<1>9. CASE DropGroups
  <2>1. CASE Fails
    BY <1>2, <2>1
  <2>2. CASE ~Fails
    <3>1. /\ stage = "groups" /\ stage' = "gid" /\ UNCHANGED <<asked, bound, exit>>
          /\ ids' = IF Dropping THEN [ids EXCEPT !["groups"] = "service"] ELSE ids
      BY <1>9, <2>2, Follows DEF DropGroups, Surrender, Goes
    <3>2. /\ ids' \in [uid : {"root", "service"}, gid : {"root", "service"},
                      groups : {"root", "service"}]
          /\ Dropping => ids'.groups = "service"
      BY <3>1 DEF StartInv
    <3>3. QED
      BY <3>1, <3>2 DEF StartInv, Dropping, AllStages, PastMain, PastAdmin, PastMedia,
         PastTftp, PastGroups, PastGid, PastUid
  <2>3. QED
    BY <2>1, <2>2
<1>10. CASE DropGroup
  <2>1. CASE Fails
    BY <1>2, <2>1
  <2>2. CASE ~Fails
    <3>1. /\ stage = "gid" /\ stage' = "uid" /\ UNCHANGED <<asked, bound, exit>>
          /\ ids' = IF Dropping THEN [ids EXCEPT !["gid"] = "service"] ELSE ids
      BY <1>10, <2>2, Follows DEF DropGroup, Surrender, Goes
    <3>2. /\ ids' \in [uid : {"root", "service"}, gid : {"root", "service"},
                      groups : {"root", "service"}]
          /\ Dropping => ids'.gid = "service" /\ ids'.groups = "service"
      BY <3>1 DEF StartInv, PastGroups
    <3>3. QED
      BY <3>1, <3>2 DEF StartInv, Dropping, AllStages, PastMain, PastAdmin, PastMedia,
         PastTftp, PastGroups, PastGid, PastUid
  <2>3. QED
    BY <2>1, <2>2
<1>11. CASE DropUser
  <2>1. CASE Fails
    BY <1>2, <2>1
  <2>2. CASE ~Fails
    <3>1. /\ stage = "uid" /\ stage' = "verify" /\ UNCHANGED <<asked, bound, exit>>
          /\ ids' = IF asked.user THEN [ids EXCEPT !["uid"] = "service"] ELSE ids
      BY <1>11, <2>2, Follows DEF DropUser, Surrender, Goes
    <3>2. /\ ids' \in [uid : {"root", "service"}, gid : {"root", "service"},
                      groups : {"root", "service"}]
          /\ asked.user => ids'.uid = "service"
          /\ ids'.gid = ids.gid /\ ids'.groups = ids.groups
      BY <3>1 DEF StartInv
    <3>3. QED
      BY <3>1, <3>2 DEF StartInv, Dropping, AllStages, PastMain, PastAdmin, PastMedia,
         PastTftp, PastGroups, PastGid, PastUid
  <2>3. QED
    BY <2>1, <2>2
<1>12. CASE Verify
  <2>1. CASE Fails
    BY <1>2, <2>1
  <2>2. CASE ~Fails
    <3>1. stage = "verify" /\ stage' = "serving" /\ UNCHANGED <<asked, bound, ids, exit>>
      BY <1>12, <2>2, Follows DEF Verify, Goes
    <3>2. QED
      BY <3>1 DEF StartInv, Dropping, AllStages, PastMain, PastAdmin, PastMedia,
         PastTftp, PastGroups, PastGid, PastUid
  <2>3. QED
    BY <2>1, <2>2
<1>13. CASE Signal
  BY <1>2, <1>13 DEF Signal
<1>14. QED
  BY <1>1, <1>4, <1>5, <1>6, <1>7, <1>8, <1>9, <1>10, <1>11, <1>12, <1>13 DEF StartNext

LEMMA StartHolds ==
    ASSUME StartInv
    PROVE  StartTypeOK /\ ServingIsWhole
<1>1. ids \in [{"uid", "gid", "groups"} -> {"root", "service"}]
  BY DEF StartInv
<1>2. StartTypeOK
  BY <1>1, StagesAre DEF StartInv, StartTypeOK
<1>3. ASSUME Now("serving")
      PROVE  /\ {"main"} \cup asked.on \subseteq bound \cup
                    {s \in {"tftp"} : s \in asked.taken \/ ~asked.root}
             /\ asked.user => ids = Service
             /\ asked.group => ids.gid = "service" /\ ids.groups = "service"
  <2>1. /\ stage \in PastMain /\ stage \in PastAdmin /\ stage \in PastMedia
        /\ stage \in PastTftp /\ stage \in PastGroups /\ stage \in PastGid /\ stage \in PastUid
    BY <1>3 DEF Now, PastMain, PastAdmin, PastMedia, PastTftp, PastGroups, PastGid, PastUid
  <2>2. asked.on \subseteq {"admin", "media", "tftp"}
    BY DEF StartInv, Settings, Optional
  <2>3. {"main"} \cup asked.on \subseteq bound \cup
            {s \in {"tftp"} : s \in asked.taken \/ ~asked.root}
    BY <2>1, <2>2 DEF StartInv
  <2>4. asked.user => ids.uid = "service" /\ ids.gid = "service" /\ ids.groups = "service"
    BY <2>1 DEF StartInv, Dropping
  <2>5. asked.group => ids.gid = "service" /\ ids.groups = "service"
    BY <2>1 DEF StartInv, Dropping
  <2>6. ids = [uid |-> ids.uid, gid |-> ids.gid, groups |-> ids.groups]
    BY DEF StartInv
  <2>7. QED
    BY <2>3, <2>4, <2>5, <2>6 DEF Service
<1>4. QED
  BY <1>2, <1>3 DEF ServingIsWhole

----------------------------------------------------------------------------
(* Theorems                                                                *)

(* The limits of TFTP are kept and every slot is counted where it is held  *)
(* (boot/tftp.rs, `admit` and `release`): what the map says of a peer is   *)
(* what its tasks hold, never more than its share, and nothing when there  *)
(* are none, however the tasks of any number of peers interleave.          *)
THEOREM SlotsAreCountedAlways ==
    ASSUME IsFiniteSet(Peer)
    PROVE  ServeSpec => []SlotsAreCounted
<1>1. ServeInv => SlotsAreCounted
  BY SlotsCounted
<1>2. QED
  BY <1>1, ServeInvInit, ServeInvNext, PTL DEF ServeSpec

(* A credential that opens its own path is never refused for the lack of   *)
(* another one (main.rs, the order of the tests in `handle`).              *)
THEOREM RefusedForItsOwnTokenAlways == HttpSpec => []RefusedForItsOwnToken
<1>1. HttpInv => RefusedForItsOwnToken
  BY HttpHolds
<1>2. QED
  BY <1>1, HttpInvInit, HttpInvNext, PTL DEF HttpSpec

(* The directory of captures passes its cap by less than the number of     *)
(* worker threads and the most bodies any restart could not count, after   *)
(* any number of restarts and wherever a process was killed (capture.rs,   *)
(* `record`, and `new` with the listing that fails and counts for none).   *)
THEOREM CapturesBoundedAlways == HttpSpec => []CapturesBounded
<1>1. HttpInv => CapturesBounded
  BY HttpHolds
<1>2. QED
  BY <1>1, HttpInvInit, HttpInvNext, PTL DEF HttpSpec

(* Nothing that was captured is deleted, and it is written over only by a  *)
(* later life that began within the second of its name (capture.rs).       *)
THEOREM EvidenceKeptAlways == HttpSpec => EvidenceKept
<1>1. HttpInv /\ [HttpNext]_httpVars
      => [\A stem \in DOMAIN bodies :
            /\ stem \in DOMAIN bodies'
            /\ bodies'[stem] # bodies[stem] =>
                  /\ bodies[stem][1] # life
                  /\ stem[1] = started]_captureVars
  BY HttpKeepsEvidence
<1>2. QED
  BY <1>1, HttpInvInit, HttpInvNext, PTL DEF HttpSpec, EvidenceKept

(* A server that accepts holds every socket it was asked for, but for a    *)
(* TFTP port it could not have, and none of the identities it was to give  *)
(* up, whatever the configuration and whichever steps failed on the way    *)
(* (main.rs; boot/privileges.rs, `drop_to`).                               *)
THEOREM ServingIsWholeAlways == StartSpec => []ServingIsWhole
<1>1. StartInv => ServingIsWhole
  BY StartHolds
<1>2. QED
  BY <1>1, StartInvInit, StartInvNext, PTL DEF StartSpec

(* Side by side the parts keep what each keeps alone, and their types.     *)
ServerInv == GuardInv /\ HttpInv /\ ServeInv /\ StartInv

LEMMA ServerInvInit ==
    ASSUME IsFiniteSet(Peer)
    PROVE  Init => ServerInv
BY GuardInvInit, HttpInvInit, ServeInvInit, StartInvInit DEF Init, ServerInv

LEMMA ServerInvNext ==
    ASSUME IsFiniteSet(Peer)
    PROVE  ServerInv /\ [Next]_vars => ServerInv'
<1>1. [Next]_vars => /\ [GuardNext]_guardVars /\ [HttpNext]_httpVars
                     /\ [ServeNext]_serveVars /\ [StartNext]_startVars
  BY DEF Next, vars
<1>2. QED
  BY <1>1, GuardInvNext, HttpInvNext, ServeInvNext, StartInvNext DEF ServerInv

(* The type invariant of the four parts, which says as well that permits   *)
(* are never overdrawn and that only a connection that waits for it has a  *)
(* record under way.                                                       *)
THEOREM TypeCorrect ==
    ASSUME IsFiniteSet(Peer)
    PROVE  Spec => []TypeOK
<1>1. ServerInv => TypeOK
  BY HttpHolds, SlotsCounted, StartHolds DEF ServerInv, GuardInv, TypeOK
<1>2. QED
  BY <1>1, ServerInvInit, ServerInvNext, PTL DEF Spec

(* The promises of the parts, for the behaviours the run checks.           *)
THEOREM ServerKeepsItsPromises ==
    ASSUME IsFiniteSet(Peer)
    PROVE  Spec => [](/\ SlotsAreCounted /\ RefusedForItsOwnToken
                      /\ CapturesBounded /\ ServingIsWhole)
<1>1. ServerInv => /\ SlotsAreCounted /\ RefusedForItsOwnToken
                   /\ CapturesBounded /\ ServingIsWhole
  BY HttpHolds, SlotsCounted, StartHolds DEF ServerInv
<1>2. QED
  BY <1>1, ServerInvInit, ServerInvNext, PTL DEF Spec
=============================================================================
