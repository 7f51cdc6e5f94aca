--------------------------- MODULE AnswersProofs ---------------------------
(***************************************************************************)
(* Answers holds its safety properties for every number of threads, every  *)
(* content of the store and every bound.                                   *)
(*                                                                         *)
(* The two facts the cache rests on are that nothing can be cached, or be  *)
(* on its way into the cache, that is older than its version promises      *)
(* (Honours), and that whatever a listing misses has happened since it was *)
(* read (FreshInv).  Both need the mutex: between a snapshot and its       *)
(* publication no other thread publishes or invalidates.                   *)
(***************************************************************************)
EXTENDS Answers, TLAPS

\* The mutex is held exactly by a thread between its snapshot and Publish.
LockInv ==
    /\ holder # Nothing => call[holder].at = "loaded"
    /\ \A t \in Threads : call[t].at = "loaded" => holder = t

\* Nobody has read a version, or is owed an epoch, that does not exist yet.
PastInv ==
    /\ promised <= store.epoch
    /\ cached # Nothing => cached.version <= version
    /\ \A t \in Threads :
          /\ write[t].epoch <= store.epoch
          /\ call[t].version <= version
          /\ call[t].floor <= promised

\* A listing kept under version v is no older than anyone who may be given it
\* for v is owed: a caller to come, and each that has read its version.
Honours(v, listing) ==
    /\ v = version \/ backend = "file" => listing.epoch >= promised
    /\ \A u \in Threads :
          call[u].at = "versioned" /\ (v = call[u].version \/ backend = "file")
             => listing.epoch >= call[u].floor

HonourInv ==
    /\ cached # Nothing => Honours(cached.version, cached.listing)
    /\ \A t \in Threads :
          call[t].at = "loaded" =>
             /\ Honours(call[t].version, call[t].listing)
             /\ call[t].listing.epoch >= call[t].floor

\* What a listing misses happened after it was read: at most ticks ago.
MissesOnly(listing, ticks) ==
    \A n \in (listing.epoch + 1)..store.epoch : since[n] <= ticks

FreshInv ==
    /\ cached # Nothing => MissesOnly(cached.listing, cached.age + LoadTicks)
    /\ \A t \in Threads :
          call[t].at = "loaded" => MissesOnly(call[t].listing, loading)

OwedInv == LockInv /\ PastInv /\ HonourInv /\ OwedIsServed

----------------------------------------------------------------------------
(* A call that moves on with a listing in hand is still a call. *)
LEMMA CallWithListing ==
    ASSUME NEW c \in Calls, NEW a \in {"loaded", "served"}, NEW l \in Snapshots
    PROVE  [c EXCEPT !.at = a, !.listing = l] \in Calls
BY DEF Calls

(* A change, and a tick, leave the history of changes well typed. *)
LEMMA SinceTyped ==
    ASSUME since \in [1..MaxEpoch -> 0..Horizon],
           (\E d \in AnswerSets : Changes(d)) \/ Tick
    PROVE  since' \in [1..MaxEpoch -> 0..Horizon]
<1>1. 0 \in 0..Horizon
  BY AnswersAssumption DEF Horizon
<1>2. ASSUME NEW d \in AnswerSets, Changes(d)
      PROVE  since' \in [1..MaxEpoch -> 0..Horizon]
  BY <1>1, <1>2 DEF Changes
<1>3. CASE Tick
  <2>1. \A n \in 1..MaxEpoch : Later(since[n], Horizon) \in 0..Horizon
    BY AnswersAssumption DEF Later, Horizon
  <2>2. QED
    BY <1>1, <1>3, <2>1 DEF Tick
<1>4. QED
  BY <1>2, <1>3

(* The type invariant: every variable of Answers keeps its type. *)
THEOREM TypeCorrect == Spec => []TypeOK
<1>1. Init => TypeOK
  BY AnswersAssumption DEF Init, TypeOK, Idle, NoWrite, Calls, Writes, Snapshots, Horizon
<1>2. TypeOK /\ [Next]_vars => TypeOK'
  <2> SUFFICES ASSUME TypeOK, [Next]_vars
               PROVE  TypeOK'
    OBVIOUS
  <2> USE AnswersAssumption DEF TypeOK
  <2>1. ASSUME NEW t \in Threads, ReadVersion(t)
        PROVE  TypeOK'
    BY <2>1 DEF ReadVersion, Goes, Calls
  <2>2. ASSUME NEW t \in Threads, Hit(t)
        PROVE  TypeOK'
    <3>1. cached.listing \in Snapshots
      BY <2>2 DEF Hit, Valid, Entries
    <3>2. call[t] \in Calls
      OBVIOUS
    <3>3. [call[t] EXCEPT !.at = "served", !.listing = cached.listing] \in Calls
      BY <3>1, <3>2, CallWithListing
    <3>4. QED
      BY <2>2, <3>1, <3>3 DEF Hit, Goes
  <2>3. ASSUME NEW t \in Threads, Load(t)
        PROVE  TypeOK'
    <3>1. call[t] \in Calls
      OBVIOUS
    <3>2. [call[t] EXCEPT !.at = "loaded", !.listing = store] \in Calls
      BY <3>1, CallWithListing
    <3>3. QED
      BY <2>3, <3>2 DEF Load, Goes
  <2>4. ASSUME NEW t \in Threads, LoadFails(t)
        PROVE  TypeOK'
    BY <2>4 DEF LoadFails, Goes, Calls
  <2>5. ASSUME NEW t \in Threads, Publish(t)
        PROVE  TypeOK'
    <3>1. cached' \in Entries
      BY <2>5 DEF Publish, Entries, Calls
    <3>2. call' \in [Threads -> Calls]
      BY <2>5 DEF Publish, Goes, Calls
    <3>3. \A u \in Threads :
             call'[u].at \in {"loaded", "served"} => call'[u].listing # Nothing
      BY <2>5 DEF Publish, Goes, Calls
    <3>4. QED
      BY <2>5, <3>1, <3>2, <3>3 DEF Publish
  <2>6. ASSUME NEW t \in Threads, Return(t)
        PROVE  TypeOK'
    BY <2>6 DEF Return, Goes, Idle, Calls
  <2>7. ASSUME NEW t \in Threads, Invalidate(t)
        PROVE  TypeOK'
    BY <2>7 DEF Invalidate, Snapshots
  <2>8. ASSUME NEW t \in Threads, CreateIdentity(t)
        PROVE  TypeOK'
    <3>1. version' \in Nat
      BY <2>8 DEF CreateIdentity, MtimeMoves
    <3>2. write' \in [Threads -> Writes]
      BY <2>8 DEF CreateIdentity, Writes
    <3>3. QED
      BY <2>8, <3>1, <3>2 DEF CreateIdentity
  <2>9. ASSUME NEW t \in Threads, NEW d \in AnswerSets, Apply(t, d)
        PROVE  TypeOK'
    <3>1. since' \in [1..MaxEpoch -> 0..Horizon]
      BY <2>9, SinceTyped DEF Apply
    <3>2. store' \in Snapshots /\ write' \in [Threads -> Writes]
      BY <2>9 DEF Apply, Changes, Snapshots, Writes
    <3>3. QED
      BY <2>9, <3>1, <3>2 DEF Apply
  <2>10. ASSUME NEW t \in Threads, Finish(t)
         PROVE  TypeOK'
    BY <2>10 DEF Finish, MtimeMoves, NoWrite, Writes
  <2>11. ASSUME NEW d \in AnswerSets, ForeignEdit(d)
         PROVE  TypeOK'
    <3>1. since' \in [1..MaxEpoch -> 0..Horizon]
      BY <2>11, SinceTyped DEF ForeignEdit
    <3>2. store' \in Snapshots /\ version' \in Nat
      BY <2>11 DEF ForeignEdit, MtimeMoves, Changes, Snapshots
    <3>3. QED
      BY <2>11, <3>1, <3>2 DEF ForeignEdit
  <2>12. CASE Tick
    <3>1. since' \in [1..MaxEpoch -> 0..Horizon]
      BY <2>12, SinceTyped
    <3>2. cached' \in Entries \cup {Nothing}
      <4>1. cached # Nothing => Later(cached.age, Backstop) \in 0..Backstop
        BY DEF Later, Entries
      <4>2. QED
        BY <2>12, <4>1 DEF Tick, Entries
    <3>4. loading' \in 0..LoadTicks
      BY <2>12 DEF Tick
    <3>3. UNCHANGED <<backend, store, version, holder, call, write, promised>>
      BY <2>12 DEF Tick
    <3>5. QED
      BY <3>1, <3>2, <3>3, <3>4
  <2>13. CASE UNCHANGED vars
    BY <2>13 DEF vars
  <2>14. QED
    BY <2>1, <2>2, <2>3, <2>4, <2>5, <2>6, <2>7, <2>8, <2>9, <2>10, <2>11,
       <2>12, <2>13 DEF Next, Listing
<1>3. QED
  BY <1>1, <1>2, PTL DEF Spec

----------------------------------------------------------------------------
(* Steps keep OwedInv. *)
LEMMA OwedInvStep ==
    ASSUME TypeOK, OwedInv, [Next]_vars
    PROVE  OwedInv'
<1> USE AnswersAssumption DEF TypeOK, OwedInv
<1>1. ASSUME NEW t \in Threads, ReadVersion(t)
      PROVE  OwedInv'
  <2>1. LockInv'
    BY <1>1 DEF ReadVersion, Goes, LockInv
  <2>2. PastInv'
    BY <1>1 DEF ReadVersion, Goes, PastInv, Snapshots, Writes
  <2>3. HonourInv'
    BY <1>1 DEF ReadVersion, Goes, LockInv, PastInv, HonourInv, Honours, Snapshots
  <2>4. OwedIsServed'
    BY <1>1 DEF ReadVersion, Goes, OwedIsServed, Calls
  <2>5. QED
    BY <2>1, <2>2, <2>3, <2>4
<1>2. ASSUME NEW t \in Threads, Hit(t)
      PROVE  OwedInv'
  <2>1. LockInv'
    BY <1>2 DEF Hit, Goes, Valid, LockInv
  <2>2. PastInv'
    BY <1>2 DEF Hit, Goes, Valid, PastInv, Snapshots, Writes
  <2>3. HonourInv'
    BY <1>2 DEF Hit, Goes, Valid, LockInv, PastInv, HonourInv, Honours, Snapshots
  <2>4. OwedIsServed'
    BY <1>2 DEF Hit, Goes, Valid, HonourInv, Honours, OwedIsServed, Calls
  <2>5. QED
    BY <2>1, <2>2, <2>3, <2>4
<1>3. ASSUME NEW t \in Threads, Load(t)
      PROVE  OwedInv'
  <2>1. LockInv'
    BY <1>3 DEF Load, Goes, LockInv
  <2>2. PastInv'
    BY <1>3 DEF Load, Goes, PastInv, Snapshots, Writes
  <2>3. HonourInv'
    BY <1>3 DEF Load, Goes, LockInv, PastInv, HonourInv, Honours, Calls, Snapshots
  <2>4. OwedIsServed'
    BY <1>3 DEF Load, Goes, OwedIsServed, Calls
  <2>5. QED
    BY <2>1, <2>2, <2>3, <2>4
<1>4. ASSUME NEW t \in Threads, LoadFails(t)
      PROVE  OwedInv'
  <2>1. LockInv'
    BY <1>4 DEF LoadFails, Goes, LockInv
  <2>2. PastInv'
    BY <1>4 DEF LoadFails, Goes, PastInv, Snapshots, Writes
  <2>3. HonourInv'
    BY <1>4 DEF LoadFails, Goes, LockInv, PastInv, HonourInv, Honours, Snapshots
  <2>4. OwedIsServed'
    BY <1>4 DEF LoadFails, Goes, OwedIsServed, Calls
  <2>5. QED
    BY <2>1, <2>2, <2>3, <2>4
<1>5. ASSUME NEW t \in Threads, Publish(t)
      PROVE  OwedInv'
  <2>1. LockInv'
    BY <1>5 DEF Publish, Goes, LockInv
  <2>2. PastInv'
    BY <1>5 DEF Publish, Goes, PastInv, Snapshots, Writes
  <2>3. HonourInv'
    BY <1>5 DEF Publish, Goes, LockInv, PastInv, HonourInv, Honours, Snapshots
  <2>4. OwedIsServed'
    BY <1>5 DEF Publish, Goes, HonourInv, OwedIsServed, Calls
  <2>5. QED
    BY <2>1, <2>2, <2>3, <2>4
<1>6. ASSUME NEW t \in Threads, Return(t)
      PROVE  OwedInv'
  <2>1. LockInv'
    BY <1>6 DEF Return, Goes, Idle, LockInv
  <2>2. PastInv'
    BY <1>6 DEF Return, Goes, Idle, PastInv, Snapshots, Writes
  <2>3. HonourInv'
    BY <1>6 DEF Return, Goes, Idle, LockInv, PastInv, HonourInv, Honours, Snapshots
  <2>4. OwedIsServed'
    BY <1>6 DEF Return, Goes, Idle, OwedIsServed, Calls
  <2>5. QED
    BY <2>1, <2>2, <2>3, <2>4
<1>7. ASSUME NEW t \in Threads, Invalidate(t)
      PROVE  OwedInv'
  <2>1. LockInv'
    BY <1>7 DEF Invalidate, LockInv
  <2>2. PastInv'
    BY <1>7 DEF Invalidate, PastInv, Calls, Snapshots, Writes
  <2>3. HonourInv'
    BY <1>7 DEF Invalidate, LockInv, PastInv, HonourInv, Calls, Snapshots
  <2>4. OwedIsServed'
    BY <1>7 DEF Invalidate, OwedIsServed
  <2>5. QED
    BY <2>1, <2>2, <2>3, <2>4
<1>8. ASSUME NEW t \in Threads, CreateIdentity(t)
      PROVE  OwedInv'
  <2>1. LockInv'
    BY <1>8 DEF CreateIdentity, LockInv
  <2>2. PastInv'
    <3>1. version' \in Nat /\ version <= version'
      BY <1>8 DEF CreateIdentity, MtimeMoves
    <3>2. ASSUME NEW u \in Threads
          PROVE  write'[u].epoch = write[u].epoch
      BY <1>8 DEF CreateIdentity, Writes
    <3>3. UNCHANGED <<store, promised, cached, call>>
      BY <1>8 DEF CreateIdentity
    <3>4. QED
      BY <3>1, <3>2, <3>3 DEF PastInv, Entries, Calls
  <2>3. HonourInv'
    BY <1>8 DEF CreateIdentity, MtimeMoves, LockInv, PastInv, HonourInv, Honours, Entries, Calls, Snapshots
  <2>4. OwedIsServed'
    BY <1>8 DEF CreateIdentity, OwedIsServed
  <2>5. QED
    BY <2>1, <2>2, <2>3, <2>4
<1>9. ASSUME NEW t \in Threads, NEW d \in AnswerSets, Apply(t, d)
      PROVE  OwedInv'
  <2>1. LockInv'
    BY <1>9 DEF Apply, LockInv
  <2>2. PastInv'
    BY <1>9 DEF Apply, Changes, PastInv, Snapshots, Writes
  <2>3. HonourInv'
    BY <1>9 DEF Apply, Changes, LockInv, PastInv, HonourInv, Honours, Snapshots
  <2>4. OwedIsServed'
    BY <1>9 DEF Apply, OwedIsServed
  <2>5. QED
    BY <2>1, <2>2, <2>3, <2>4
<1>10. ASSUME NEW t \in Threads, Finish(t)
      PROVE  OwedInv'
  <2>1. LockInv'
    BY <1>10 DEF Finish, LockInv
  <2>2. PastInv'
    <3>1. version' \in Nat /\ version <= version'
      BY <1>10 DEF Finish, MtimeMoves
    <3>2. ASSUME NEW u \in Threads
          PROVE  write'[u].epoch <= store.epoch
      <4>1. write' = [write EXCEPT ![t] = NoWrite]
        BY <1>10 DEF Finish
      <4>2. QED
        BY <4>1 DEF PastInv, NoWrite, Snapshots
    <3>3. promised <= promised' /\ promised' <= store.epoch
      BY <1>10 DEF Finish, PastInv, Snapshots, Writes
    <3>4. UNCHANGED <<store, cached, call>>
      BY <1>10 DEF Finish
    <3>5. cached' # Nothing => cached'.version <= version'
      BY <3>1, <3>4 DEF PastInv, Entries
    <3>6. ASSUME NEW u \in Threads
          PROVE  call'[u].version <= version' /\ call'[u].floor <= promised'
      <4>1. call[u].version <= version /\ call[u].floor <= promised
        BY DEF PastInv
      <4>2. call[u].version \in Nat /\ call[u].floor \in Nat
        BY DEF Calls
      <4>3. promised \in Nat /\ promised' \in Nat
        BY <3>3, <1>10 DEF Finish, Snapshots, Writes
      <4>4. QED
        BY <3>1, <3>3, <3>4, <4>1, <4>2, <4>3
    <3>7. QED
      BY <3>2, <3>3, <3>4, <3>5, <3>6 DEF PastInv
  <2>3. HonourInv'
    <3>1. UNCHANGED <<backend, cached, call>>
      BY <1>10 DEF Finish
    <3>2. ASSUME NEW v \in Nat, v <= version, NEW l \in Snapshots, Honours(v, l)
          PROVE  Honours(v, l)'
      <4>1. CASE backend = "sqlite"
        BY <1>10, <3>1, <3>2, <4>1 DEF Finish, Honours
      <4>2. CASE backend = "file"
        BY <1>10, <3>1, <3>2, <4>2 DEF Finish, Honours
      <4>3. QED
        BY <4>1, <4>2 DEF Backends
    <3>3. cached # Nothing => cached.version \in Nat /\ cached.version <= version
                              /\ cached.listing \in Snapshots
      BY DEF PastInv, Entries
    <3>4. \A u \in Threads :
             call[u].at = "loaded" => call[u].version \in Nat /\ call[u].version <= version
                                      /\ call[u].listing \in Snapshots
      BY DEF PastInv, Calls
    <3>5. QED
      BY <3>1, <3>2, <3>3, <3>4 DEF HonourInv, Honours
  <2>4. OwedIsServed'
    BY <1>10 DEF Finish, OwedIsServed
  <2>5. QED
    BY <2>1, <2>2, <2>3, <2>4
<1>11. ASSUME NEW d \in AnswerSets, ForeignEdit(d)
      PROVE  OwedInv'
  <2>1. LockInv'
    BY <1>11 DEF ForeignEdit, LockInv
  <2>2. PastInv'
    BY <1>11 DEF ForeignEdit, MtimeMoves, Changes, PastInv, Entries, Calls, Snapshots, Writes
  <2>3. HonourInv'
    BY <1>11 DEF ForeignEdit, MtimeMoves, Changes, LockInv, PastInv, HonourInv, Honours, Entries, Calls, Snapshots
  <2>4. OwedIsServed'
    BY <1>11 DEF ForeignEdit, OwedIsServed
  <2>5. QED
    BY <2>1, <2>2, <2>3, <2>4
<1>12. CASE Tick
  <2>1. LockInv'
    BY <1>12 DEF Tick, LockInv
  <2>2. PastInv'
    BY <1>12 DEF Tick, PastInv, Snapshots, Writes
  <2>3. HonourInv'
    BY <1>12 DEF Tick, LockInv, PastInv, HonourInv, Honours, Snapshots
  <2>4. OwedIsServed'
    BY <1>12 DEF Tick, OwedIsServed
  <2>5. QED
    BY <2>1, <2>2, <2>3, <2>4
<1>13. CASE UNCHANGED vars
  BY <1>13 DEF vars, LockInv, PastInv, HonourInv, Honours, OwedIsServed
<1>14. QED
  BY <1>1, <1>2, <1>3, <1>4, <1>5, <1>6, <1>7, <1>8, <1>9, <1>10, <1>11, <1>12, <1>13 DEF Next, Listing

(* A change is new when it is made: it adds nothing to how long anything has
   been missed for. *)
LEMMA ChangeIsNew ==
    ASSUME TypeOK, NEW d \in AnswerSets, Changes(d),
           NEW l \in Snapshots, NEW k \in Nat, MissesOnly(l, k)
    PROVE  \A n \in (l.epoch + 1)..store'.epoch : since'[n] <= k
<1> SUFFICES ASSUME NEW n \in (l.epoch + 1)..store'.epoch
             PROVE  since'[n] <= k
  OBVIOUS
<1>1. store'.epoch = store.epoch + 1 /\ store.epoch \in Nat /\ l.epoch \in Nat
  BY AnswersAssumption DEF TypeOK, Changes, Snapshots
<1>2. n \in 1..MaxEpoch
  BY <1>1, AnswersAssumption DEF Changes
<1>3. CASE n = store.epoch + 1
  BY <1>2, <1>3, AnswersAssumption DEF TypeOK, Changes
<1>4. CASE n # store.epoch + 1
  <2>1. since'[n] = since[n]
    BY <1>2, <1>4 DEF TypeOK, Changes
  <2>2. n \in (l.epoch + 1)..store.epoch
    BY <1>1, <1>4
  <2>3. QED
    BY <2>1, <2>2 DEF MissesOnly
<1>5. QED
  BY <1>3, <1>4

(* A tick adds at most one to what anything missed has been missed for. *)
LEMMA TickAgesByOne ==
    ASSUME TypeOK, Tick, NEW l \in Snapshots, NEW k \in Nat, MissesOnly(l, k)
    PROVE  \A n \in (l.epoch + 1)..store'.epoch :
              since'[n] <= k + 1 /\ since'[n] <= Horizon
<1> SUFFICES ASSUME NEW n \in (l.epoch + 1)..store'.epoch
             PROVE  since'[n] <= k + 1 /\ since'[n] <= Horizon
  OBVIOUS
<1>1. store' = store /\ store.epoch \in 0..MaxEpoch /\ l.epoch \in Nat
  BY AnswersAssumption DEF TypeOK, Tick, Snapshots
<1>2. n \in 1..MaxEpoch /\ n <= store.epoch
  BY <1>1, AnswersAssumption
<1>3. since[n] <= k /\ since[n] \in 0..Horizon
  BY <1>1, <1>2 DEF TypeOK, MissesOnly
<1>4. since'[n] = Later(since[n], Horizon)
  BY <1>2 DEF Tick
<1>5. QED
  BY <1>3, <1>4, AnswersAssumption DEF Later, Horizon

(* What is missed for less than Horizon is missed in time. *)
LEMMA MissedInTime ==
    ASSUME TypeOK, NEW l \in Snapshots, NEW k \in Nat, k < Horizon, MissesOnly(l, k)
    PROVE  InTime(l)
<1>1. ASSUME NEW n \in (l.epoch + 1)..store.epoch
      PROVE  since[n] < Horizon
  <2>1. n \in 1..MaxEpoch
    BY AnswersAssumption DEF TypeOK, Snapshots
  <2>2. since[n] \in Nat /\ since[n] <= k
    BY <2>1, AnswersAssumption DEF TypeOK, MissesOnly
  <2>3. QED
    BY <2>2, AnswersAssumption DEF Horizon
<1>2. QED
  BY <1>1 DEF InTime

(* Steps keep FreshInv, and none hands out a listing that is not in time. *)
LEMMA FreshInvStep ==
    ASSUME TypeOK, LockInv, FreshInv, [Next]_vars
    PROVE  /\ FreshInv'
           /\ \A t \in Threads : Serves(t) => InTime(call'[t].listing)
<1> DEFINE Fresh(t) == Serves(t) => InTime(call'[t].listing)
<1>a. cached # Nothing => cached.listing \in Snapshots /\ cached.age \in 0..Backstop
  BY DEF TypeOK, Entries
<1>b. \A t \in Threads :
         call[t].at = "loaded" => call[t].listing \in Snapshots /\ loading \in Nat
  BY AnswersAssumption DEF TypeOK, Calls
(* A step that leaves the change history, the cache and the reloads alone
   keeps the invariant. *)
<1>c. ASSUME UNCHANGED <<store, since, cached, loading>>,
             \A t \in Threads : call'[t].at = "loaded" => call'[t] = call[t]
      PROVE  FreshInv'
  BY <1>c DEF FreshInv, MissesOnly
<1>1. ASSUME NEW u \in Threads, ReadVersion(u) \/ LoadFails(u) \/ Return(u)
      PROVE  FreshInv' /\ \A t \in Threads : Fresh(t)
  <2>1. PICK step : call' = [call EXCEPT ![u] = step] /\ step.at \notin {"loaded", "served"}
    BY <1>1, AnswersAssumption DEF TypeOK, ReadVersion, LoadFails, Return, Goes, Idle, Calls
  <2>2. FreshInv'
    BY <1>1, <1>c, <2>1 DEF TypeOK, ReadVersion, LoadFails, Return
  <2>3. \A t \in Threads : Fresh(t)
    BY <2>1 DEF TypeOK, Serves
  <2>4. QED
    BY <2>2, <2>3
<1>2. ASSUME NEW u \in Threads, Hit(u)
      PROVE  FreshInv' /\ \A t \in Threads : Fresh(t)
  <2>1. call' = [call EXCEPT ![u] = [call[u] EXCEPT !.at = "served", !.listing = cached.listing]]
    BY <1>2 DEF Hit, Goes
  <2>2. call'[u].at = "served" /\ call'[u].listing = cached.listing
    BY <2>1 DEF TypeOK
  <2>3. \A t \in Threads : t # u => call'[t] = call[t]
    BY <2>1 DEF TypeOK
  <2>4. FreshInv'
    BY <1>2, <1>c, <2>2, <2>3 DEF Hit
  <2>5. InTime(cached.listing)
    <3>1. cached # Nothing /\ cached.age < Backstop
      BY <1>2 DEF Hit, Valid
    <3>2. MissesOnly(cached.listing, cached.age + LoadTicks)
      BY <3>1 DEF FreshInv
    <3>3. cached.age + LoadTicks \in Nat /\ cached.age + LoadTicks < Horizon
      BY <1>a, <3>1, AnswersAssumption DEF Horizon
    <3>4. QED
      BY <1>a, <3>1, <3>2, <3>3, MissedInTime
  <2>6. QED
    BY <2>2, <2>3, <2>4, <2>5 DEF Serves
<1>3. ASSUME NEW u \in Threads, Load(u)
      PROVE  FreshInv' /\ \A t \in Threads : Fresh(t)
  <2>1. call' = [call EXCEPT ![u] = [call[u] EXCEPT !.at = "loaded", !.listing = store]]
    BY <1>3 DEF Load, Goes
  <2>2. call'[u].at = "loaded" /\ call'[u].listing = store
    BY <2>1 DEF TypeOK
  <2>3. \A t \in Threads : t # u => call'[t] = call[t] /\ call[t].at # "loaded"
    BY <1>3, <2>1, AnswersAssumption DEF TypeOK, LockInv, Load
  <2>4. FreshInv'
    <3>1. \A t \in Threads : call'[t].at = "loaded" => MissesOnly(store, loading')
      BY AnswersAssumption DEF TypeOK, MissesOnly, Snapshots
    <3>2. QED
      BY <1>3, <2>2, <2>3, <3>1 DEF Load, FreshInv, MissesOnly
  <2>5. QED
    BY <2>2, <2>3, <2>4 DEF Serves
<1>4. ASSUME NEW u \in Threads, Publish(u)
      PROVE  FreshInv' /\ \A t \in Threads : Fresh(t)
  <2>1. call' = [call EXCEPT ![u] = [call[u] EXCEPT !.at = "served"]]
    BY <1>4 DEF Publish, Goes
  <2>2. call'[u].at = "served" /\ call'[u].listing = call[u].listing
    BY <2>1 DEF TypeOK
  <2>3. \A t \in Threads : t # u => call'[t] = call[t] /\ call[t].at # "loaded"
    BY <1>4, <2>1 DEF TypeOK, LockInv, Publish
  <2>4. call[u].listing \in Snapshots /\ loading \in 0..LoadTicks
        /\ MissesOnly(call[u].listing, loading)
    BY <1>4, <1>b DEF TypeOK, Publish, FreshInv
  <2>5. FreshInv'
    <3>1. cached'.listing = call[u].listing /\ cached'.age = 0
      BY <1>4 DEF Publish
    <3>2. \A n \in (call[u].listing.epoch + 1)..store.epoch : since[n] <= 0 + LoadTicks
      <4>1. ASSUME NEW n \in (call[u].listing.epoch + 1)..store.epoch
            PROVE  since[n] <= 0 + LoadTicks
        <5>1. n \in 1..MaxEpoch
          BY <2>4, AnswersAssumption DEF TypeOK, Snapshots
        <5>2. since[n] \in Nat /\ since[n] <= loading
          BY <2>4, <5>1, AnswersAssumption DEF TypeOK, MissesOnly
        <5>3. QED
          BY <2>4, <5>2, AnswersAssumption
      <4>2. QED
        BY <4>1
    <3>3. UNCHANGED <<store, since>>
      BY <1>4 DEF Publish
    <3>4. QED
      BY <2>2, <2>3, <3>1, <3>2, <3>3 DEF FreshInv, MissesOnly
  <2>6. InTime(call[u].listing)
    <3>1. loading \in Nat /\ loading < Horizon
      BY <2>4, AnswersAssumption DEF Horizon
    <3>2. QED
      BY <2>4, <3>1, MissedInTime
  <2>7. QED
    BY <2>2, <2>3, <2>5, <2>6 DEF Serves
<1>5. ASSUME NEW u \in Threads, Invalidate(u)
      PROVE  FreshInv' /\ \A t \in Threads : Fresh(t)
  BY <1>5 DEF Invalidate, FreshInv, MissesOnly, Serves
<1>6. ASSUME NEW u \in Threads, CreateIdentity(u) \/ Finish(u)
      PROVE  FreshInv' /\ \A t \in Threads : Fresh(t)
  BY <1>6, <1>c DEF CreateIdentity, Finish, Serves
<1>7. ASSUME NEW d \in AnswerSets, Changes(d), UNCHANGED <<cached, call, loading>>
      PROVE  FreshInv' /\ \A t \in Threads : Fresh(t)
  <2>1. cached # Nothing => MissesOnly(cached.listing, cached.age + LoadTicks)'
    <3>1. cached # Nothing => cached.age + LoadTicks \in Nat
      BY <1>a, AnswersAssumption
    <3>2. QED
      BY <1>7, <1>a, <3>1, ChangeIsNew DEF FreshInv, MissesOnly
  <2>2. \A t \in Threads : call[t].at = "loaded" => MissesOnly(call[t].listing, loading)'
    BY <1>7, <1>b, ChangeIsNew DEF FreshInv, MissesOnly
  <2>3. QED
    BY <1>7, <2>1, <2>2 DEF FreshInv, Serves
<1>8. CASE Tick
  <2>1. cached' # Nothing => MissesOnly(cached.listing, cached.age + LoadTicks)'
    <3>1. SUFFICES ASSUME cached' # Nothing
                   PROVE  MissesOnly(cached.listing, cached.age + LoadTicks)'
      OBVIOUS
    <3>2. cached # Nothing /\ cached' = [cached EXCEPT !.age = Later(@, Backstop)]
      BY <1>8, <3>1 DEF Tick
    <3>3. cached'.listing = cached.listing /\ cached'.age = Later(cached.age, Backstop)
      BY <3>2 DEF TypeOK
    <3>4. \A n \in (cached.listing.epoch + 1)..store'.epoch :
             since'[n] <= cached.age + LoadTicks + 1 /\ since'[n] <= Horizon
      <4>1. cached.age + LoadTicks \in Nat
        BY <1>a, <3>2, AnswersAssumption
      <4>2. QED
        BY <1>8, <1>a, <3>2, <4>1, TickAgesByOne DEF FreshInv
    <3>5. cached'.age + LoadTicks = cached.age + LoadTicks + 1
          \/ cached'.age + LoadTicks = Horizon
      BY <1>a, <3>2, <3>3, AnswersAssumption DEF Later, Horizon
    <3>6. QED
      BY <3>3, <3>4, <3>5 DEF MissesOnly
  <2>2. ASSUME NEW t \in Threads, call'[t].at = "loaded"
        PROVE  MissesOnly(call[t].listing, loading)'
    <3>1. call' = call
      BY <1>8 DEF Tick
    <3>2. holder # Nothing /\ loading' = loading + 1
      BY <1>8, <2>2, <3>1, AnswersAssumption DEF Tick, LockInv
    <3>3. QED
      BY <1>8, <1>b, <2>2, <3>1, <3>2, TickAgesByOne DEF FreshInv, MissesOnly
  <2>3. QED
    BY <1>8, <2>1, <2>2 DEF FreshInv, Serves, Tick
<1>9. CASE UNCHANGED vars
  BY <1>9 DEF vars, FreshInv, MissesOnly, Serves
<1>10. ASSUME NEW u \in Threads, NEW d \in AnswerSets, Apply(u, d)
       PROVE  FreshInv' /\ \A t \in Threads : Fresh(t)
  <2>1. Changes(d) /\ UNCHANGED <<cached, call, loading>>
    BY <1>10 DEF Apply
  <2>2. QED
    BY <1>7, <2>1
<1>11. ASSUME NEW d \in AnswerSets, ForeignEdit(d)
       PROVE  FreshInv' /\ \A t \in Threads : Fresh(t)
  <2>1. Changes(d) /\ UNCHANGED <<cached, call, loading>>
    BY <1>11 DEF ForeignEdit
  <2>2. QED
    BY <1>7, <2>1
<1>12. QED
  BY AnswersAssumption, <1>1, <1>2, <1>3, <1>4, <1>5, <1>6, <1>8, <1>9, <1>10, <1>11
  DEF Next, Listing

----------------------------------------------------------------------------
(* OwedInv holds to begin with and is kept. *)
LEMMA OwedInvHolds == Spec => []OwedInv
<1>1. Init => OwedInv
  BY AnswersAssumption
  DEF Init, OwedInv, LockInv, PastInv, HonourInv, OwedIsServed, Idle, NoWrite
<1>2. TypeOK /\ OwedInv /\ [Next]_vars => OwedInv'
  BY OwedInvStep
<1>3. QED
  BY <1>1, <1>2, TypeCorrect, PTL DEF Spec

(* A call is handed a listing no older than it is owed: after a write to the
   database returned, or after an invalidate. *)
THEOREM OwedIsServedAlways == Spec => []OwedIsServed
BY OwedInvHolds, PTL DEF OwedInv

(* The cached entry is good for any call its version admits. *)
THEOREM EntryHonoursVersionAlways == Spec => []EntryHonoursVersion
<1>1. OwedInv => EntryHonoursVersion
  BY DEF OwedInv, HonourInv, Honours, EntryHonoursVersion
<1>2. QED
  BY <1>1, OwedInvHolds, PTL

(* No listing handed out misses a change older than the backstop and one
   reload. *)
THEOREM StalenessIsBounded == Spec => BoundedStaleness
<1>1. Init => FreshInv
  BY AnswersAssumption DEF Init, FreshInv, Idle
<1>2. TypeOK /\ LockInv /\ FreshInv /\ [Next]_vars => FreshInv'
  BY FreshInvStep
<1>3. OwedInv => LockInv
  BY DEF OwedInv
<1>4. TypeOK /\ LockInv /\ FreshInv /\ [Next]_vars
         => [\A t \in Threads :
               Serves(t) => InTime(call'[t].listing)]_vars
  BY FreshInvStep
<1>5. QED
  BY <1>1, <1>2, <1>3, <1>4, TypeCorrect, OwedInvHolds, PTL DEF Spec, BoundedStaleness
=============================================================================
