------------------------------ MODULE Answers ------------------------------
(***************************************************************************)
(* The answer set as the server reads it: a store (a directory of files or *)
(* an SQLite database), and the parsed listing that Answers::listing keeps *)
(* in front of it (src/src/select.rs, src/src/store/).                     *)
(*                                                                         *)
(* A worker thread that wants the listing reads the store's version FIRST, *)
(* then takes the cache's mutex, and under it either reuses the cached     *)
(* listing or reads the store, builds a new one and caches it under the    *)
(* version it read before.  Meanwhile other threads write the store and    *)
(* drop the cache, and hands outside the process edit the files or the     *)
(* database.                                                               *)
(*                                                                         *)
(* What the store holds is a value of AnswerSets; each change of it gets   *)
(* an epoch, which no code reads: it lets the properties say "the listing  *)
(* as of this change".  Time is a tick; Backstop of them are the second of *)
(* RELOAD_BACKSTOP.                                                        *)
(***************************************************************************)
EXTENDS Integers

CONSTANTS
    Threads,      \* runtime worker threads that may be inside Answers
    Writers,      \* those of them that write the store and drop the cache
    AnswerSets,   \* what a store may hold
    Nothing,      \* Rust's None
    Backstop,     \* RELOAD_BACKSTOP, in ticks
    LoadTicks,    \* bound: the ticks one snapshot and build may take
    MaxEpoch,     \* bound: changes made to the store
    MaxVersion    \* bound: times a directory's mtime moves

Backends == {"file", "sqlite"}
Snapshots == [docs: AnswerSets, epoch: 0..MaxEpoch]

Entries == [version: Nat, listing: Snapshots, age: 0..Backstop]
Calls == [at: {"idle", "versioned", "loaded", "served", "failed"}, version: Nat,
          listing: Snapshots \cup {Nothing}, floor: 0..MaxEpoch]
Writes == [at: {"none", "created", "applied"}, epoch: 0..MaxEpoch]

ASSUME AnswersAssumption ==
    /\ Writers \subseteq Threads
    /\ Nothing \notin Threads /\ Nothing \notin Entries /\ Nothing \notin Snapshots
    /\ Backstop \in Nat \ {0} /\ LoadTicks \in Nat
    /\ MaxEpoch \in Nat /\ MaxVersion \in Nat

VARIABLES
    backend,   \* which Store implementation is behind the trait
    store,     \* what Store::snapshot would read now
    version,   \* what Store::version would return now
    cached,    \* Answers.cache: the entry behind the mutex, or Nothing
    holder,    \* the thread that holds the mutex across a reload, or Nothing
    call,      \* each thread's call of Answers::listing
    write,     \* each thread's call of a StoreWrite operation
    loading,   \* ticks the reload in progress has taken
    since,     \* history: for each change made, the ticks since, capped
    promised   \* history: the epoch a new call must not be older than

vars == <<backend, store, version, cached, holder, call, write, loading, since, promised>>

Idle == [at |-> "idle", version |-> 0, listing |-> Nothing, floor |-> 0]
NoWrite == [at |-> "none", epoch |-> 0]

\* The longest a change may stay unseen: see BoundedStaleness.
Horizon == Backstop + LoadTicks

TypeOK ==
    /\ backend \in Backends
    /\ store \in Snapshots
    /\ version \in Nat
    /\ cached \in Entries \cup {Nothing}
    /\ holder \in Threads \cup {Nothing}
    /\ call \in [Threads -> Calls]
    /\ \A t \in Threads : call[t].at \in {"loaded", "served"} => call[t].listing # Nothing
    /\ write \in [Threads -> Writes]
    /\ loading \in 0..LoadTicks
    /\ since \in [1..MaxEpoch -> 0..Horizon]
    /\ promised \in 0..MaxEpoch

Init ==
    /\ backend \in Backends
    /\ \E d \in AnswerSets : store = [docs |-> d, epoch |-> 0]
    /\ version = 0
    /\ cached = Nothing
    /\ holder = Nothing
    /\ call = [t \in Threads |-> Idle]
    /\ write = [t \in Threads |-> NoWrite]
    /\ loading = 0
    /\ since = [n \in 1..MaxEpoch |-> 0]
    /\ promised = 0

----------------------------------------------------------------------------
(* Answers::listing *)

Goes(t, step) == call' = [call EXCEPT ![t] = step]

\* let version = self.store.version(), before the mutex is taken.
ReadVersion(t) ==
    /\ call[t].at = "idle"
    /\ Goes(t, [at |-> "versioned", version |-> version, listing |-> Nothing,
                floor |-> promised])
    /\ UNCHANGED <<backend, store, version, cached, holder, write, loading, since, promised>>

\* A change of Valid: nothing but a moved version expires the listing.
ValidForEver(v) == cached # Nothing /\ cached.version = v

\* The cached listing may be reused for a caller that read version v.  (The
\* code also asks that v is not None: neither store reports that while its
\* directory exists.)
Valid(v) ==
    /\ cached # Nothing
    /\ cached.version = v
    /\ cached.age < Backstop

\* A change of Hit: use keeps the listing young.
HitRefreshes(t) ==
    /\ call[t].at = "versioned"
    /\ holder = Nothing
    /\ Valid(call[t].version)
    /\ Goes(t, [call[t] EXCEPT !.at = "served", !.listing = cached.listing])
    /\ cached' = [cached EXCEPT !.age = 0]
    /\ UNCHANGED <<backend, store, version, holder, write, loading, since, promised>>

Hit(t) ==
    /\ call[t].at = "versioned"
    /\ holder = Nothing
    /\ Valid(call[t].version)
    /\ Goes(t, [call[t] EXCEPT !.at = "served", !.listing = cached.listing])
    /\ UNCHANGED <<backend, store, version, cached, holder, write, loading, since, promised>>

\* A change of Load: the store is read with the mutex released.
LoadUnlocked(t) ==
    /\ call[t].at = "versioned"
    /\ holder = Nothing
    /\ ~Valid(call[t].version)
    /\ Goes(t, [call[t] EXCEPT !.at = "loaded", !.listing = store])
    /\ loading' = 0
    /\ UNCHANGED <<backend, store, version, cached, holder, write, since, promised>>

\* A miss: the mutex is kept from here until Publish.
Load(t) ==
    /\ call[t].at = "versioned"
    /\ holder = Nothing
    /\ ~Valid(call[t].version)
    /\ holder' = t
    /\ Goes(t, [call[t] EXCEPT !.at = "loaded", !.listing = store])
    /\ loading' = 0
    /\ UNCHANGED <<backend, store, version, cached, write, since, promised>>

\* snapshot()? : the error is the caller's, and what was cached stays.
LoadFails(t) ==
    /\ call[t].at = "versioned"
    /\ holder = Nothing
    /\ ~Valid(call[t].version)
    /\ Goes(t, [call[t] EXCEPT !.at = "failed"])
    /\ UNCHANGED <<backend, store, version, cached, holder, write, loading, since, promised>>

\* A change of Publish: cached under the version as it is after the snapshot.
PublishUnderNewest(t) ==
    /\ call[t].at = "loaded"
    /\ cached' = [version |-> version, listing |-> call[t].listing, age |-> 0]
    /\ holder' = Nothing
    /\ Goes(t, [call[t] EXCEPT !.at = "served"])
    /\ UNCHANGED <<backend, store, version, write, loading, since, promised>>

\* Cached under the version read before the snapshot, and aged from now.
Publish(t) ==
    /\ call[t].at = "loaded"
    /\ cached' = [version |-> call[t].version, listing |-> call[t].listing, age |-> 0]
    /\ holder' = Nothing
    /\ Goes(t, [call[t] EXCEPT !.at = "served"])
    /\ UNCHANGED <<backend, store, version, write, loading, since, promised>>

\* The caller has used what it was given.
Return(t) ==
    /\ call[t].at \in {"served", "failed"}
    /\ Goes(t, Idle)
    /\ UNCHANGED <<backend, store, version, cached, holder, write, loading, since, promised>>

\* Answers::invalidate.  From here every new call is owed what the store
\* holds now.
Invalidate(t) ==
    /\ call[t].at = "idle"
    /\ holder = Nothing
    /\ cached' = Nothing
    /\ promised' = store.epoch
    /\ UNCHANGED <<backend, store, version, holder, call, write, loading, since>>

----------------------------------------------------------------------------
(* The writes.  A file store's version is the mtime of the answers         *)
(* directory: it moves when an identity's directory appears, before there  *)
(* is a document in it, or goes, after its last document went; never when  *)
(* a document changes inside one; and not even then if the clock is too    *)
(* coarse.  The database's is a counter bumped after each statement.       *)

MtimeMoves == version' \in {version, version + 1} /\ version' <= MaxVersion

Changes(d) ==
    /\ store.epoch < MaxEpoch
    /\ store' = [docs |-> d, epoch |-> store.epoch + 1]
    /\ since' = [since EXCEPT ![store.epoch + 1] = 0]

\* create_dir_all in create_identity_dir.
CreateIdentity(t) ==
    /\ backend = "file"
    /\ write[t].at = "none"
    /\ MtimeMoves
    /\ write' = [write EXCEPT ![t].at = "created"]
    /\ UNCHANGED <<backend, store, cached, holder, call, loading, since, promised>>

\* The rename, the unlink, or the statement that commits.
Apply(t, d) ==
    /\ write[t].at \in {"none", "created"}
    /\ Changes(d)
    /\ write' = [write EXCEPT ![t] = [at |-> "applied", epoch |-> store.epoch + 1]]
    /\ UNCHANGED <<backend, version, cached, holder, call, loading, promised>>

\* What the write call still does before it returns: bump for the database,
\* for a file at most the remove_dir of an identity left empty.
Finish(t) ==
    /\ write[t].at = "applied"
    /\ \/ /\ backend = "sqlite"
          /\ version' = version + 1
          /\ promised' = IF write[t].epoch > promised THEN write[t].epoch ELSE promised
       \/ /\ backend = "file"
          /\ version' = version \/ MtimeMoves
          /\ UNCHANGED promised
    /\ write' = [write EXCEPT ![t] = NoWrite]
    /\ UNCHANGED <<backend, store, cached, holder, call, loading, since>>

----------------------------------------------------------------------------
(* The world outside the process *)

\* An operator's editor, a sync job, or another process's statement.  Over
\* the database it moves no counter of ours.
ForeignEdit(d) ==
    /\ Changes(d)
    /\ \/ version' = version
       \/ backend = "file" /\ MtimeMoves
    /\ UNCHANGED <<backend, cached, holder, call, write, loading, promised>>

\* Capped at c.
Later(n, c) == IF n < c THEN n + 1 ELSE n

\* A reload in progress takes at most LoadTicks: time waits for it.
Tick ==
    /\ holder # Nothing => loading < LoadTicks
    /\ loading' = IF holder # Nothing THEN loading + 1 ELSE loading
    /\ cached' = IF cached = Nothing THEN Nothing
                 ELSE [cached EXCEPT !.age = Later(@, Backstop)]
    /\ since' = [n \in 1..MaxEpoch |->
                    IF n <= store.epoch THEN Later(since[n], Horizon) ELSE 0]
    /\ UNCHANGED <<backend, store, version, holder, call, write, promised>>

----------------------------------------------------------------------------
Listing(t) == ReadVersion(t) \/ Hit(t) \/ Load(t) \/ LoadFails(t) \/ Publish(t)

Next ==
    \/ \E t \in Threads : Listing(t) \/ Return(t)
    \/ \E t \in Writers :
          \/ Invalidate(t)
          \/ CreateIdentity(t)
          \/ Finish(t)
          \/ \E d \in AnswerSets : Apply(t, d)
    \/ \E d \in AnswerSets : ForeignEdit(d)
    \/ Tick

Spec == Init /\ [][Next]_vars

\* The runtime keeps running a thread that is inside listing(), and clocks
\* advance; nobody is obliged to ask for anything or to write anything.
Fairness ==
    /\ WF_vars(Tick)
    /\ \A t \in Threads : WF_vars(Publish(t)) /\ WF_vars(Return(t))

FairSpec == Spec /\ Fairness

----------------------------------------------------------------------------
(* Properties *)

\* The call hands its caller a listing in this step.
Serves(t) == call[t].at # "served" /\ call'[t].at = "served"

\* The listing misses no change made Horizon ticks ago or more.
InTime(listing) ==
    \A n \in (listing.epoch + 1)..store.epoch : since[n] < Horizon

\* A listing is never handed out that misses a change older than the
\* backstop plus the time one reload takes: an edit no version shows (a
\* document changed inside its directory, another process's statement) stays
\* unseen no longer, whatever other changes, reloads and invalidations happen
\* meanwhile.
BoundedStaleness ==
    [][\A t \in Threads : Serves(t) => InTime(call'[t].listing)]_vars

\* What a caller is owed it gets.  Over the database a call that begins after
\* a write returned sees that write; over either store a call that begins
\* after an invalidate sees what the store held then.  A slow reload by
\* another thread, begun before the write, must not hide it: this is why the
\* version is read before the snapshot and the mutex kept across it.
OwedIsServed ==
    \A t \in Threads :
        call[t].at = "served" => call[t].listing.epoch >= call[t].floor

\* What the cache may be used for as long as no version moves and nobody
\* drops it: an entry under the version a call has read is no older than what
\* that call is owed.  This must hold of the entry whichever of several
\* overlapping reloads published last.
EntryHonoursVersion ==
    cached # Nothing /\ (cached.version = version \/ backend = "file")
        => cached.listing.epoch >= promised

\* Every change is in time in everything the server hands out, for good.
EditEventuallyServed ==
    \A n \in 1..MaxEpoch :
        store.epoch >= n ~>
            [](\A t \in Threads : call[t].at = "served" => call[t].listing.epoch >= n)
=============================================================================
