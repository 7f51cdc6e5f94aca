------------------------------ MODULE AuthGuard ------------------------------
(***************************************************************************)
(* The guard in front of the admin API's token (src/admin.rs).             *)
(* `handle` asks `blocked` first, compares the token, and then tells the   *)
(* guard of a `failure` or a `success`: two critical sections with the     *)
(* comparison between them, so requests that were let through before a     *)
(* block began are still judged during it.                                 *)
(*                                                                         *)
(* Time is what is left of a block and how old a window is, in ticks; an   *)
(* `Instant` that has passed is 0 left, or an age of FailureWindow.        *)
(***************************************************************************)
EXTENDS Naturals, FiniteSets, Functions

CONSTANTS Address,        \* source addresses
          Thread,         \* requests that can be under way at once
          MaxFailures,    \* MAX_FAILURES
          FailureWindow,  \* FAILURE_WINDOW, in ticks
          BaseBlock,      \* BASE_BLOCK, in ticks
          MaxBlock,       \* MAX_BLOCK, in ticks
          MaxDoublings,   \* the `4` of `blocks.min(4)`
          MaxTracked      \* MAX_TRACKED

ASSUME GuardConstants ==
    /\ {MaxFailures, FailureWindow, BaseBlock, MaxTracked} \subseteq Nat \ {0}
    /\ MaxDoublings \in Nat
    /\ MaxBlock \in Nat /\ MaxBlock >= BaseBlock

VARIABLES entries,  \* AuthGuard.entries: a partial function of the addresses
          request,  \* the address and token of a request past `blocked`, or Idle
          guesses   \* history: how many wrong tokens of an address were counted
                    \* since its last right one, at most so many ticks ago

guardVars == <<entries, request, guesses>>

-----------------------------------------------------------------------------
Ages == 0..FailureWindow - 1

Idle == [ip |-> {}, right |-> FALSE]

Failures == [count : 0..MaxFailures, age : 0..FailureWindow,
             left : 0..MaxBlock, blocks : 0..MaxDoublings]

Tracked == DOMAIN entries

(* or_default(): no failure counted, no window, no block.                  *)
Fresh == [count |-> 0, age |-> FailureWindow, left |-> 0, blocks |-> 0]

Blocked(ip) == ip \in Tracked /\ entries[ip].left > 0

(* BASE_BLOCK, doubled as often as the address was blocked before.         *)
Doubled[blocks \in 0..MaxDoublings] ==
    IF blocks = 0 THEN BaseBlock ELSE 2 * Doubled[blocks - 1]

BlockFor(blocks) == IF Doubled[blocks] < MaxBlock THEN Doubled[blocks] ELSE MaxBlock

(* A change of Kept: the full table keeps only the blocks.                 *)
KeptBlocks == Restrict(entries, {ip \in Tracked : entries[ip].left > 0})

(* What `retain` keeps of a full table, and the table as it was otherwise. *)
Kept == IF Cardinality(Tracked) < MaxTracked
        THEN entries
        ELSE Restrict(entries,
                      {ip \in Tracked : \/ entries[ip].left > 0
                                        \/ entries[ip].age < FailureWindow})

(* A change of Counted: the window of a run of failures never closes.      *)
CountedForEver(e) ==
    IF e.count + 1 >= MaxFailures
    THEN [Fresh EXCEPT !.left = BlockFor(e.blocks)]
    ELSE [e EXCEPT !.count = @ + 1, !.age = IF e.count = 0 THEN 0 ELSE @]

(* The entry after one more wrong token.                                   *)
Counted(e) ==
    LET inWindow == e.age < FailureWindow
        count == IF inWindow THEN e.count + 1 ELSE 1
    IN  IF count >= MaxFailures
        THEN [count |-> 0, age |-> FailureWindow, left |-> BlockFor(e.blocks),
              blocks |-> IF e.blocks < MaxDoublings THEN e.blocks + 1
                                                    ELSE MaxDoublings]
        ELSE [e EXCEPT !.count = count, !.age = IF inWindow THEN @ ELSE 0]

Put(table, ip, e) == [a \in DOMAIN table \cup {ip} |->
                         IF a = ip THEN e ELSE table[a]]

NoGuesses == [age \in Ages |-> 0]

Guessed(ip) == guesses' = [guesses EXCEPT ![ip] = [age \in Ages |-> @[age] + 1]]

-----------------------------------------------------------------------------
GuardInit ==
    /\ entries = [ip \in {} |-> Fresh]
    /\ request = [t \in Thread |-> Idle]
    /\ guesses = [ip \in Address |-> NoGuesses]

(* `blocked`: one who is shut out gets a 429 and changes nothing, whatever *)
(* the token; /health does not come this far.                              *)
Arrive(t, ip) ==
    /\ request[t] = Idle
    /\ ~Blocked(ip)
    /\ \E right \in BOOLEAN :
          request' = [request EXCEPT ![t] = [ip |-> ip, right |-> right]]
    /\ UNCHANGED <<entries, guesses>>

Answered(t) == request' = [request EXCEPT ![t] = Idle]

(* A change of Failure: a full table takes one address more.               *)
FailureGrows(t) ==
    LET ip == request[t].ip
    IN  /\ request[t] # Idle /\ ~request[t].right
        /\ entries' = Put(Kept, ip, Counted(IF ip \in DOMAIN Kept
                                            THEN Kept[ip] ELSE Fresh))
        /\ Guessed(ip)
        /\ Answered(t)

(* A table that is still full after `retain` does not count a new address. *)
Failure(t) ==
    LET ip == request[t].ip
        known == Kept
    IN  /\ request[t] # Idle /\ ~request[t].right
        /\ IF Cardinality(DOMAIN known) >= MaxTracked /\ ip \notin DOMAIN known
           THEN entries' = known /\ UNCHANGED guesses
           ELSE /\ entries' = Put(known, ip,
                                  Counted(IF ip \in DOMAIN known
                                          THEN known[ip] ELSE Fresh))
                /\ Guessed(ip)
        /\ Answered(t)

(* A change of Success: a right token ends a block.                        *)
SuccessForgives(t) ==
    LET ip == request[t].ip
    IN  /\ request[t] # Idle /\ request[t].right
        /\ entries' = Restrict(entries, Tracked \ {ip})
        /\ guesses' = [guesses EXCEPT ![ip] = NoGuesses]
        /\ Answered(t)

Success(t) ==
    LET ip == request[t].ip
    IN  /\ request[t] # Idle /\ request[t].right
        /\ entries' =
              IF ip \notin Tracked THEN entries
              ELSE IF entries[ip].left = 0
                   THEN Restrict(entries, Tracked \ {ip})
                   ELSE [entries EXCEPT ![ip].count = 0,
                                        ![ip].age = FailureWindow]
        /\ guesses' = [guesses EXCEPT ![ip] = NoGuesses]
        /\ Answered(t)

Older(e) == [e EXCEPT !.age = IF @ < FailureWindow THEN @ + 1 ELSE @,
                      !.left = IF @ > 0 THEN @ - 1 ELSE 0]

GuardTick ==
    /\ entries' = [ip \in Tracked |-> Older(entries[ip])]
    /\ guesses' = [ip \in Address |->
                      [age \in Ages |->
                          IF age = 0 THEN 0 ELSE guesses[ip][age - 1]]]
    /\ UNCHANGED request

GuardNext ==
    \/ \E t \in Thread, ip \in Address : Arrive(t, ip)
    \/ \E t \in Thread : Failure(t) \/ Success(t)
    \/ GuardTick

GuardSpec == GuardInit /\ [][GuardNext]_guardVars

-----------------------------------------------------------------------------
(* The table, the requests under way, and a table no larger than its cap.  *)
GuardTypeOK ==
    /\ Tracked \subseteq Address /\ entries \in [Tracked -> Failures]
    /\ Cardinality(Tracked) <= MaxTracked
    /\ request \in [Thread -> [ip : Address, right : BOOLEAN] \cup {Idle}]
    /\ guesses \in [Address -> [Ages -> Nat]]

(* A block is served in full: neither a right token of a request that was  *)
(* under way, nor the clearing of a full table, nor further failures end   *)
(* it or make it shorter; only time does (admin.rs, `success`, `retain`).  *)
BlockStands ==
    [][\A ip \in Address :
          Blocked(ip) => /\ ip \in DOMAIN entries'
                         /\ \/ entries'[ip].left >= entries[ip].left
                            \/ GuardTick /\ entries'[ip].left = entries[ip].left - 1
      ]_guardVars

RecentGuesses(ip) == guesses[ip][FailureWindow - 1]

(* Nobody is shut out by old typing errors: a block starts only with the   *)
(* last of MaxFailures wrong tokens within one window, none of them        *)
(* followed by a right one (FAILURE_WINDOW's comment).                     *)
BlockIsEarned ==
    [][\A ip \in Address :
          (/\ ip \in DOMAIN entries' /\ entries'[ip].left > 0
           /\ ~Blocked(ip))
          => RecentGuesses(ip)' >= MaxFailures]_guardVars

(* What an address that is tracked can try within any stretch as long as   *)
(* the window: the end of one run of failures, the whole of the next, and  *)
(* the requests that were past `blocked` when the block began.             *)
GuessesBounded ==
    \A ip \in Address :
        RecentGuesses(ip) <= 2 * MaxFailures - 3 + Cardinality(Thread)

=============================================================================
