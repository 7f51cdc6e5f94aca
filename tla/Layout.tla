------------------------------- MODULE Layout --------------------------------
(***************************************************************************)
(* `rescriptum migrate` (cli.rs, with pending_moves of store/file.rs): the *)
(* documents of the flat layout, one format's, are moved a rename at a     *)
(* time into the directories of their identities. A file name is an        *)
(* identity and how its extension is spelled, which its new name forgets.  *)
(***************************************************************************)
CONSTANTS Identity, Spelling, Vacant,
          NewDocument   \* what the admin API puts where there was nothing

ASSUME LayoutAssumption == Vacant \notin Identity \X Spelling

VARIABLES flat,     \* the documents lying flat, each known by its name
          place,    \* the document in each identity's directory, or Vacant
          moves,    \* the renames the command has still to make
          was       \* what the command found, lying flat and in place

layoutVars == <<flat, place, moves, was>>

FlatName == Identity \X Spelling

LayoutInit ==
    /\ flat \in SUBSET FlatName
    /\ place \in [Identity -> {Vacant, NewDocument}]
    /\ moves = {}
    /\ was = [flat |-> flat, placed |-> {}]

(* A change of Blocked: renames as they come, over what is there.          *)
BlockedNever(d) == FALSE

(* Collisions first, all of them, before a single rename.                  *)
Blocked(d) == place[d[1]] # Vacant

(* Without --apply the moves are only shown.                               *)
MigrateBegins ==
    /\ moves = {}
    /\ was' = [flat |-> flat, placed |-> {place[i] : i \in Identity} \ {Vacant}]
    /\ moves' \in {{}, IF \E d \in flat : Blocked(d) THEN {} ELSE flat}
    /\ UNCHANGED <<flat, place>>

(* A failed rename is counted, and the next one tried.                     *)
MoveOne ==
    /\ \E d \in moves :
          /\ moves' = moves \ {d}
          /\ \/ flat' = flat \ {d} /\ place' = [place EXCEPT ![d[1]] = d]
             \/ UNCHANGED <<flat, place>>
    /\ UNCHANGED was

MigrateKilled == moves # {} /\ moves' = {} /\ UNCHANGED <<flat, place, was>>

(* A document somebody puts for an identity that has none.                 *)
PutMeanwhile ==
    /\ \E i \in Identity :
          place[i] = Vacant /\ place' = [place EXCEPT ![i] = NewDocument]
    /\ UNCHANGED <<flat, moves, was>>

LayoutNext == MigrateBegins \/ MoveOne \/ MigrateKilled \/ PutMeanwhile

LayoutSpec == LayoutInit /\ [][LayoutNext]_layoutVars

-----------------------------------------------------------------------------

LayoutTypeOK ==
    /\ flat \subseteq FlatName /\ moves \subseteq flat
    /\ was \in [flat : SUBSET FlatName, placed : SUBSET (FlatName \cup {NewDocument})]
    /\ place \in [Identity -> FlatName \cup {Vacant, NewDocument}]

(* "a half-finished run leaves both halves readable": what the command     *)
(* found lies where it was or where it belongs, whatever fails, however    *)
(* often it is killed and run again - unless two that lie flat belong in   *)
(* one place, where the last one moved replaces the other.                 *)
MigrateKeepsDocuments ==
    (\A d, e \in was.flat : d[1] = e[1] => d = e)
        => \A d \in was.flat \cup was.placed :
              d \in flat \/ \E i \in Identity : place[i] = d

=============================================================================
