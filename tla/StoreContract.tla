---------------------------- MODULE StoreContract ----------------------------
(***************************************************************************)
(* What a writable store of answer documents promises whoever calls it     *)
(* (the StoreWrite trait of store/mod.rs), whatever holds the documents:   *)
(* each call takes effect at once, at some moment between being made and   *)
(* returning, or fails and changes nothing; a process that dies loses its  *)
(* calls under way and no document.                                        *)
(*                                                                         *)
(* A store that takes a failed look for an empty place promises less of    *)
(* the keys it overlooked a document of, and says which: a call on such a  *)
(* key may succeed without effect, and a delete may uncover a document     *)
(* that was hidden behind the one it removed. No other key is touched.     *)
(***************************************************************************)
EXTENDS StoreData

VARIABLES doc,      \* the document of each key
          call,     \* each writer's call, or its result
          amiss     \* the keys a document of which was overlooked

contractVars == <<doc, call>>

Idle == [op |-> "idle"]
Puts == [op : {"put"}, key : Key, body : Body]
Deletes == [op : {"delete"}, key : Key]
Result(r) == [op |-> "done", result |-> r]

ContractInit ==
    /\ doc \in [Key -> Body \cup {None}]
    /\ call = [w \in Writer |-> Idle]

Make(w) ==
    /\ call[w] = Idle
    /\ \E c \in Puts \cup Deletes : call' = [call EXCEPT ![w] = c]
    /\ UNCHANGED doc

PutTakes(w) ==
    /\ call[w].op = "put"
    /\ doc' = [doc EXCEPT ![call[w].key] = call[w].body]
    /\ call' = [call EXCEPT ![w] = Result("ok")]

(* What a delete answers is whether there was a document to delete.        *)
DeleteTakes(w) ==
    /\ call[w].op = "delete"
    /\ doc' = [doc EXCEPT ![call[w].key] = None]
    /\ call' = [call EXCEPT ![w] =
           Result(IF doc[call[w].key] = None THEN "absent" ELSE "removed")]

Fails(w) ==
    /\ call[w].op \in {"put", "delete"}
    /\ call' = [call EXCEPT ![w] = Result("error")]
    /\ UNCHANGED doc

Returns(w) ==
    /\ call[w].op = "done"
    /\ call' = [call EXCEPT ![w] = Idle]
    /\ UNCHANGED doc

(* A call on a key that is amiss before or after it.                       *)
GoesAmiss(w) ==
    /\ call[w].op \in {"put", "delete"}
    /\ call[w].key \in amiss \cup amiss'
    /\ \/ /\ call[w].op = "put"
          /\ call' = [call EXCEPT ![w] = Result("ok")]
          /\ UNCHANGED doc
       \/ /\ call[w].op = "delete"
          /\ \E r \in {"absent", "removed"} : call' = [call EXCEPT ![w] = Result(r)]
          /\ \E d \in Body \cup {None} : doc' = [doc EXCEPT ![call[w].key] = d]

(* A process dies, and with it the calls of its writers.                   *)
Dies ==
    /\ \E S \in SUBSET Writer :
          call' = [w \in Writer |-> IF w \in S THEN Idle ELSE call[w]]
    /\ UNCHANGED doc

ContractNext ==
    \/ \E w \in Writer : \/ Make(w) \/ PutTakes(w) \/ DeleteTakes(w) \/ GoesAmiss(w)
                         \/ Fails(w) \/ Returns(w)
    \/ Dies

ContractSpec == ContractInit /\ [][ContractNext]_contractVars

=============================================================================
