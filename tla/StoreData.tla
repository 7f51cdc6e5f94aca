------------------------------ MODULE StoreData ------------------------------
(***************************************************************************)
(* What a store of answer documents is about (store/mod.rs), whichever     *)
(* backend holds it.                                                       *)
(***************************************************************************)
CONSTANTS Writer,   \* who calls the store
          Key,      \* what a document is for: an identity and a format
          Body,     \* documents
          None      \* no document

ASSUME StoreDataAssumption == None \notin Body

=============================================================================
