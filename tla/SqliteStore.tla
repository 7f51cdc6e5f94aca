----------------------------- MODULE SqliteStore -----------------------------
(***************************************************************************)
(* The SQLite store (store/sqlite.rs): this process's connection behind a  *)
(* mutex, and another process (an import, an operator's shell) writing to  *)
(* the same file through a connection of its own. A key is a row of one of *)
(* the three tables, which a snapshot reads in turn; every statement is a  *)
(* transaction of its own.                                                 *)
(***************************************************************************)
EXTENDS StoreData, Integers

CONSTANTS SchemaVersion,    \* what this binary understands
          MaxRevision       \* bounds the writes of a behaviour

ASSUME SqlAssumption == SchemaVersion \in Nat \ {0} /\ None # "reader"

VARIABLES foreign,  \* the writers that are of the other process
          schema,   \* the file's user_version; 0 is a file with nothing in it
          opened,   \* "no", "yes", or "refused"
          row,      \* the three tables
          lock,     \* who holds the connection: a writer, "reader", or None
          revision, \* the token `version` gives
          session,   \* each writer's call
          select,   \* the tables the snapshot under way has still to read
          rows,     \* what it has read of each key
          had       \* every document each key has had since it began

sqlVars == <<foreign, schema, opened, row, lock, revision, session, select, rows, had>>

SqlResting == [op |-> "idle"]

SqlInit ==
    /\ foreign \in SUBSET Writer
    /\ schema \in 0..(SchemaVersion + 1)
    /\ opened = "no"
    /\ row \in [Key -> Body \cup {None}]
    /\ schema = 0 => row = [k \in Key |-> None]
    /\ lock = None
    /\ revision = 0
    /\ session = [w \in Writer |-> SqlResting]
    /\ select = {}
    /\ rows = [k \in Key |-> None]
    /\ had = [k \in Key |-> {}]

(* open: a schema of a newer binary is refused, an empty file gets ours.   *)
Open ==
    /\ opened = "no"
    /\ IF schema > SchemaVersion
       THEN opened' = "refused" /\ UNCHANGED schema
       ELSE opened' = "yes" /\ schema' = SchemaVersion
    /\ UNCHANGED <<row, lock, revision, session, select, rows>>

Statement(w) ==
    /\ opened = "yes" /\ session[w] = SqlResting
    /\ revision < MaxRevision
    /\ \E k \in Key, b \in Body :
          \/ session' = [session EXCEPT ![w] = [op |-> "put", key |-> k, body |-> b]]
          \/ session' = [session EXCEPT ![w] = [op |-> "delete", key |-> k]]
    /\ UNCHANGED <<schema, opened, row, lock, revision, select, rows>>

(* The guard lives to the end of the statement, so that taking the lock,   *)
(* executing and letting it go are one step of this process. A database    *)
(* busy for longer than its timeout is an error, and writes nothing.       *)
Execute(w) ==
    /\ session[w].op \in {"put", "delete"}
    /\ w \in foreign \/ lock = None
    /\ LET k == session[w].key IN
       \/ /\ row' = [row EXCEPT ![k] = IF session[w].op = "put" THEN session[w].body ELSE None]
          /\ session' = [session EXCEPT ![w] =
                 [op |-> "bump",
                  result |-> IF session[w].op = "put" THEN "ok"
                             ELSE IF row[k] = None THEN "absent" ELSE "removed"]]
       \/ /\ session' = [session EXCEPT ![w] = [op |-> "done", result |-> "error"]]
          /\ UNCHANGED row
    /\ UNCHANGED <<schema, opened, lock, revision, select, rows>>

(* Bumped after the statement, and only in the process that made it.       *)
Bump(w) ==
    /\ session[w].op = "bump"
    /\ revision' = IF w \in foreign THEN revision ELSE revision + 1
    /\ session' = [session EXCEPT ![w] = [op |-> "done", result |-> session[w].result]]
    /\ UNCHANGED <<schema, opened, row, lock, select, rows>>

SqlReturn(w) ==
    /\ session[w].op = "done"
    /\ session' = [session EXCEPT ![w] = SqlResting]
    /\ UNCHANGED <<schema, opened, row, lock, revision, select, rows>>

(* A process dies and its calls with it: SQLite's journal keeps the        *)
(* statements that were made and undoes the one that was not. Ours starts  *)
(* again, with a connection it opens anew and a count of its own.          *)
OursDies ==
    /\ session' = [w \in Writer |-> IF w \in foreign THEN session[w] ELSE SqlResting]
    /\ opened' = "no" /\ lock' = None /\ revision' = 0
    /\ select' = {} /\ rows' = [k \in Key |-> None]
    /\ UNCHANGED <<schema, row>>

TheirsDies ==
    /\ session' = [w \in Writer |-> IF w \in foreign THEN SqlResting ELSE session[w]]
    /\ UNCHANGED <<schema, opened, row, lock, revision, select, rows>>

(* snapshot: three SELECTs under the one lock. One that fails ends it, and *)
(* nothing is given.                                                       *)
SnapshotBegins ==
    /\ opened = "yes" /\ lock = None
    /\ lock' = "reader"
    /\ select' = Key
    /\ rows' = [k \in Key |-> None]
    /\ UNCHANGED <<schema, opened, row, revision, session>>

SelectNext ==
    /\ lock = "reader"
    /\ \E k \in select :
          rows' = [rows EXCEPT ![k] = row[k]] /\ select' = select \ {k}
    /\ UNCHANGED <<schema, opened, row, lock, revision, session>>

SnapshotEnds ==
    /\ lock = "reader"
    /\ lock' = None
    /\ select' = {}
    /\ rows' = [k \in Key |-> None]
    /\ UNCHANGED <<schema, opened, row, revision, session>>

SqlRemember ==
    had' = [k \in Key |->
        IF lock' # "reader" THEN {}
        ELSE (IF lock # "reader" THEN {} ELSE had[k]) \cup {row'[k]}]

SqlNext ==
    /\ \/ Open \/ SnapshotBegins \/ SelectNext \/ SnapshotEnds \/ OursDies \/ TheirsDies
       \/ \E w \in Writer : Statement(w) \/ Execute(w) \/ Bump(w) \/ SqlReturn(w)
    /\ SqlRemember
    /\ UNCHANGED foreign

SqlSpec == SqlInit /\ [][SqlNext]_sqlVars

(* A call before, between and after its statement and its bump.            *)
Sessions ==
    {SqlResting}
    \cup [op : {"put"}, key : Key, body : Body]
    \cup [op : {"delete"}, key : Key]
    \cup [op : {"bump"}, result : {"ok", "absent", "removed"}]
    \cup [op : {"done"}, result : {"ok", "error", "absent", "removed"}]

SqlTypeOK ==
    /\ foreign \subseteq Writer
    /\ schema \in 0..(SchemaVersion + 1)
    /\ opened \in {"no", "yes", "refused"}
    /\ row \in [Key -> Body \cup {None}]
    /\ lock \in {None, "reader"}
    /\ revision \in Nat
    /\ session \in [Writer -> Sessions]
    /\ select \subseteq Key
    /\ rows \in [Key -> Body \cup {None}] /\ had \in [Key -> SUBSET (Body \cup {None})]
    /\ opened = "yes" => schema = SchemaVersion

SqlCall == [w \in Writer |->
    IF session[w].op = "bump" THEN [op |-> "done", result |-> session[w].result]
    ELSE session[w]]

SqlPromise == INSTANCE StoreContract WITH doc <- row, call <- SqlCall, amiss <- {}

(* What a snapshot gives for a key was in its row since the snapshot began,*)
(* though another process writes between the SELECTs.                      *)
RowsAreOfTheirTime ==
    lock = "reader" /\ select = {} => \A k \in Key : rows[k] \in had[k]

=============================================================================
