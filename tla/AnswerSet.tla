----------------------------- MODULE AnswerSet -----------------------------
(***************************************************************************)
(* What an answer set says, as build and Listing::group_named of           *)
(* src/src/select.rs read it: which groups load, which problems are        *)
(* reported, and which documents fail the machine that asks for them.      *)
(*                                                                         *)
(* A document is filed under its kind, its name and its format.  Of its    *)
(* text only two things matter here: whether it parses, and the group it   *)
(* extends.  A problem is a record that tells apart exactly what the       *)
(* problem's message tells apart: the messages about an extends name the   *)
(* group or the machine but not its format, those about a document that    *)
(* does not parse name the file or row.                                    *)
(***************************************************************************)
EXTENDS Integers, FiniteSets, FiniteSetsExt

CONSTANTS
    GroupNames,   \* names a group may have, or an extends mention
    MachineIds,
    Formats,
    Keys,         \* the documents the store may hold
    None,         \* a document without an extends
    Absent        \* no document

AllKeys ==
    [kind: {"group"}, name: GroupNames, format: Formats]
        \cup [kind: {"machine"}, name: MachineIds, format: Formats]
        \cup [kind: {"default"}, name: {"default"}, format: Formats]

\* Documents that parse, and the one that does not: the admin API refuses it
\* (Doc::parse in put), hands at the store do not.
WellFormed == [parses: {TRUE}, extends: GroupNames \cup {None}]
Malformed == [parses |-> FALSE, extends |-> None]
Documents == WellFormed \cup {Malformed}

DocSets == [Keys -> Documents \cup {Absent}]

ASSUME AnswerSetAssumption ==
    /\ Keys \subseteq AllKeys
    /\ IsFiniteSet(GroupNames)
    /\ None \notin GroupNames
    /\ Absent \notin Documents

----------------------------------------------------------------------------
(* build: the extends chains of the groups *)

GroupKey(n, f) == [kind |-> "group", name |-> n, format |-> f]

\* Names of the groups of format f that parse.
Parsed(docs, f) ==
    {n \in GroupNames : GroupKey(n, f) \in Keys
                        /\ docs[GroupKey(n, f)] \in WellFormed}

\* The names the walk from group n visits, None after its end.  By the
\* length of this path a name has come up twice if one ever does.
Path(docs, f, n) ==
    LET path[i \in 0..Cardinality(GroupNames)] ==
            IF i = 0 THEN n
            ELSE IF path[i - 1] \in Parsed(docs, f)
                 THEN docs[GroupKey(path[i - 1], f)].extends
                 ELSE None
    IN  path

\* Where the path comes back to a name it has visited.
Returns(path) ==
    {j \in DOMAIN path : path[j] # None /\ \E i \in 0..(j - 1) : path[i] = path[j]}

\* What is reported of the chain of the parsed group n, at most one thing.
ChainProblems(docs, f, n) ==
    LET path == Path(docs, f, n)
    IN  {[what |-> "cycle", of |-> n, at |-> path[j]] :
            j \in {j \in Returns(path) : j = Min(Returns(path))}}
        \cup
        {[what |-> "unknown", of |-> n, at |-> path[j]] :
            j \in {j \in DOMAIN path : path[j] \notin Parsed(docs, f) \cup {None}}}

\* Groups a request can be given: those with a sound chain.
Loaded(docs, f) == {n \in Parsed(docs, f) : ChainProblems(docs, f, n) = {}}

\* A change of Known: a group counts as known as soon as it parses.
KnownParsed(docs) == UNION {Parsed(docs, f) : f \in Formats}

\* build's `known`: by name alone, in whatever format.
Known(docs) == UNION {Loaded(docs, f) : f \in Formats}

\* The documents other than groups that extend what is not known.
Dangling(docs) ==
    {k \in Keys : /\ k.kind # "group" /\ docs[k] # Absent
                  /\ docs[k].extends \notin Known(docs) \cup {None}}

\* What build reports.
Problems(docs) ==
    LET unparsed == {k \in Keys : docs[k] = Malformed}
        chains(f) == UNION {ChainProblems(docs, f, n) : n \in Parsed(docs, f)}
        dangling(kind) == {k \in Dangling(docs) : k.kind = kind}
    IN  UNION {
            {[what |-> "parse", of |-> k, at |-> None] : k \in unparsed},
            UNION {chains(f) : f \in Formats},
            {[what |-> "machine", of |-> k.name, at |-> docs[k].extends] :
                k \in dangling("machine")},
            {[what |-> "default", of |-> k, at |-> docs[k].extends] :
                k \in dangling("default")} }

----------------------------------------------------------------------------
(* resolve: the documents that answer their machine with an error, because *)
(* they do not parse or because no group of their own format that loads    *)
(* has the name they extend                                                *)

Failing(docs) ==
    {k \in Keys : /\ k.kind # "group"
                  /\ docs[k] # Absent
                  /\ \/ docs[k] = Malformed
                     \/ docs[k].extends \notin Loaded(docs, k.format) \cup {None}}
=============================================================================
