------------------------------ MODULE Selection ------------------------------
(***************************************************************************)
(* Listing and Answers::resolve (select.rs): which documents claim a       *)
(* request, and the answer composed of them. Groups have their extends     *)
(* chain in AnswerSet; here it is followed to lay one group on another.    *)
(*                                                                         *)
(* A document as the store gives it is                                     *)
(*    [what, id, format, doc]                                              *)
(* with `doc` what was parsed of it, or <<>>; read, it has a `control`.    *)
(***************************************************************************)
EXTENDS Formats, Facts

CONSTANT Rank   \* the order of characters, and of formats

Before(s, t) ==
    \E i \in DOMAIN t :
        /\ \A j \in 1 .. i - 1 : j <= Len(s) /\ s[j] = t[j]
        /\ i > Len(s) \/ Rank[s[i]] < Rank[t[i]]

(* Documents of a kind, sorted by name, then format.                       *)
Sorted(docs) ==
    SortSeq(docs, LAMBDA d, e : \/ Before(d.id, e.id)
                                \/ d.id = e.id /\ Rank[d.format] < Rank[e.format])

Of(what, docs) == SelectSeq(docs, LAMBDA d : d.what = what)

(* The names by which it claims a machine: its own, or its members'; one   *)
(* of punctuation only would be found in every request.                    *)
Identity(d) ==
    (IF d.what = "machine" THEN {Normalize(d.id)}
     ELSE {Normalize(m) : m \in d.control.members}) \ {<<>>}

Read(docs) ==
    [i \in DOMAIN docs |->
        docs[i] @@ [control |-> IF docs[i].doc = <<>> THEN NoControl ELSE Control(docs[i].doc[1])]]

----------------------------------------------------------------------------
(* build: a group laid over those it extends, of its own format *)

RECURSIVE Chain(_, _, _)
Chain(groups, d, seen) ==
    IF d.id \in seen THEN <<>>
    ELSE IF d.control.extends = <<>> THEN <<d.doc[1]>>
    ELSE LET up == SelectSeq(groups, LAMBDA g : g.id = d.control.extends /\ g.format = d.format)
             rest == IF up = <<>> THEN <<>> ELSE Chain(groups, up[1], seen \cup {d.id})
         IN  IF rest = <<>> THEN <<>> ELSE Merge(rest[1], d.doc[1])

(* The groups a request can be given, each with its chain merged.          *)
Groups(docs) ==
    LET parsed == SelectSeq(Read(Of("group", docs)), LAMBDA d : d.doc # <<>>)
        merged == [i \in DOMAIN parsed |->
                      [parsed[i] EXCEPT !.doc = Chain(parsed, parsed[i], {})]]
    IN  Sorted(SelectSeq(merged, LAMBDA d : d.doc # <<>>))

(* A change of Candidates: as the store lists them.                        *)
CandidatesAsListed(docs) == Read(Of("machine", docs))

(* A broken machine document is kept, so that its machine hears of it.     *)
Candidates(docs) == Sorted(Read(Of("machine", docs)))

----------------------------------------------------------------------------
(* resolve *)

IdentityScore == 1000

(* How strongly a document claims the request, 0 where it does not.        *)
Score(d, facts) ==
    IF \E n \in Identity(d) : Occurs(n, facts.haystack) THEN IdentityScore
    ELSE IF \A m \in d.control.matchers : Matches(facts, m[1], m[2]) THEN Cardinality(d.control.matchers)
    ELSE 0

(* What the endpoint asks for, from the first segment that says it.        *)
Asked(facts) ==
    LET said == SelectSeq(Values(facts, <<"segment">>), LAMBDA s : s[1] \in DOMAIN EndpointFormats)
    IN  IF said = <<>> THEN AllFormats ELSE EndpointFormats[said[1][1]]

Acceptable(docs, facts) == SelectSeq(docs, LAMBDA d : d.format \in Asked(facts))

(* A claim comes before another by its score, then by its name.            *)
Above(d, e) == d.score > e.score \/ (d.score = e.score /\ Before(d.id, e.id))

(* Of the documents left the last one there is, as max_by has it.          *)
Foremost(claims) ==
    LET top == SelectSeq(claims, LAMBDA d : \A i \in DOMAIN claims : ~ Above(claims[i], d))
    IN  IF top = <<>> THEN <<>> ELSE <<Last(top)>>

Scored(docs, facts) == [i \in DOMAIN docs |-> docs[i] @@ [score |-> Score(docs[i], facts)]]

Best(docs, facts) ==
    Foremost(SelectSeq(Scored(Acceptable(docs, facts), facts), LAMBDA d : d.score > 0))

GroupNamed(groups, format, name) ==
    SelectSeq(groups, LAMBDA g : g.id = name /\ g.format = format)

(* Facts to fill in, of several values the first; what matched is not      *)
(* among a request's own.                                                  *)
Lookup(facts, machine, group) ==
    LET keys == {facts.labels[i][1][1] : i \in {j \in DOMAIN facts.labels :
                                                  Len(facts.labels[j][1]) = 1}}
        named(k) == IF k = "machine" THEN machine ELSE IF k = "group" THEN group
                    ELSE Values(facts, <<k>>)[1]
    IN  [k \in {x \in keys \cup {"machine", "group"} : named(x) # <<>>} |-> named(k)]

Fails == [is |-> "error"]

Delivered(filled, from) ==
    IF filled = <<>> THEN Fails
    ELSE [is |-> "served", doc |-> StripControl(filled[1]), format |-> from.format, from |-> from]

Served(merged, lookup, from) ==
    IF merged = <<>> THEN Fails ELSE Delivered(Substitute(merged[1], lookup), from)

(* What a document extends must be there; a group has been laid over its   *)
(* own already.                                                            *)
Composed(l, facts) ==
    IF l.top.doc = <<>> \/ (l.top.what # "group" /\ l.top.control.extends # <<>> /\ l.under = <<>>)
    THEN Fails
    ELSE Served(IF l.under = <<>> THEN l.top.doc ELSE Merge(l.under[1].doc[1], l.top.doc[1]),
                Lookup(facts, l.machine, l.group), l.top)

(* The document that answers, what it is laid over, and their names.       *)
Layers(machine, group, fallback, groups) ==
    IF machine # <<>>
    THEN <<[top |-> machine[1], under |-> group, machine |-> machine[1].id,
            group |-> IF group = <<>> THEN <<>> ELSE group[1].id]>>
    ELSE IF group # <<>>
    THEN <<[top |-> group[1], under |-> <<>>, machine |-> <<>>, group |-> group[1].id]>>
    ELSE IF fallback # <<>>
    THEN <<[top |-> fallback[1], machine |-> <<>>, group |-> <<>>,
            under |-> GroupNamed(groups, fallback[1].format, fallback[1].control.extends)]>>
    ELSE <<>>

(* The group a machine's document names, or one that claims the request.   *)
GroupFor(machine, groups, facts) ==
    IF machine # <<>> /\ machine[1].control.extends # <<>>
    THEN GroupNamed(groups, machine[1].format, machine[1].control.extends)
    ELSE Best(groups, facts)

AnswerOf(layers, facts) ==
    IF layers = <<>> THEN [is |-> "none"] ELSE Composed(layers[1], facts)

Among(machine, groups, fallback, facts) ==
    AnswerOf(Layers(machine, GroupFor(machine, groups, facts), fallback, groups), facts)

Resolve(docs, facts) ==
    Among(Best(Candidates(docs), facts), Groups(docs),
          Acceptable(Read(Of("default", docs)), facts), facts)

----------------------------------------------------------------------------
(* What is promised of an answer *)

Orders(docs) == {[i \in DOMAIN docs |-> docs[p[i]]] : p \in Permutations(DOMAIN docs)}

(* "the answer never depends on filesystem or row order": except where     *)
(* nothing claims the machine and several defaults would do for it.        *)
OrderIsIrrelevant(docs, facts, a) ==
    \/ Len(Acceptable(Of("default", docs), facts)) > 1 /\ a.is # "served"
    \/ Len(Acceptable(Of("default", docs), facts)) > 1 /\ a.from.what = "default"
    \/ \A o \in Orders(docs) : Resolve(o, facts) = a

(* "Naming a machine outranks any selector", and a name is claimed by no   *)
(* document of another format than the endpoint asks for.                  *)
NamesComeFirst(docs, facts, a) ==
    a.is = "served" =>
        /\ a.format \in Asked(facts)
        /\ \A i \in DOMAIN docs :
              /\ docs[i].what = "machine" /\ docs[i].format \in Asked(facts)
              /\ Normalize(docs[i].id) # <<>> /\ Occurs(Normalize(docs[i].id), facts.haystack)
              => /\ a.from.what = "machine"
                 /\ \E n \in Identity(a.from) : Occurs(n, facts.haystack)

(* "What reaches the installer is only what it understands": no key of     *)
(* ours, nothing left to fill in or filled in that would break it, all     *)
(* that the document says itself, over the group it names, of its format.  *)
NothingOfOurs(docs, a) ==
    a.is = "served" =>
        LET own == (CHOOSE i \in DOMAIN docs : /\ docs[i].what = a.from.what
                                               /\ docs[i].id = a.from.id
                                               /\ docs[i].format = a.from.format)
            said == docs[own].doc[1].body
            keeps(lines) == \A l \in ToSet(lines) :
                               IsDirective(l) \/ Wanting(l.is) \/ Contains(a.doc.body, l)
        IN  /\ Wanted(a.doc) = {}
            /\ \A v \in Scalars(a.doc) : "says" \in DOMAIN v => ~ Contains(v.says, "ctl")
            /\ a.from.control.extends # <<>> =>
                  \E i \in DOMAIN docs : /\ docs[i].what = "group" /\ docs[i].format = a.format
                                         /\ docs[i].id = a.from.control.extends
                                         /\ a.doc.kind = "text" => keeps(docs[i].doc[1].body)
            /\ a.doc.kind \in TreeKinds =>
                  /\ DOMAIN a.doc.body.of \cap ControlKeys = {}
                  /\ \A l \in Leaves(said) :
                        l[1][1] \in ControlKeys \/ Wanting(l[2].is) \/ l \in Leaves(a.doc.body)
            /\ a.doc.kind = "xml" => Named("answer-meta", a.doc.body.children) = <<>>
            /\ a.doc.kind = "text" =>
                  keeps(said) /\ \A i \in DOMAIN a.doc.body : ~ IsDirective(a.doc.body[i])

=============================================================================
