------------------------------- MODULE Formats -------------------------------
(***************************************************************************)
(* Answer documents as select.rs handles them (format/mod.rs, merge.rs,    *)
(* format/xml.rs): what they say about themselves, how one is laid over    *)
(* another, and how a request's facts are filled in.                       *)
(*                                                                         *)
(* TOML, YAML and JSON are trees here, a table being a function from its   *)
(* keys; XML is elements with attributes, a text and children; every other *)
(* format is a sequence of lines. The three parsers and renderers are      *)
(* libraries. A scalar [says] a text, or wants one to [fill] it in.        *)
(***************************************************************************)
EXTENDS Integers, Sequences, SequencesExt, FiniteSets

AllFormats == {"toml", "yaml", "yml", "json", "ign", "autoyast", "unattend", "xml",
               "ks", "cfg", "preseed", "seed", "ipxe"}
TreeKinds == {"toml", "yaml", "json"}

(* The formats an endpoint asks for; a segment that names none asks for    *)
(* nothing in particular.                                                  *)
EndpointFormats ==
    LET For(segments, formats) == [s \in segments |-> formats]
    IN  For({"proxmox", "pve", "toml"}, {"toml"})
        @@ For({"debian", "preseed"}, {"preseed", "seed"})
        @@ For({"rhel", "centos", "fedora", "alma", "rocky", "kickstart", "ks"}, {"ks"})
        @@ For({"ubuntu", "autoinstall", "cloudinit", "nocloud", "yaml", "yml"}, {"yaml", "yml"})
        @@ For({"suse", "opensuse", "autoyast"}, {"autoyast", "xml"})
        @@ For({"windows", "unattend"}, {"unattend", "xml"})
        @@ For({"flatcar", "coreos", "ignition", "ign", "json"}, {"ign", "json"})
        @@ For({"xml"}, {"xml"}) @@ For({"cfg"}, {"cfg"}) @@ For({"ipxe"}, {"ipxe"})

ControlKeys == {"extends", "members", "match"}

----------------------------------------------------------------------------
(* Trees *)

Leaf(v) == [table |-> FALSE, is |-> v]
Table(f) == [table |-> TRUE, of |-> f]

RECURSIVE MergeTree(_, _)
MergeTree(base, over) ==
    IF base.table /\ over.table
    THEN Table([k \in DOMAIN base.of \cup DOMAIN over.of |->
                    CASE k \notin DOMAIN over.of -> base.of[k]
                      [] k \notin DOMAIN base.of -> over.of[k]
                      [] OTHER -> MergeTree(base.of[k], over.of[k])])
    ELSE over

(* The scalars of a tree, and its empty tables, with where they are.       *)
RECURSIVE Leaves(_)
Leaves(t) ==
    IF t.table /\ DOMAIN t.of # {}
    THEN UNION {{<<(<<k>> \o l[1]), l[2]>> : l \in Leaves(t.of[k])} : k \in DOMAIN t.of}
    ELSE {<< <<>>, t>>}

(* What laying one tree over another comes to: all of the upper one, and   *)
(* of the lower one what the upper says nothing about.                     *)
Layered(base, over, merged) ==
    LET B == Leaves(base)
        O == {l \in Leaves(over) : ~ l[2].table}
        touches(p, q) == IsPrefix(p, q) \/ IsPrefix(q, p)
    IN  /\ O \subseteq Leaves(merged)
        /\ \A l \in B : ~ l[2].table /\ (\A o \in Leaves(over) : ~ touches(o[1], l[1]))
                            => l \in Leaves(merged)
        /\ \A l \in Leaves(merged) : l \in Leaves(over) \cup B

----------------------------------------------------------------------------
(* XML: an element is a name, its discriminator, other attributes, a text, *)
(* and its children                                                        *)

Nothing == [says |-> <<>>]

Element(name, disc, attrs, text, children) ==
    [name |-> name, disc |-> disc, attrs |-> attrs, text |-> text, children |-> children]

(* A change of Key: siblings are told apart by their name alone.           *)
KeyByName(e) == <<e.name>>

Key(e) == <<e.name, e.disc>>

Named(n, es) == SelectSeq(es, LAMBDA e : e.name = n)
Without(n, es) == SelectSeq(es, LAMBDA e : e.name # n)
IsKeyed(es) == \E i \in DOMAIN es : es[i].disc # ""
DeclaredList(es) == \E i \in DOMAIN es : "list" \in DOMAIN es[i].attrs

(* A list replaces the list there was; anything else is paired.            *)
Replaces(old, new) ==
    \/ DeclaredList(old \o new)
    \/ (Len(old) > 1 \/ Len(new) > 1) /\ ~ IsKeyed(old \o new)

RECURSIVE MergeElement(_, _)
MergeElement(base, over) ==
    LET pair(children, e) ==
            LET at == {i \in DOMAIN children : Key(children[i]) = Key(e)}
            IN  IF at = {} THEN Append(children, e)
                ELSE LET i == Min(at) IN [children EXCEPT ![i] = MergeElement(@, e)]
        group(children, n) ==
            LET old == Named(n, children)
                new == Named(n, over.children)
            IN  IF Replaces(old, new) THEN Without(n, children) \o new
                ELSE FoldLeft(pair, children, new)
        names == SetToSeq({over.children[i].name : i \in DOMAIN over.children})
    IN  [base EXCEPT !.disc = IF over.disc # "" THEN over.disc ELSE @,
                     !.attrs = over.attrs @@ @,
                     !.text = IF over.text # Nothing THEN over.text ELSE @,
                     !.children = FoldLeft(group, @, names)]

(* Siblings of one name are a list, or each of those laid over the others  *)
(* can be told apart.                                                      *)
RECURSIVE ToldApart(_, _)
ToldApart(base, over) ==
    /\ \A i, j \in DOMAIN over.children :
          /\ i # j /\ over.children[i].name = over.children[j].name
          /\ IsKeyed(Named(over.children[i].name, base.children \o over.children))
          => over.children[i].disc # over.children[j].disc
    /\ \A i \in DOMAIN base.children, j \in DOMAIN over.children :
          base.children[i].name = over.children[j].name
            => ToldApart(base.children[i], over.children[j])

(* All that an element says is said by another, or by its descendants.     *)
RECURSIVE Says(_, _)
Says(big, small) ==
    /\ \A a \in DOMAIN small.attrs : a \in DOMAIN big.attrs /\ big.attrs[a] = small.attrs[a]
    /\ small.text # Nothing => big.text = small.text
    /\ small.name = big.name /\ small.disc \in {"", big.disc}
    /\ \A i \in DOMAIN small.children :
          \E j \in DOMAIN big.children : Says(big.children[j], small.children[i])

(* What an element keeps of the one it was laid over: each attribute, and  *)
(* the text, that the upper one has none of; and each child, but for those *)
(* of a list that is replaced. A child with one of its name and            *)
(* discriminator above it is in the same place all that both of them say;  *)
(* of several alike the first is, and any other child is as it was.        *)
RECURSIVE Keeps(_, _, _)
Keeps(merged, base, over) ==
    LET alike(e, o) == e.name = o.name /\ e.disc = o.disc
        replaced(n) == LET new == Named(n, over.children)
                       IN  new # <<>> /\ Replaces(Named(n, base.children), new)
        above(i) == {o \in ToSet(over.children) :
                        /\ alike(base.children[i], o)
                        /\ \A k \in 1 .. i - 1 : ~ alike(base.children[k], o)}
    IN  /\ merged.name = base.name
        /\ over.disc = "" => merged.disc = base.disc
        /\ \A a \in DOMAIN base.attrs \ DOMAIN over.attrs :
              a \in DOMAIN merged.attrs /\ merged.attrs[a] = base.attrs[a]
        /\ over.text = Nothing => merged.text = base.text
        /\ \A i \in DOMAIN base.children :
              \/ replaced(base.children[i].name)
              \/ \E m \in ToSet(merged.children) :
                    IF above(i) = {} THEN m = base.children[i]
                    ELSE \A o \in above(i) : Says(m, o) /\ Keeps(m, base.children[i], o)

----------------------------------------------------------------------------
(* Lines: content, or a directive of this server's own *)

Line(v) == [directive |-> FALSE, is |-> v]
Directive(v) == [directive |-> TRUE, is |-> v]

IsDirective(line) == line.directive

----------------------------------------------------------------------------
(* control: what a document says of its place among the others, which is   *)
(* not for an installer. In a tree a list is a leaf, [list |-> texts]; a   *)
(* directive is one of extends, members, match, or none of these.          *)

NoControl == [extends |-> <<>>, members |-> {}, matchers |-> {}]

TreeControl(t) ==
    LET has(k, f) == t.table /\ k \in DOMAIN t.of /\ ~ t.of[k].table /\ f \in DOMAIN t.of[k].is
        criteria == IF t.table /\ "match" \in DOMAIN t.of /\ t.of["match"].table
                    THEN t.of["match"].of ELSE <<>>
    IN  [extends |-> IF has("extends", "says") THEN t.of["extends"].is.says ELSE <<>>,
         members |-> IF has("members", "list") THEN t.of["members"].is.list ELSE {},
         matchers |-> {<< <<k>>, criteria[k].is.says>> :
                          k \in {x \in DOMAIN criteria : ~ criteria[x].table /\ "says" \in DOMAIN criteria[x].is}}]

(* The first element of ours.                                              *)
XmlControl(root) ==
    LET metas == Named("answer-meta", root.children)
        meta == metas[1]
        members == ToSet(Named("member", meta.children))
    IN  IF metas = <<>> THEN NoControl
        ELSE [extends |-> IF "extends" \in DOMAIN meta.attrs THEN meta.attrs.extends.says ELSE <<>>,
              members |-> {e.text.says : e \in members} \ {<<>>},
              matchers |-> UNION {{<< <<k>>, e.attrs[k].says>> : k \in DOMAIN e.attrs} :
                                     e \in ToSet(Named("match", meta.children))}]

(* The last line that extends, and all of the others.                      *)
TextControl(lines) ==
    LET said(verb) == SelectSeq(lines, LAMBDA l : IsDirective(l) /\ verb \in DOMAIN l.is)
        up == said("extends")
    IN  [extends |-> IF up = <<>> THEN <<>> ELSE Last(up).is.extends,
         members |-> UNION {l.is.members : l \in ToSet(said("members"))},
         matchers |-> UNION {l.is.match : l \in ToSet(said("match"))}]

Control(d) ==
    CASE d.kind \in TreeKinds -> TreeControl(d.body)
      [] d.kind = "xml"  -> XmlControl(d.body)
      [] d.kind = "text" -> TextControl(d.body)

----------------------------------------------------------------------------
(* Documents *)

(* Nothing where the two are of different kinds.                           *)
Merge(base, over) ==
    IF base.kind # over.kind THEN <<>>
    ELSE CASE base.kind \in TreeKinds -> <<[over EXCEPT !.body = MergeTree(base.body, over.body)]>>
           [] base.kind = "xml"  -> <<[over EXCEPT !.body = MergeElement(base.body, over.body)]>>
           [] base.kind = "text" -> <<[over EXCEPT !.body = base.body \o over.body]>>

StripControl(d) ==
    CASE d.kind \in TreeKinds ->
            IF d.body.table
            THEN [d EXCEPT !.body.of = [k \in DOMAIN @ \ ControlKeys |-> @[k]]]
            ELSE d
      [] d.kind = "xml"  -> [d EXCEPT !.body.children = Without("answer-meta", @)]
      [] d.kind = "text" -> [d EXCEPT !.body = SelectSeq(@, LAMBDA l : ~ IsDirective(l))]

(* Scalars to be filled in. (The lists of this model hold names only.)     *)
Wants(key) == [fill |-> key]
Wanting(v) == "fill" \in DOMAIN v
Fill(v, lookup) == IF Wanting(v) THEN [says |-> lookup[v.fill]] ELSE v

RECURSIVE FillTree(_, _)
FillTree(t, lookup) ==
    IF t.table THEN Table([k \in DOMAIN t.of |-> FillTree(t.of[k], lookup)])
    ELSE Leaf(Fill(t.is, lookup))

RECURSIVE FillElement(_, _)
FillElement(e, lookup) ==
    [e EXCEPT !.text = Fill(@, lookup),
              !.attrs = [a \in DOMAIN @ |-> Fill(@[a], lookup)],
              !.children = [i \in DOMAIN @ |-> FillElement(@[i], lookup)]]

RECURSIVE ScalarsOf(_)
ScalarsOf(e) ==
    {e.text} \cup {e.attrs[a] : a \in DOMAIN e.attrs}
        \cup UNION {ScalarsOf(e.children[i]) : i \in DOMAIN e.children}

Scalars(d) ==
    CASE d.kind \in TreeKinds -> {l[2].is : l \in {x \in Leaves(d.body) : ~ x[2].table}}
      [] d.kind = "xml"  -> ScalarsOf(d.body)
      [] d.kind = "text" -> {l.is : l \in ToSet(d.body)}

(* The keys a document wants a value for; directives are not spared.       *)
Wanted(d) == {v.fill : v \in {x \in Scalars(d) : Wanting(x)}}

(* An error where a key has no value, or one that may not be put in.       *)
Substitute(d, lookup) ==
    IF \E k \in Wanted(d) : k \notin DOMAIN lookup \/ Contains(lookup[k], "ctl")
    THEN <<>>
    ELSE <<[d EXCEPT !.body =
              CASE d.kind \in TreeKinds -> FillTree(@, lookup)
                [] d.kind = "xml"  -> FillElement(@, lookup)
                [] d.kind = "text" -> [i \in DOMAIN @ |-> [@[i] EXCEPT !.is = Fill(@, lookup)]]]>>

=============================================================================
