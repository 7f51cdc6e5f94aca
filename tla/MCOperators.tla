----------------------------- MODULE MCOperators -----------------------------
(***************************************************************************)
(* The algorithms of the system that keep no state, for TLC: a behaviour   *)
(* is a question, one of the bounded inputs of one of them, and its        *)
(* answer, which the invariants hold against what the code promises; or it *)
(* is one of a loop of modules Glob, Digest and Streaming, while the other *)
(* two stay where they begin, with nothing to do.                          *)
(***************************************************************************)
EXTENDS Commands, Image, Settings, Boot, Published, Glob, Digest, Streaming

CONSTANTS Abouts,   \* which algorithms are asked
          Longest,  \* pattern, and text
          o1, o2    \* two octets

VARIABLES question, answer

vars == <<question, answer, globVars, digestVars, streamVars>>

UpTo(S, n) == UNION {[1 .. k -> S] : k \in 0 .. n}

----------------------------------------------------------------------------
Scalar == {Leaf([says |-> "x"]), Leaf([says |-> "y"])}
Tables(S) == {Table(f) : f \in UNION {[D -> S] : D \in SUBSET {"k", "l"}}}
Trees == Tables(Scalar \cup Tables(Scalar))

TreeQuestions == [about : {"tree"}, base : Trees, over : Trees]

Child(disc, attrs, says, children) == Element("c", disc, attrs, says, children)
NoAttrs == [a \in {} |-> Nothing]
One == [says |-> <<"one">>]
Two == [says |-> <<"two">>]
Children == {Child(d, NoAttrs, t, <<>>) : d \in {"", "A", "B"}, t \in {Nothing, One, Two}}
                \cup {Child("", [list |-> One], One, <<>>),
                      Child("A", [arch |-> One], Nothing, <<Child("", NoAttrs, One, <<>>)>>),
                      Child("A", [arch |-> Two], Nothing, <<Child("", NoAttrs, Two, <<>>)>>),
                      Element("d", "A", NoAttrs, One, <<>>)}
Roots == {Element("root", "", NoAttrs, Nothing, c) : c \in UpTo(Children, 2)}

XmlQuestions == [about : {"xml"}, base : Roots, over : Roots]

----------------------------------------------------------------------------
(* The documents an answer set may hold, up to three of them at once.      *)
Text(v) == [says |-> <<v>>]
Keys(f) == [kind |-> "toml", body |-> Table(f)]
Lines(ls) == [kind |-> "text", body |-> ls]
Elements(es) == [kind |-> "xml", body |-> Element("root", "", NoAttrs, Nothing, es)]
Extends(g) == Leaf([says |-> <<g>>])
Members(names) == Leaf([list |-> names])
Match(f) == Table([k \in DOMAIN f |-> Leaf([says |-> f[k]])])
Meta(attrs, children) == Element("answer-meta", "", attrs, Nothing, children)
Bare(name, attrs, v) == Element(name, "", attrs, v, <<>>)

Doc(what, id, format, doc) == [what |-> what, id |-> id, format |-> format, doc |-> doc]

Pool == {
    Doc("machine", <<"a", "b">>, "toml", <<Keys([k |-> Leaf(Text("m"))])>>),
    Doc("machine", <<"a", "b">>, "toml", <<Keys([extends |-> Extends("r"), l |-> Leaf(Wants("machine"))])>>),
    Doc("machine", <<"A", "-", "b">>, "toml", <<Keys([k |-> Leaf(Text("n"))])>>),
    Doc("machine", <<"a", "b">>, "ks",
        <<Lines(<<Directive([extends |-> <<"r">>]), Directive([unknown |-> "x"]), Line(Text("m"))>>)>>),
    Doc("machine", <<"c">>, "ks", <<>>),
    Doc("machine", <<"c">>, "toml",
        <<Keys([match |-> Match([serial |-> <<"a", "*">>, mac |-> <<"?", "-", "b">>]), k |-> Leaf(Text("c"))])>>),
    Doc("machine", <<"a", "b">>, "xml", <<Elements(<<Bare("k", NoAttrs, Text("m"))>>)>>),
    Doc("machine", <<"a", "b">>, "xml",
        <<Elements(<<Meta([extends |-> Text("r")], <<>>), Bare("k", NoAttrs, Wants("mac"))>>)>>),
    Doc("group", <<"r">>, "toml",
        <<Keys([members |-> Members({<<"A", "b">>}), k |-> Leaf(Text("r")), l |-> Leaf(Wants("serial"))])>>),
    Doc("group", <<"r">>, "ks",
        <<Lines(<<Directive([match |-> {<<<<"serial">>, <<"*", "b">>>>}]), Line(Text("r")), Line(Wants("serial"))>>)>>),
    Doc("group", <<"r">>, "xml",
        <<Elements(<<Meta(NoAttrs, <<Bare("match", [serial |-> Text("*")], Nothing), Bare("member", NoAttrs, Text("c"))>>),
                     Bare("k", [l |-> Wants("group")], Text("r"))>>)>>),
    Doc("group", <<"s">>, "toml",
        <<Keys([extends |-> Extends("r"), match |-> Match([serial |-> <<"*">>]), k |-> Leaf(Text("s"))])>>),
    Doc("group", <<"s">>, "autoyast",
        <<Elements(<<Meta(NoAttrs, <<Bare("match", [file |-> Text("*")], Nothing)>>),
                     Bare("l", NoAttrs, Wants("serial"))>>)>>),
    Doc("group", <<"s">>, "autoyast",
        <<Elements(<<Meta(NoAttrs, <<Bare("member", NoAttrs, Text("b"))>>), Bare("l", NoAttrs, Wants("file"))>>)>>),
    Doc("group", <<"s">>, "autoyast",
        <<Elements(<<Meta(NoAttrs, <<Bare("member", NoAttrs, Text("b"))>>), Bare("l", NoAttrs, Wants("serial"))>>)>>),
    Doc("group", <<"r">>, "preseed", <<Lines(<<Directive([members |-> {<<"a", "b">>}]), Line(Text("s"))>>)>>),
    Doc("default", <<"d">>, "toml", <<Keys([extends |-> Extends("r"), k |-> Leaf(Text("d"))])>>),
    Doc("default", <<"d">>, "ks", <<Lines(<<Line(Text("d"))>>)>>) }

InOrder == <<"-", "A", "a", "b", "c", "d", "r", "s", "autoyast", "ks", "preseed", "toml", "xml", "yaml", "yml">>
MCRank == [c \in Range(InOrder) |-> CHOOSE i \in DOMAIN InOrder : InOrder[i] = c]

DocKey(d) == <<d.what, d.id, d.format>>

AnswerSets == {S \in UNION {kSubset(k, Pool) : k \in 0 .. 3} :
                  \A d, e \in S : DocKey(d) = DocKey(e) => d = e}

(* A body is a text or a JSON document, here of one key as well as two.    *)
Bodies ==
    [raw : {<<>>, <<"A", ":", "b">>}, body : {<<>>}]
        \cup [raw : {<<>>}, body : {<< << <<"dmi", "0", "serial">>, <<"a", "-", "b">> >>, << <<"nic", "mac">>, <<"A", "b">> >> >>,
                                    << << <<"c">>, <<"x">> >> >>}]

Requests ==
    {[path |-> p, query |-> q, raw |-> b.raw, body |-> b.body] :
        p \in {<<>>, << <<"pve">> >>, << <<"ks">>, <<"b">> >>, << <<"suse">> >>},
        q \in {<<>>, << <<"serial", <<"a", "c", "b">>>> >>, << <<"serial", <<"a", "ctl", "b">>>> >>},
        b \in Bodies}

ResolveQuestions == [about : {"resolve"}, docs : {SetToSeq(S) : S \in AnswerSets}, request : Requests]
CheckQuestions == [about : {"check"}, docs : {SetToSeq(S) : S \in AnswerSets}]

----------------------------------------------------------------------------
(* Images: a root of one or two sectors, each a sequence of the lengths of *)
(* its records, and perhaps a Joliet tree of one.                          *)
Layouts == {<<>>, <<3>>, <<4>>, <<2, 3>>, <<2, 4>>, <<3, 3>>, <<2, 2, 2>>, <<4, 3>>}
Firsts == {<<2>>, <<2, 2>>, <<2, 3>>, <<2, 4>>, <<2, 2, 2>>, <<2, 2, 3>>}
Roots1 == {<<a>> : a \in Firsts} \cup {<<a, b>> : a \in Firsts \ {<<2, 2, 3>>}, b \in Layouts}

(* The names of the records, the third being the one to be added, or not.  *)
RecordName(i, clash) == IF i = 1 THEN "." ELSE IF i = 3 /\ clash THEN "mode" ELSE <<"f", "g", "h", "i", "j">>[i - 1]

SectorOf(lens, from, data, clash) ==
    LET records == FlattenSeq([i \in DOMAIN lens |->
                       RecordOf(RecordName(from + i, clash), "", lens[i], data, (from + i) % 3)])
    IN  records \o Pads(Sector - Least(Len(records), Sector))

DirOf(sectors, data, clash) ==
    FlattenSeq([k \in DOMAIN sectors |->
        SectorOf(sectors[k], IF k = 1 THEN 0 ELSE Len(sectors[1]), data, clash)])

ImageOf(sectors, joliet, rr, udf, odd, clash) ==
    LET n == 2 + Len(sectors) + Len(joliet) + 1
        rootAt == 2 * Sector
        data == (n - 1) * Sector
        first == <<Blocks(n)>> \o Pads(Sector - 1)
        root == Cut(DirOf(sectors, data, clash), 0, Len(sectors) * Sector)
    IN  [cells |-> first \o (IF joliet = <<>> THEN Pads(Sector) ELSE first) \o root
                    \o DirOf(joliet, data, FALSE)
                    \o [i \in 1 .. Sector |-> Content("data", i)] \o (IF odd THEN <<Pad>> ELSE <<>>),
         root |-> [at |-> rootAt, size |-> Len(root)],
         joliet |-> IF joliet = <<>> THEN <<>> ELSE <<[at |-> rootAt + Len(root), size |-> Sector]>>,
         rockRidge |-> rr, udf |-> udf, pvd |-> 0, svd |-> IF joliet = <<>> THEN <<>> ELSE <<Sector>>]

PatchQuestions ==
    [about : {"patch"}, n : {0, 1, Sector, Sector + 1, Limit + 1},
     img : {ImageOf(s, j, rr, FALSE, FALSE, clash) : s \in Roots1, rr \in BOOLEAN, clash \in BOOLEAN,
                j \in {<<>>, << <<2>> >>, << <<2, 2>> >>, << <<2, 4>> >>}}
               \cup {ImageOf(<< <<2>> >>, <<>>, TRUE, udf, odd, FALSE) : udf, odd \in BOOLEAN}]

----------------------------------------------------------------------------
(* Two files, either of them missing or broken, and what is asked of them. *)
Spoken == {<<"sqlite">>, <<" ", "t">>, <<"dq", "t", "dq">>, <<" ", "dq">>, <<>>, <<"ctl">>, <<"t", "t">>}

Set(k, v) == [key |-> k, value |-> <<v>>]
Unset(k) == [key |-> k, value |-> <<>>]

Changes ==
    {<<Set(k, v)>> : k \in {"store", "admin_token"}, v \in Spoken}
        \cup {<<Unset(k)>> : k \in {"store", "admin_token", "stranger"}}
        \cup {<<Set("admin_addr", <<"8001">>), Set("admin_token", v), Set("store", <<"sqlite">>)>> : v \in Spoken}
        \cup {<<Set("workers", v)>> : v \in {<<" ", "2">>, <<"t">>}}
        \cup {<<Set("media_dir", <<"t">>), c>> : c \in {Unset("media_addr"), Set("media_addr", <<":0">>),
                                                     Set("media_dir", <<"t">>)}}

Note == Setting("note", "", "", <<>>)
EnvLines == {Note, Setting("junk", "", "", <<>>)}
    \cup {Setting(kind, "export", "store", <<" ", "sqlite">>) : kind \in {"live", "off"}}
    \cup {Setting(kind, "", k, v) : kind \in {"live", "off"}, k \in {"store", "admin_token"},
                                  v \in {<<"dq", " ", "t", "dq">>, <<>>}}
EnvFiles == {<<>>} \cup {<<ls>> : ls \in UpTo(EnvLines, 2)}
                 \cup {<< <<Note, Setting("live", "", "admin_addr", <<"9">>), Setting("live", "", "store", <<"sqlite">>),
                          Setting("live", "", "admin_token", <<"t", "t", " ", "t">>)>> >>}

TomlFile(table, item) ==
    <<[EmptyToml EXCEPT !.tables["store"] = table, !.items["store"] = item]>>
TomlFiles ==
    {<<>>, <<EmptyToml>>, <<[EmptyToml EXCEPT !.broken = TRUE]>>, TomlFile("value", <<>>)}
        \cup {TomlFile(table, <<item>>) : table \in {"section", "inline"},
                  item \in {Item(<<"sqlite">>), Item(<<" ">>), List}}
        \cup {<<[EmptyToml EXCEPT !.tables["admin"] = "section", !.items["admin_token"] = <<Item(<<"t", "t">>)>>,
                                 !.items["workers"] = <<Item(<<"2">>)>>]>>}

Environs == {NoVars, [store |-> <<"sqlite">>], [store |-> <<" ">>, workers |-> <<"t">>]}

World(named, toml, env, environ) == [named |-> named, toml |-> toml, env |-> env, environ |-> environ]

EditQuestions ==
    [about : {"edit"}, changes : Changes,
     w : {World({"env"}, <<>>, env, e) : env \in EnvFiles, e \in Environs}
            \cup {World(named, toml, env, e) :
                     named \in {{}, {"toml"}, {"toml", "env"}}, toml \in TomlFiles, e \in Environs,
                     env \in {<<>>} \cup {<<ls>> : ls \in UpTo(EnvLines, 1)}}]

----------------------------------------------------------------------------
(* Images as their vendors lay them out, and two that nobody claims.       *)
Laid(family, files, info, arch, beside) ==
    [family |-> family, img |-> [files |-> files, info |-> info, kernelArch |-> arch, beside |-> beside,
                                 infoArch |-> IF info = "proxmox" THEN arch ELSE ""]]

Skeleton == {"pxeboot/vmlinuz", "pxeboot/initrd.img"}

Images ==
    {Laid("proxmox", {"boot/linux26", "boot/initrd.img"}, "proxmox", "x86_64", FALSE),
     Laid("proxmox", {}, "proxmox", "arm64", TRUE), Laid("proxmox", {}, "proxmox", "x86_64", FALSE),
     Laid("debian", {"install.amd/vmlinuz", "install.amd/initrd.gz"}, "prose", "x86_64", FALSE),
     Laid("debian", {"install.a64/vmlinuz", "install.a64/initrd.gz"}, "prose", "arm64", TRUE),
     Laid("suse", {"loader/linux", "loader/initrd"}, "", "x86_64", FALSE),
     Laid("suse", {"aarch64/loader/linux", "aarch64/loader/initrd"}, "", "arm64", FALSE),
     Laid("unknown", {}, "", "", FALSE), Laid("unknown", {}, "", "", TRUE)}
        \cup {Laid(i[1], i[2], "", arch, FALSE) : arch \in {"x86_64", "arm64", ""},
                  i \in {<<"ubuntu", {"casper/vmlinuz", "casper/initrd"}>>, <<"rhel", Skeleton>>,
                        <<"coreos", Skeleton \cup {"pxeboot/rootfs.img"}>>}}

(* Names for two images; one of them may be a name the menu has a use for. *)
Ids == {<<"first", "second">>, <<"first", "local">>, <<"start", "retry">>}

ChainQuestions ==
    [about : {"chain"}, images : UpTo(Images, 2), ids : Ids, arch : {"x86_64", "arm64"}, unclaimed : BOOLEAN]

CatalogOf(q) == [i \in DOMAIN q.images |-> EntryOf(q.ids[i], q.images[i].img)]

(* What each installer takes as its answer.                                *)
Takes == [debian |-> "preseed", ubuntu |-> "yaml", rhel |-> "ks", suse |-> "autoyast", coreos |-> "ign"]

HandoffQuestions ==
    [about : {"handoff"}, one : BOOLEAN,
     format : {"dnsmasq", "isc", "kea", "powershell", "pfsense", "mikrotik"},
     b : [dir : BOOLEAN, files : SUBSET Loaders, port : {"8001", "8002"},
          tftp : {"off", "served", "refused", "silent, free", "silent, taken"}]]

----------------------------------------------------------------------------
(* Lines of an index, of versions of which the tenth is not the first.     *)
Versions == {<<1, 9>>, <<9, 1>>, <<9, 2>>, <<9, 12>>, <<12, 1>>}
Chars(n) == IF n = 12 THEN <<"1", "2">> ELSE <<CHOOSE d \in DOMAIN Digits : Digits[d] = n>>
NameOf(v) == <<"p", "-">> \o Chars(v[1]) \o <<".">> \o Chars(v[2])
VersionOf(name) == CHOOSE v \in Versions : NameOf(v) = name

Listed(name, form, digest, image) == [name |-> name, form |-> form, digest |-> digest, image |-> image]
IndexLines ==
    {Listed(NameOf(v), form, digest, TRUE) : v \in Versions, form \in {"bsd", "coreutils"}, digest \in {"a", "b"}}
        \cup {Listed(NameOf(<<9, 1>>), "comment", "a", TRUE), Listed(NameOf(<<9, 1>>), "bsd", "short", TRUE),
              Listed(NameOf(<<9, 2>>), "coreutils", "a", FALSE), Listed(<<"q", "-", "9">>, "bsd", "a", TRUE)}

IndexQuestions ==
    [about : {"index"}, keep : {<<"p", "-">>},
     lines : {ls \in UpTo(IndexLines, 3) : \A i, j \in DOMAIN ls : ls[i].name = ls[j].name => i = j}]

----------------------------------------------------------------------------
Option(name, value) == [name |-> name, value |-> value]
Options ==
    {Option("blksize", n) : n \in {-1, 0, 1, DefaultBlock, DefaultBlock + 1, MaxBlock + 1}}
        \cup {Option("timeout", n) : n \in {0, 1, 255, 256}}
        \cup {Option("tsize", 0), Option("windowsize", 4), Option("other", 1)}

RequestQuestions ==
    [about : {"request"}, opcode : {"read"}, filename : {"f"}, mode : {"octet"},
     options : UpTo(Options, 3), blksize : {<<>>} \cup {<<n>> : n \in 0 .. MaxBlock + 1}]
        \cup [about : {"request"}, opcode : {"short", "read", "write", "ack"}, filename : {"", "f"},
              mode : {"octet", "netascii"}, options : {<<>>}, blksize : {<<>>}]
FileSize == 3

Octets(n) == [1 .. n -> 0 .. 2^OctetBits - 1]
CidrQuestions ==
    [about : {"cidr"}, address : Octets(1) \cup Octets(2), network : Octets(1) \cup Octets(2),
     bits : 0 .. 2 * OctetBits + 1]

----------------------------------------------------------------------------
(* Every pattern and text of a few characters.                             *)
MCPatterns == UpTo(Character \cup Wildcard, Longest)
MCTexts == UpTo(Character, Longest)

(* Files of up to two blocks and a half.                                   *)
MCMessages == UpTo({o1, o2}, 4)
                  \cup {[i \in 1 .. n |-> IF i % 3 = 0 THEN o1 ELSE o2] : n \in 5 .. 10}

(* Files of seven and eight cells, and plans whose overwrites lie at       *)
(* either end of the source and across chunks.                             *)
Written(name, n) == [i \in 1 .. n |-> [c |-> name, i |-> i]]
MCCell == {Pad} \cup {[c |-> name, i |-> i] : name \in {"file", "over", "end", "tail"}, i \in 1 .. 8}
MCFiles == {Written("file", 7), Written("file", 8)}
MCExtents ==
    {[offset |-> 0, size |-> 8], [offset |-> 0, size |-> 6],
     [offset |-> 3, size |-> 4], [offset |-> 2, size |-> 0]}

Over2(at1, n1, at2, n2) ==
    <<[at |-> at1, cells |-> Written("over", n1)], [at |-> at2, cells |-> Written("end", n2)]>>
MCPlans == {[source |-> Written("file", 6), overwrites |-> o, tail |-> t] :
               o \in {<<>>, Over2(1, 3, 4, 2), Over2(5, 1, 0, 1)},
               t \in {Written("tail", 3), Written("tail", 6)}}

MCRanges == {NoRange} \cup [first : {-1, 0, 2, 7, 12}, last : {-1, 0, 4, 7, 13}]

Loops == [about : {"glob", "digest", "stream"} \cap Abouts]
SomeSource == [segments |-> <<Part(Written("file", 7), [offset |-> 2, size |-> 0])>>, resumable |-> TRUE]

----------------------------------------------------------------------------
Init ==
    /\ answer = <<>>
    /\ question \in UNION {
          IF "tree" \in Abouts THEN TreeQuestions ELSE {},
          IF "xml" \in Abouts THEN XmlQuestions ELSE {},
          IF "resolve" \in Abouts THEN ResolveQuestions ELSE {},
          IF "check" \in Abouts THEN CheckQuestions ELSE {},
          IF "patch" \in Abouts THEN PatchQuestions ELSE {},
          IF "edit" \in Abouts THEN EditQuestions ELSE {},
          IF "chain" \in Abouts THEN ChainQuestions ELSE {},
          IF "handoff" \in Abouts THEN HandoffQuestions ELSE {},
          IF "index" \in Abouts THEN IndexQuestions ELSE {},
          IF "request" \in Abouts THEN RequestQuestions ELSE {},
          IF "cidr" \in Abouts THEN CidrQuestions ELSE {},
          Loops }
    /\ IF question.about = "glob" THEN GlobInit
       ELSE pattern = <<>> /\ text = <<>> /\ GlobBegins
    /\ IF question.about = "digest" THEN DigestInit ELSE message = <<>> /\ DigestBegins
    /\ IF question.about = "stream" THEN StreamInit
       ELSE source = SomeSource /\ range = NoRange /\ raced = FALSE /\ head = FALSE /\ StreamBegins

Ask(about) == question.about = about /\ answer = <<>> /\ UNCHANGED question

AnswerTree == Ask("tree") /\ answer' = <<MergeTree(question.base, question.over)>>
AnswerXml == Ask("xml") /\ answer' = <<MergeElement(question.base, question.over)>>
AnswerResolve ==
    Ask("resolve") /\ answer' = <<Resolve(question.docs, FromRequest(question.request))>>

AnswerCheck == Ask("check") /\ answer' = <<Check(question.docs)>>

AnswerPatch == Ask("patch") /\ answer' = <<AddFile(question.img, "mode", question.n)>>

AnswerEdit == Ask("edit") /\ answer' = <<Edit(question.w, question.changes)>>

AnswerChain ==
    /\ Ask("chain")
    /\ answer' = <<[menu |-> Menu(CatalogOf(question)), bootstrap |-> Bootstrap(question.unclaimed)]>>
AnswerHandoff ==
    /\ Ask("handoff")
    /\ answer' = <<[snippet |-> Snippet(question.format, question.one), ok |-> BootCheck(question.b)]>>
AnswerIndex == Ask("index") /\ answer' = <<Offers(question.lines, question.keep)>>
AnswerRequest ==
    /\ Ask("request")
    /\ answer' = IF ParseRequest(question) # <<>> THEN << <<>> >>
                 ELSE << <<Negotiate(question.options, question.blksize, FileSize)>> >>
AnswerCidr == Ask("cidr") /\ answer' = <<InCidr(question.address, question.network, question.bits)>>

Next ==
    \/ /\ \/ AnswerTree \/ AnswerXml \/ AnswerResolve \/ AnswerCheck \/ AnswerPatch \/ AnswerEdit
          \/ AnswerChain \/ AnswerHandoff \/ AnswerIndex \/ AnswerRequest \/ AnswerCidr
       /\ UNCHANGED <<globVars, digestVars, streamVars>>
    \/ /\ question.about = "glob" /\ GlobNext
       /\ UNCHANGED <<question, answer, digestVars, streamVars>>
    \/ /\ question.about = "digest" /\ DigestNext
       /\ UNCHANGED <<question, answer, globVars, streamVars>>
    \/ /\ question.about = "stream" /\ StreamNext
       /\ UNCHANGED <<question, answer, globVars, digestVars>>

Spec == Init /\ [][Next]_vars

Told(about) == question.about = about /\ answer # <<>>

(* Which documents answer a request is no accident of the order a store    *)
(* lists them in (select.rs, facts.rs): the answer is the same in every    *)
(* order, a machine named outright comes before one that merely matches,   *)
(* and nothing that steers this server reaches the machine.                *)
SelectionIsAsPromised ==
    /\ Told("resolve") =>
          LET facts == FromRequest(question.request)
          IN  /\ OrderIsIrrelevant(question.docs, facts, answer[1])
              /\ NamesComeFirst(question.docs, facts, answer[1])
              /\ NothingOfOurs(question.docs, answer[1])
    /\ Told("check") /\ answer[1] => CheckedIsServed(question.docs)

(* One document laid over another says all it said, and of the one below   *)
(* all that nothing is said about above: in a tree every scalar, in XML    *)
(* every attribute, text and child that is not of a list the upper one     *)
(* replaces (merge.rs, format/xml.rs).                                     *)
LayersAreKept ==
    /\ Told("tree") => Layered(question.base, question.over, answer[1])
    /\ Told("xml") /\ ToldApart(question.base, question.over) =>
          Says(answer[1], question.over) /\ Keeps(answer[1], question.base, question.over)

(* An image into which a file was added is the image it was for all that   *)
(* its readers find, plus that file (patch.rs).                            *)
ImagesAreServedWhole ==
    Told("patch") /\ answer[1] # <<>> =>
        ReadersFindIt(question.img, answer[1][1], "mode", question.n)

(* The settings an edit is answered by.                                    *)
Target(w) == IF "toml" \in w.named THEN TomlVars(w) ELSE Under(w)

(* An unset setting of an inline table stays, and nothing says so.         *)
Hidden(w, k) == /\ "toml" \in w.named /\ TableOf(k) # ""
                /\ TomlOf(w).tables[TableOf(k)] = "inline"

(* What the changes ask of the settings there are.                         *)
Wished(w, c) ==
    LET last(k) == c[Max({i \in DOMAIN c : c[i].key = k})].value
        said == {c[i].key : i \in DOMAIN c}
    IN  [k \in {x \in said : last(x) # <<>>} |-> last(k)[1]]
            @@ [k \in DOMAIN Target(w) \ said |-> Target(w)[k]]

(* What an edit may be refused for.                                        *)
Refusable(w, c) ==
    \/ w.named = {} \/ Strangers(c) \/ GivenTwice(c)
    \/ "toml" \in w.named /\ ParseToml(TomlOf(w)) = <<>>
    \/ "toml" \notin w.named /\ ParseEnv(EnvOf(w)) = <<>>
    \/ \E i \in DOMAIN c : c[i].value # <<>> /\
          \/ "toml" \notin w.named /\ ToSet(c[i].value[1]) \cap {"ctl", "dq", "sq"} # {}
          \/ "toml" \in w.named /\ TableOf(c[i].key) # "" /\ TomlOf(w).tables[TableOf(c[i].key)] \in {"inline", "value"}
    \/ ~ Valid(IF "toml" \in w.named THEN Looked(w.environ, Wished(w, c), Under(w))
               ELSE Looked(w.environ, NoVars, Wished(w, c)))

(* What `config set` reports as saved reads back, every other setting and  *)
(* line is as it was, the server still starts, what is shown is what is    *)
(* used, and a refusal has one of the reasons there are (envfile.rs,       *)
(* tomlconfig.rs, config.rs, cli.rs).                                        *)
EditsAreKept ==
    Told("edit") =>
        LET w == question.w
            c == question.changes
            after == answer[1][1]
        IN  IF answer[1] = <<>> THEN Refusable(w, c)
            ELSE /\ \A k \in KNOWN : Hidden(w, k) \/ ReadBack(Target(w), Target(after), c, k)
                 /\ "toml" \notin w.named => KeepsLines(EnvOf(w), EnvOf(after), c)
                 /\ "env" \in w.named /\ "toml" \in w.named => after.env = w.env
                 /\ Readable([w EXCEPT !.toml = <<EmptyToml>>]) \/ "toml" \notin w.named => Starts(after)
                 /\ \A k \in KNOWN \ Numeric :
                       Shown(w.environ, TomlVars(after), Under(after), k)[2] = Used(InForce(after), k)

(* The menu and the bootstrap lead to what is there, and to its own kind.  *)
(* The menu's own labels lead where they say, but for one an image has the *)
(* name of: the image's comes first in the script, and no such name is     *)
(* refused.                                                                *)
LedRight(q, a) ==
    LET es == CatalogOf(q)
        boots(i, does) ==
            /\ does.is = "stanza"
            /\ \A m \in does.stanza.fetches : m.id = es[i].id /\ ServedAt(es[i], m.what)
            /\ \A s \in does.stanza.asks : Takes[q.images[i].family] \in EndpointFormats[s.segment]
            /\ Filled(does.stanza, a.bootstrap.tells).wants = {}
            /\ q.images[i].img.kernelArch \in {"", q.arch}
    IN  /\ \A i \in DOMAIN es :
              /\ es[i].probed.family = q.images[i].family
              /\ Bootable(es[i]) <=> \/ q.images[i].img.files # {}
                                     \/ es[i].probed.family = "proxmox" /\ q.images[i].img.beside
        /\ \A i \in Offered(es, q.arch) :
              LET does == Goto(a.menu, es[i].id)
              IN  IF Bootable(es[i]) THEN boots(i, does)
                  ELSE does = [is |-> "sanboot", url |-> Media(es[i].id, "iso")]
        /\ \A own \in {<<"local", "exit">>, <<"start", "menu">>, <<"retry", "bootstrap">>} :
              (\A i \in DOMAIN es : es[i].id # own[1]) <=> Goto(a.menu, own[1]).is = own[2]
        /\ EndpointFormats[a.bootstrap.asks.segment] = {"ipxe"}

(* A client is handed the loader the table has for it, by every snippet    *)
(* that can tell it from others; and what a snippet hands out is there,    *)
(* once a check has been passed.                                           *)
HandedRight(q, a) ==
    \A i \in DOMAIN Clients :
        LET c == Clients[i]
            told == \/ q.format \in {"dnsmasq", "isc", "kea", "powershell"} /\ ~ q.one
                    \/ q.format = "pfsense" /\ c.arch = 7 /\ ~ q.one
                    \/ c.arch = 0
        IN  /\ told /\ c.loader # "" => Handed(a.snippet, c) = Given(File(c), c.transport = "http")
            /\ a.ok /\ q.b.dir => Last(Handed(a.snippet, c).file) \in q.b.files

(* What an index offers is what it lists and may be kept, newest first.    *)
OfferedRight(q, offers) ==
    LET good == {l \in ToSet(q.lines) : /\ l.form # "comment" /\ l.digest # "short" /\ l.image
                                        /\ IsPrefix(q.keep, l.name)}
        newer(v, w) == v[1] > w[1] \/ (v[1] = w[1] /\ v[2] > w[2])
    IN  /\ Len(offers) = Cardinality(good)
        /\ ToSet(offers) = {[name |-> l.name, digest |-> l.digest] : l \in good}
        /\ \A i, j \in DOMAIN offers : i < j => newer(VersionOf(offers[i].name), VersionOf(offers[j].name))

(* What is agreed to was asked for, and fits what was asked for.           *)
AgreedRight(q, a) ==
    LET asked(n) == {o.value : o \in {x \in ToSet(q.options) : x.name = n}}
        agreed(n) == {x[2] : x \in {y \in ToSet(a.accepted) : y[1] = n}}
    IN  /\ {x[1] : x \in ToSet(a.accepted)} \subseteq {o.name : o \in ToSet(q.options)} \ {"windowsize", "other"}
        /\ agreed("timeout") \subseteq asked("timeout") /\ agreed("tsize") \subseteq {FileSize}
        /\ a.block \in DefaultBlock .. MaxBlock
        /\ q.blksize \notin {<<>>, <<0>>} => a.block <= Max({DefaultBlock, q.blksize[1]})
        /\ IF agreed("blksize") = {} THEN a.block = DefaultBlock ELSE a.block \in agreed("blksize")
        /\ asked("blksize") \cap 0 .. DefaultBlock - 1 = {} =>
               \A b \in agreed("blksize") : \E n \in asked("blksize") : b <= n

(* An address as a number, and the network it is of.                       *)
WithinRight(q, a) ==
    LET number(octets) == FoldLeft(LAMBDA n, o : n * 2^OctetBits + o, 0, octets)
        total == Len(q.address) * OctetBits
    IN  a = /\ Len(q.network) = Len(q.address) /\ q.bits <= total
            /\ number(q.address) \div 2^(total - q.bits) = number(q.network) \div 2^(total - q.bits)

(* What a machine is pointed at is there when it asks, at every step from  *)
(* the firmware to the installer; an index is offered as it was published; *)
(* a TFTP option is agreed to only as it was asked for; and an address is  *)
(* let in exactly where it is of the network.                              *)
WhatIsOfferedIsServed ==
    /\ Told("chain") => LedRight(question, answer[1])
    /\ Told("handoff") => HandedRight(question, answer[1])
    /\ Told("index") => OfferedRight(question, answer[1])
    /\ Told("request") /\ answer[1] # <<>> => AgreedRight(question, answer[1][1])
    /\ Told("cidr") => WithinRight(question, answer[1])

(* "`{{ mac }}` is filled by the answer engine's own templating, from the  *)
(* facts the request carries. A missing fact is an error there, never an   *)
(* empty string" (stanza.rs): no label of the menu leaves one unfilled.    *)
MenuIsFilled ==
    Told("chain") =>
        \A i \in DOMAIN answer[1].menu :
            LET does == answer[1].menu[i].does
            IN  does.is = "stanza" => does.stanza.wants = {}
=============================================================================
