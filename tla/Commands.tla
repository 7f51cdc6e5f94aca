------------------------------- MODULE Commands -------------------------------
(***************************************************************************)
(* What an operator asks of an answer set before a machine does: `check`   *)
(* on the command line (cli.rs), by what select.rs tells it.               *)
(***************************************************************************)
EXTENDS Selection

(* A group by its name, whatever its format: the first there is.           *)
GroupOf(groups, name) == SelectSeq(groups, LAMBDA g : g.id = name)[1]

(* What is wrong with a set before anything is asked of it. That a group   *)
(* is known does not say of which format.                                  *)
Broken(docs) ==
    LET known == {g.id : g \in ToSet(Groups(docs))}
        wrong(d) == CASE d.doc = <<>> -> TRUE
                      [] d.what = "group" -> d.id \notin known
                      [] OTHER -> d.control.extends # <<>> /\ d.control.extends \notin known
    IN  {d \in ToSet(Read(docs)) : wrong(d)}

----------------------------------------------------------------------------
(* check *)

EndpointSegment(format) == IF format = "seed" THEN "preseed" ELSE format

(* A machine's own installer, asking from its own endpoint.                *)
AsInstaller(docs, segment, id) ==
    Resolve(docs, FromRequest([path |-> <<<<segment>>, id>>, raw |-> id, query |-> <<>>, body |-> <<>>]))

(* A group one of whose members gets an error; one that only selects is    *)
(* passed over.                                                            *)
FailedGroups(docs) ==
    LET groups == Groups(docs)
        fails(g) == \E m \in Identity(g) : AsInstaller(docs, EndpointSegment(g.format), m) = Fails
    IN  {g.id : g \in {x \in ToSet(groups) : fails(GroupOf(groups, x.id))}}

FailedMachines(docs) ==
    {d \in ToSet(Candidates(docs)) : AsInstaller(docs, EndpointSegment(d.format), d.id).is # "served"}

Check(docs) == Broken(docs) = {} /\ FailedGroups(docs) = {} /\ FailedMachines(docs) = {}

(* "ok — everything renders": a machine is served at every endpoint that   *)
(* takes its document, and so is every member of a group. That holds of    *)
(* the endpoints whose groups `check` has all tried. It has not tried one  *)
(* that only selects, which it says; nor one that shares its name with a   *)
(* group of another format, which it does not.                             *)
CheckedIsServed(docs) ==
    LET groups == ToSet(Groups(docs))
        only(g) == \A h \in groups : h.id = g.id => h = g
        selects(g) == Identity(g) = {} /\ g.control.matchers # {}
        tried(s) == \A g \in groups : g.format \in EndpointFormats[s] => only(g) /\ ~ selects(g)
        asked(format) == {s \in DOMAIN EndpointFormats : format \in EndpointFormats[s] /\ tried(s)}
    IN  /\ \A d \in ToSet(Candidates(docs)) : \A s \in asked(d.format) :
              AsInstaller(docs, s, d.id).is = "served"
        /\ \A g \in groups : \A m \in Identity(g), s \in asked(g.format) :
              AsInstaller(docs, s, m).is = "served"

=============================================================================
