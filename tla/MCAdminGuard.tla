---------------------------- MODULE MCAdminGuard ----------------------------
EXTENDS AdminGuard

\* Every group and machine document, no default: two groups suffice for
\* chains, cycles and dangling names; the default is looked up as a machine is.
MCKeys == {k \in AllKeys : k.kind # "default"}

\* Groups in one format, machines in the others.
AcrossFormats ==
    LET first == CHOOSE f \in Formats : TRUE
    IN  {k \in MCKeys : k.kind = "group" <=> k.format = first}
=============================================================================
