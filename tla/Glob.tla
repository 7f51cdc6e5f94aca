-------------------------------- MODULE Glob ---------------------------------
(***************************************************************************)
(* `glob` (facts.rs), one turn of its loops at a time. It backtracks       *)
(* instead of recursing: the last star swallows one character more each    *)
(* time what follows it does not fit. What it promises is GlobMatches of   *)
(* module Facts, which selection goes by.                                  *)
(***************************************************************************)
EXTENDS Facts

CONSTANTS Character,  \* what is left of a name once it is normalized
          Patterns,   \* what is asked of it
          Texts

ASSUME GlobAssumption ==
    /\ Character \cap Wildcard = {}
    /\ Patterns \subseteq Seq(Character \cup Wildcard)
    /\ Texts \subseteq Seq(Character)

VARIABLES pattern, text,
          pi, ti,   \* where it is in either
          star,     \* where in the pattern the last star was, 0 before any
          resume,   \* where in the text what follows that star began
          verdict   \* "yes", "no", or "open" while it goes on

globVars == <<pattern, text, pi, ti, star, resume, verdict>>

-----------------------------------------------------------------------------
GlobBegins ==
    /\ pi = 1 /\ ti = 1
    /\ star = 0 /\ resume = 1
    /\ verdict = "open"

GlobInit == pattern \in Patterns /\ text \in Texts /\ GlobBegins

InText == verdict = "open" /\ ti <= Len(text)
AtOne == pi <= Len(pattern) /\ pattern[pi] \in {"?", text[ti]}
AtStar == pi <= Len(pattern) /\ pattern[pi] = "*"

MatchOne ==
    /\ InText /\ AtOne
    /\ pi' = pi + 1 /\ ti' = ti + 1
    /\ UNCHANGED <<star, resume, verdict>>

MeetStar ==
    /\ InText /\ ~AtOne /\ AtStar
    /\ star' = pi /\ resume' = ti
    /\ pi' = pi + 1
    /\ UNCHANGED <<ti, verdict>>

(* Two changes of Backtrack: it goes on from where it is, or starts over   *)
(* with what it has tried.                                                 *)
BacktrackOnward ==
    /\ InText /\ ~AtOne /\ ~AtStar /\ star # 0
    /\ pi' = star + 1 /\ resume' = ti /\ ti' = ti + 1
    /\ UNCHANGED <<star, verdict>>

BacktrackInPlace ==
    /\ InText /\ ~AtOne /\ ~AtStar /\ star # 0
    /\ pi' = star + 1 /\ ti' = resume
    /\ UNCHANGED <<star, resume, verdict>>

Backtrack ==
    /\ InText /\ ~AtOne /\ ~AtStar /\ star # 0
    /\ pi' = star + 1 /\ resume' = resume + 1 /\ ti' = resume + 1
    /\ UNCHANGED <<star, verdict>>

GiveUp ==
    /\ InText /\ ~AtOne /\ ~AtStar /\ star = 0
    /\ verdict' = "no"
    /\ UNCHANGED <<pi, ti, star, resume>>

(* The text has ended: stars may be left of the pattern, nothing else.     *)
PastText == verdict = "open" /\ ti > Len(text)

SkipStar ==
    /\ PastText /\ AtStar
    /\ pi' = pi + 1
    /\ UNCHANGED <<ti, star, resume, verdict>>

Conclude ==
    /\ PastText /\ ~AtStar
    /\ verdict' = IF pi = Len(pattern) + 1 THEN "yes" ELSE "no"
    /\ UNCHANGED <<pi, ti, star, resume>>

GlobNext ==
    /\ MatchOne \/ MeetStar \/ Backtrack \/ GiveUp \/ SkipStar \/ Conclude
    /\ UNCHANGED <<pattern, text>>

GlobSpec == GlobInit /\ [][GlobNext]_globVars

-----------------------------------------------------------------------------
GlobTypeOK ==
    /\ pattern \in Patterns /\ text \in Texts
    /\ pi \in 1 .. Len(pattern) + 1 /\ ti \in 1 .. Len(text) + 1
    /\ star \in 0 .. pi - 1 /\ resume \in 1 .. ti
    /\ verdict \in {"open", "yes", "no"}

(* The answer is that of the definition: every way to cut the text was     *)
(* tried or could not have done, though only the last star is ever gone    *)
(* back to (`glob`, "iterative backtracking").                             *)
GlobIsRight == verdict # "open" => (verdict = "yes" <=> GlobMatches(pattern, text))

(* No turn leads back to where one has been: what was given up on is never *)
(* tried again, so that the loop ends, after no more turns than there are  *)
(* positions (`a_pathological_glob_terminates`).                           *)
Further ==
    \/ resume' > resume
    \/ resume' = resume /\ ti' > ti
    \/ resume' = resume /\ ti' = ti /\ pi' > pi
    \/ verdict = "open" /\ verdict' # "open" /\ UNCHANGED <<pi, ti, star, resume>>
GlobAdvances == [][Further]_globVars

=============================================================================
