---------------------------- MODULE GlobSegment ----------------------------
(***************************************************************************)
(* glob_match_segment (src/src/index.cpp): whether the name of a file      *)
(* matches one segment of a pattern, where ? is any character and * any    *)
(* number of them.  The loop goes back to the last * only.                 *)
(*                                                                         *)
(* Positions count from 1, and star is 0 for std::string::npos.  The       *)
(* function is called again and again, by Glob or by any other caller.     *)
(***************************************************************************)
EXTENDS Naturals, Sequences

CONSTANT Chars          \* the characters of patterns and names

VARIABLES
    pat, name,          \* the arguments
    pi, ni,             \* the positions in both
    star, starNi,       \* the last * of pat, and where in name it stops
    loop,               \* "idle", "run" or "done"
    answer              \* what the function returned

segmentVars == <<pat, name, pi, ni, star, starNi, loop, answer>>

SegmentInit ==
    /\ pat = <<>> /\ name = <<>>
    /\ pi = 1 /\ ni = 1
    /\ star = 0 /\ starNi = 1
    /\ loop = "idle"
    /\ answer = FALSE

Call(p, n) ==
    /\ loop # "run"
    /\ pat' = p /\ name' = n
    /\ pi' = 1 /\ ni' = 1
    /\ star' = 0 /\ starNi' = 1
    /\ loop' = "run"
    /\ answer' = FALSE

Return(b) ==
    /\ loop' = "done"
    /\ answer' = b
    /\ UNCHANGED <<pat, name, pi, ni, star, starNi>>

-----------------------------------------------------------------------------
(* The loop over the name. *)

More == loop = "run" /\ ni <= Len(name)

Same == pi <= Len(pat) /\ pat[pi] \in {"?", name[ni]}
AtStar == pi <= Len(pat) /\ pat[pi] = "*"

Advance ==
    /\ More
    /\ Same
    /\ pi' = pi + 1 /\ ni' = ni + 1
    /\ UNCHANGED <<pat, name, star, starNi, loop, answer>>

\* Mutant: a star takes at least one character.
OpenStarLate ==
    /\ More
    /\ ~Same /\ AtStar
    /\ star' = pi /\ starNi' = ni + 1
    /\ pi' = pi + 1
    /\ UNCHANGED <<pat, name, ni, loop, answer>>

OpenStar ==
    /\ More
    /\ ~Same /\ AtStar
    /\ star' = pi /\ starNi' = ni
    /\ pi' = pi + 1
    /\ UNCHANGED <<pat, name, ni, loop, answer>>

\* Mutant: the match goes on after the character that did not fit.
BacktrackForward ==
    /\ More
    /\ ~Same /\ ~AtStar
    /\ star # 0
    /\ pi' = star + 1
    /\ ni' = ni + 1 /\ starNi' = ni + 1
    /\ UNCHANGED <<pat, name, star, loop, answer>>

\* Mutant: the star does not take one more character.
BacktrackInPlace ==
    /\ More
    /\ ~Same /\ ~AtStar
    /\ star # 0
    /\ pi' = star + 1
    /\ ni' = starNi
    /\ UNCHANGED <<pat, name, star, starNi, loop, answer>>

\* The last star takes one more character.
Backtrack ==
    /\ More
    /\ ~Same /\ ~AtStar
    /\ star # 0
    /\ pi' = star + 1
    /\ ni' = starNi + 1 /\ starNi' = starNi + 1
    /\ UNCHANGED <<pat, name, star, loop, answer>>

Mismatch ==
    /\ More
    /\ ~Same /\ ~AtStar
    /\ star = 0
    /\ Return(FALSE)

-----------------------------------------------------------------------------
(* After the name. *)

AtEnd == loop = "run" /\ ni > Len(name)

Trailing ==
    /\ AtEnd
    /\ AtStar
    /\ pi' = pi + 1
    /\ UNCHANGED <<pat, name, ni, star, starNi, loop, answer>>

\* Mutant: a rest of the pattern is ignored.
FinishEarly ==
    /\ AtEnd
    /\ ~AtStar
    /\ Return(TRUE)

Finish ==
    /\ AtEnd
    /\ ~AtStar
    /\ Return(pi = Len(pat) + 1)

SegmentStep ==
    \/ Advance \/ OpenStar \/ Backtrack \/ Mismatch
    \/ Trailing \/ Finish

SegmentNext ==
    \/ /\ pat' \in Seq(Chars) /\ name' \in Seq(Chars)
       /\ Call(pat', name')
    \/ SegmentStep

SegmentSpec == SegmentInit /\ [][SegmentNext]_segmentVars

-----------------------------------------------------------------------------
(* What it means to match. *)

\* The name n from j on is cut into one piece for each character of the
\* pattern p from i on: any for a *, one character for another.
Fits(p, n, i, j) ==
    \E f \in [i..Len(p) + 1 -> 1..Len(n) + 1] :
        /\ f[i] = j
        /\ f[Len(p) + 1] = Len(n) + 1
        /\ \A k \in i..Len(p) :
              IF p[k] = "*" THEN f[k] <= f[k + 1]
              ELSE f[k + 1] = f[k] + 1 /\ p[k] \in {"?", n[f[k]]}

\* No position is read that pat or name does not have, and the star is behind
\* the position in both (index.cpp:497-507).
SegmentTypeOK ==
    /\ pat \in Seq(Chars) /\ name \in Seq(Chars)
    /\ pi \in 1..Len(pat) + 1
    /\ ni \in 1..Len(name) + 1
    /\ star \in 0..pi - 1 /\ starNi \in 1..ni
    /\ star # 0 => pat[star] = "*"
    /\ loop \in {"idle", "run", "done"}
    /\ answer \in BOOLEAN

\* A name that is said to match does (index.cpp:489-513).
Sound == loop = "done" /\ answer => Fits(pat, name, 1, 1)

\* A name that matches is not missed because only the last star is tried
\* again (index.cpp:503-506).  This needs a name without *, which the loop
\* takes for the same character as a * of the pattern.
Complete ==
    /\ loop = "done"
    /\ \A j \in 1..Len(name) : name[j] # "*"
    /\ Fits(pat, name, 1, 1)
    => answer
=============================================================================
