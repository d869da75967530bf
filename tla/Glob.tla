-------------------------------- MODULE Glob --------------------------------
(***************************************************************************)
(* index::glob of a list of patterns (src/src/index.cpp), and the regular  *)
(* expressions of the list (src/src/glob_list.cpp), by which the scan of a *)
(* directory leaves files out.                                             *)
(*                                                                         *)
(* The descent through the tree keeps its calls in a stack; the match of a *)
(* name is that of GlobSegment, step by step.  A path is the sequence of   *)
(* its names, and Flat of it the string.                                   *)
(*                                                                         *)
(* compile escapes the dot only.  The other characters of Special go into  *)
(* the regular expression as they are, and what std::regex then makes of   *)
(* them is not modelled: it may refuse the expression, or match what the   *)
(* pattern does not name.  Nor does its dot take a line break.  What is    *)
(* said of the list is said of Literal patterns and names; the search,     *)
(* which compares these characters, of all.                                *)
(***************************************************************************)
EXTENDS GlobSegment, SequencesExt

CONSTANTS
    Trees,              \* the indexes: sets of paths
    Lists,              \* the lists of patterns given
    Special,            \* ( ) [ ] { } | ^ $ + and \, for std::regex
    Breaks              \* the line breaks

ASSUME GlobAssumption ==
    /\ \A t \in Trees : IsFiniteSet(t)
    /\ \A t \in Trees : \A p \in t :
          /\ p \in Seq({n \in Seq(Chars) : n # <<>> /\ "/" \notin ToSet(n)})
          /\ Len(p) > 0 /\ (Len(p) = 1 \/ Front(p) \in t)
    /\ Lists \subseteq Seq(Seq(Chars))
    /\ (Special \cup Breaks) \cap {"*", "?", "/", "!"} = {}

VARIABLES
    given, tree,        \* the arguments
    patterns,           \* _inclusive_patterns
    regex,              \* _inclusive_regex: the pieces of each pattern
    k,                  \* how many patterns are done
    segs,               \* effective_segs
    stack,              \* the calls of glob_match_node to come: segment, node
    result,
    pc                  \* "add", "glob", "name", "returned" or "failed"

globVars == <<given, tree, patterns, regex, k, segs, stack, result, pc>>
vars == <<globVars, segmentVars>>

Init ==
    /\ given \in Lists /\ tree \in Trees
    /\ patterns = <<>> /\ regex = <<>>
    /\ k = 0
    /\ segs = <<>> /\ stack = <<>> /\ result = <<>>
    /\ pc = "add"
    /\ SegmentInit

-----------------------------------------------------------------------------
(* glob_list. *)

\* A pattern without the slashes at its end.
Stripped(p) ==
    LET kept == {x \in DOMAIN p : p[x] # "/"}
    IN  SubSeq(p, 1, IF kept = {} THEN 0 ELSE Max(kept))

\* glob_list::add: a negated pattern is an error.
Add ==
    /\ pc = "add" /\ k < Len(given)
    /\ k' = k + 1
    /\ LET p == Stripped(given[k + 1])
       IN  IF p # <<>> /\ p[1] = "!"
           THEN pc' = "failed" /\ UNCHANGED patterns
           ELSE /\ patterns' = IF p = <<>> THEN patterns ELSE Append(patterns, p)
                /\ UNCHANGED pc
    /\ UNCHANGED <<given, tree, regex, segs, stack, result, segmentVars>>

Anchored(p) == p[1] = "/"
Body(p) == IF Anchored(p) THEN Tail(p) ELSE p

\* One turn of the loop of glob_list::compile: [^/]* is "run", the dot is
\* "any", and ([^/]*(/[^/])*)(/?) is "deep", which takes the slash that comes
\* next with it.
Run(s) == IF s.star THEN Append(s.out, <<"run">>) ELSE s.out
Write(s, c) ==
    IF s.skip /\ c = "/" THEN [s EXCEPT !.skip = FALSE]
    ELSE IF s.star /\ c = "*"
         THEN [out |-> Append(s.out, <<"deep">>), star |-> FALSE, skip |-> TRUE]
    ELSE IF c = "*" THEN [out |-> s.out, star |-> TRUE, skip |-> FALSE]
    ELSE [out |-> Append(Run(s), IF c = "?" THEN <<"any">> ELSE <<"char", c>>),
          star |-> FALSE, skip |-> FALSE]

\* (.*/)? is "dirs".
Start(p) ==
    [out |-> IF Anchored(p) THEN <<>> ELSE <<<<"dirs">>>>, star |-> FALSE, skip |-> FALSE]
Written(start, b) == FoldLeft(Write, start, b)
Pieces(p) == Run(Written(Start(p), Body(p)))

\* Mutant: what is below a match is not matched.
CompileExact(p) == Pieces(p)

\* Mutant: every pattern is anchored.
CompileAnchored(p) ==
    Append(SelectSeq(Pieces(p), LAMBDA x : x # <<"dirs">>), <<"below">>)

\* (/.*)? is "below".
Compile(p) == Append(Pieces(p), <<"below">>)

\* The positions of s that a piece may end before if it begins at x.
After(piece, s, x) ==
    LET kind == piece[1]
        has(y, c) == y <= Len(s) /\ s[y] = c
        run == {y \in x..Len(s) + 1 : \A z \in x..y - 1 : s[z] # "/"}
        steps == {y \in 1..Len(s) + 1 : \E z \in run :
                     /\ y >= z /\ (y - z) % 2 = 0
                     /\ \A w \in z..y - 1 : (s[w] = "/") <=> ((w - z) % 2 = 0)}
    IN  CASE kind = "dirs" -> {x} \cup {y + 1 : y \in {y \in x..Len(s) : s[y] = "/"}}
          [] kind = "run" -> run
          [] kind = "deep" -> steps \cup {y + 1 : y \in {y \in steps : has(y, "/")}}
          [] kind = "below" -> {x} \cup (IF has(x, "/") THEN {Len(s) + 1} ELSE {})
          [] kind = "any" -> IF x <= Len(s) THEN {x + 1} ELSE {}
          [] kind = "char" -> IF has(x, piece[2]) THEN {x + 1} ELSE {}

\* The string of a path.
Join(s, n) == IF s = <<>> THEN n ELSE s \o <<"/">> \o n
Flat(path) == FoldLeft(Join, <<>>, path)

\* The positions of s that the pieces r may end before.
Beyond(at, piece, s) == UNION {After(piece, s, x) : x \in at}
Ends(r, s) == FoldLeft(LAMBDA at, piece : Beyond(at, piece, s), {1}, r)

\* glob_list::match
ListMatches(path) ==
    \E x \in DOMAIN regex : Len(Flat(path)) + 1 \in Ends(regex[x], Flat(path))

\* Of these patterns compile makes what After says, and of these names.
LiteralPattern(p) == ToSet(p) \cap Special = {}
LiteralPath(path) == \A x \in DOMAIN path : ToSet(path[x]) \cap Breaks = {}
Literal == \A x \in DOMAIN patterns : LiteralPattern(patterns[x])

\* std::regex throws: it may for any pattern that is not literal.
FinalizeThrows ==
    /\ pc = "add" /\ k = Len(given)
    /\ ~Literal
    /\ pc' = "failed"
    /\ UNCHANGED <<given, tree, patterns, regex, k, segs, stack, result, segmentVars>>

\* glob_list::finalize, of which regex is right if the list is Literal.
Finalize ==
    /\ pc = "add" /\ k = Len(given)
    /\ regex' = [x \in DOMAIN patterns |-> Compile(patterns[x])]
    /\ k' = 0
    /\ pc' = "glob"
    /\ UNCHANGED <<given, tree, patterns, segs, stack, result, segmentVars>>

-----------------------------------------------------------------------------
(* index::glob. *)

\* split_glob_pattern
Cut(s, c) == IF c = "/" THEN Append(s, <<>>) ELSE [s EXCEPT ![Len(s)] = Append(@, c)]
Segs(b) == FoldLeft(Cut, <<<<>>>>, b)
Split(p) ==
    LET all == Segs(Body(p))
    IN  IF Last(all) = <<>> THEN Front(all) ELSE all

Stars == <<"*", "*">>

\* A pattern that is not anchored may begin anywhere.
Effective(p) == IF Anchored(p) THEN Split(p) ELSE <<Stars>> \o Split(p)

\* The calls for the children of a node with segment x.
Calls(x, path) ==
    LET children == SetToSeq({q \in tree : Front(q) = path})
    IN  [y \in DOMAIN children |-> <<x, children[y]>>]

\* glob_recursive
NextPattern ==
    /\ pc = "glob" /\ stack = <<>> /\ k < Len(patterns)
    /\ k' = k + 1
    /\ segs' = Effective(patterns[k + 1])
    /\ stack' = Calls(1, <<>>)
    /\ UNCHANGED <<given, tree, patterns, regex, result, pc, segmentVars>>

Segment == stack[1][1]
Node == stack[1][2]
IsLast == Segment = Len(segs)

\* Mutant: the stars take one directory in two ways.
VisitStarsTwice ==
    /\ pc = "glob" /\ stack # <<>> /\ segs[Segment] = Stars
    /\ IF IsLast
       THEN /\ result' = Append(result, Node)
            /\ stack' = Calls(Segment, Node) \o Tail(stack)
       ELSE /\ stack' = <<<<Segment + 1, Node>>>> \o Calls(Segment, Node)
                        \o Calls(Segment + 1, Node) \o Tail(stack)
            /\ UNCHANGED result
    /\ UNCHANGED <<given, tree, patterns, regex, k, segs, pc, segmentVars>>

\* Mutant: the stars take at least one directory.
VisitStarsOne ==
    /\ pc = "glob" /\ stack # <<>> /\ segs[Segment] = Stars
    /\ IF IsLast
       THEN /\ result' = Append(result, Node)
            /\ stack' = Calls(Segment, Node) \o Tail(stack)
       ELSE /\ stack' = Calls(Segment, Node) \o Calls(Segment + 1, Node) \o Tail(stack)
            /\ UNCHANGED result
    /\ UNCHANGED <<given, tree, patterns, regex, k, segs, pc, segmentVars>>

\* glob_match_node of a segment **.
VisitStars ==
    /\ pc = "glob" /\ stack # <<>> /\ segs[Segment] = Stars
    /\ IF IsLast
       THEN /\ result' = Append(result, Node)
            /\ stack' = Calls(Segment, Node) \o Tail(stack)
       ELSE /\ stack' = <<<<Segment + 1, Node>>>> \o Calls(Segment, Node) \o Tail(stack)
            /\ UNCHANGED result
    /\ UNCHANGED <<given, tree, patterns, regex, k, segs, pc, segmentVars>>

\* Mutant: the star of the last match is not forgotten.
VisitNameKeepsStar ==
    /\ pc = "glob" /\ stack # <<>> /\ segs[Segment] # Stars
    /\ pat' = segs[Segment] /\ name' = Last(Node)
    /\ pi' = 1 /\ ni' = 1
    /\ loop' = "run" /\ answer' = FALSE
    /\ pc' = "name"
    /\ UNCHANGED <<star, starNi, given, tree, patterns, regex, k, segs, stack, result>>

\* glob_match_node of another segment.
VisitName ==
    /\ pc = "glob" /\ stack # <<>> /\ segs[Segment] # Stars
    /\ Call(segs[Segment], Last(Node))
    /\ pc' = "name"
    /\ UNCHANGED <<given, tree, patterns, regex, k, segs, stack, result>>

Match == pc = "name" /\ SegmentStep /\ UNCHANGED globVars

\* Mutant: the children are called even after the last segment.
EnterAlways ==
    /\ pc = "name" /\ loop = "done" /\ answer
    /\ result' = IF IsLast THEN Append(result, Node) ELSE result
    /\ stack' = Calls(Segment + 1, Node) \o Tail(stack)
    /\ pc' = "glob"
    /\ UNCHANGED <<given, tree, patterns, regex, k, segs, segmentVars>>

Enter ==
    /\ pc = "name" /\ loop = "done" /\ answer
    /\ IF IsLast
       THEN result' = Append(result, Node) /\ stack' = Tail(stack)
       ELSE stack' = Calls(Segment + 1, Node) \o Tail(stack) /\ UNCHANGED result
    /\ pc' = "glob"
    /\ UNCHANGED <<given, tree, patterns, regex, k, segs, segmentVars>>

Refuse ==
    /\ pc = "name" /\ loop = "done" /\ ~answer
    /\ stack' = Tail(stack)
    /\ pc' = "glob"
    /\ UNCHANGED <<given, tree, patterns, regex, k, segs, result, segmentVars>>

\* What several patterns, or one in several ways, have found is left once.
Unique ==
    /\ pc = "glob" /\ stack = <<>> /\ k = Len(patterns)
    /\ result' = SetToSeq(ToSet(result))
    /\ pc' = "returned"
    /\ UNCHANGED <<given, tree, patterns, regex, k, segs, stack, segmentVars>>

Next ==
    \/ Add \/ Finalize \/ FinalizeThrows
    \/ NextPattern \/ VisitStars \/ VisitName \/ Match \/ Enter \/ Refuse
    \/ Unique

Spec == Init /\ [][Next]_vars /\ WF_vars(Next)

-----------------------------------------------------------------------------
(* Properties. *)

\* A path is cut into one piece for each segment: one name that fits it, or
\* for ** any number of them, which is not 0 at the end.
Denotes(p, path) ==
    LET s == Effective(p)
        n == Len(s)
    IN  \E f \in [1..n + 1 -> 0..Len(path)] :
            /\ f[1] = 0 /\ f[n + 1] = Len(path)
            /\ \A x \in 1..n :
                  IF s[x] = Stars THEN f[x] <= f[x + 1] /\ (x = n => f[x] < f[x + 1])
                  ELSE f[x + 1] = f[x] + 1 /\ Fits(s[x], path[f[x + 1]], 1, 1)

Denoted(path) == \E x \in DOMAIN patterns : Denotes(patterns[x], path)

\* What is found is what the patterns denote; only a path with a * in one of
\* its names may be missed (index.cpp:536-614).  A pattern without ** finds a
\* node once even before the duplicates are removed, so that glob of a single
\* pattern, which removes none (index.cpp:445-453), may do without.
GlobFinds ==
    /\ pc = "returned" =>
          \A path \in tree :
              /\ path \in ToSet(result) => Denoted(path)
              /\ Denoted(path) /\ (\A x \in DOMAIN path : "*" \notin ToSet(path[x]))
                    => path \in ToSet(result)
    /\ Len(patterns) = 1 /\ Stars \notin ToSet(Split(patterns[1])) =>
          Cardinality(ToSet(result)) = Len(result)

\* A ** that is followed by a segment, and not the beginning of a pattern that
\* may begin anywhere: the regular expression takes one directory for it, and
\* others only if their names have one character.
Between(p) ==
    \E x \in 1..Len(Split(p)) - 1 : Split(p)[x] = Stars /\ (x > 1 \/ Anchored(p))

\* What is below something that the list leaves out is left out, too, so that
\* no entry is listed without its directory (directory_iterator.cpp:30-45),
\* for the patterns and names that compile takes as they are.
IgnoredBelow ==
    pc \in {"glob", "name"} /\ Literal =>
        \A p, q \in tree :
            IsPrefix(p, q) /\ LiteralPath(q) /\ ListMatches(p) => ListMatches(q)

\* The list leaves out what glob finds (index.cpp:592-593), unless a pattern
\* has a ** for which it takes one directory only, or something is not literal.
IgnoreCoversGlob ==
    pc = "returned" /\ Literal =>
        \A path \in {path \in ToSet(result) : LiteralPath(path)} :
            ListMatches(path) \/ \E x \in DOMAIN patterns : Between(patterns[x])

\* The match of a name is a call of GlobSegment, of which Sound and Complete
\* are proved.
ImplementsSegment == SegmentSpec

\* The search ends.
GlobEnds == <>(pc \in {"returned", "failed"})
=============================================================================
