----------------------------- MODULE GlobProofs -----------------------------
(***************************************************************************)
(* What index::glob finds, for every tree and every list of patterns; that *)
(* the regular expressions of the list leave out what glob finds, and what *)
(* is below what they leave out; and the match of a name with one segment. *)
(*                                                                         *)
(* The match of a name comes first.  The invariant is that the fits still  *)
(* to be tried are those from the two positions, and those in which the    *)
(* last star takes more.  An earlier star is never needed again: a fit in  *)
(* which the last star takes more leads to a later place in the name at    *)
(* every position of the pattern (StarInv), in particular at the next      *)
(* star, which could as well take what is between.                         *)
(*                                                                         *)
(* Then the folds of Glob, which are functions defined by recursion along  *)
(* the sets of positions, are turned into stages g[0], g[1], ...           *)
(*                                                                         *)
(* The invariant of the search (Found) says that every path the pattern    *)
(* denotes has been found or is below a call that is still on the stack    *)
(* and denotes it from there, and that what has been found or is on the    *)
(* stack is denoted.  Without a ** no two calls lead to the same path      *)
(* (Once).                                                                 *)
(*                                                                         *)
(* The regular expression of a pattern is followed along the pattern: when *)
(* some of it has been written, the place that its last segment has        *)
(* reached in the name it takes is open in the string of the path          *)
(* (Placed).                                                               *)
(***************************************************************************)
EXTENDS Glob, FiniteSetTheorems, WellFoundedInduction, TLAPS

-----------------------------------------------------------------------------
(* Numbers. *)

LessPairs == {p \in Nat \X Nat : p[1] < p[2]}

LEMMA LessWellFounded == IsWellFoundedOn(LessPairs, Nat)
<1>1. OpToRel(<, Nat) = LessPairs
    BY DEF OpToRel, LessPairs
<1> QED
    BY <1>1, NatLessThanWellFounded, Zenon

\* A set of numbers that is not empty has a smallest one.
LEMMA Smallest ==
    ASSUME NEW S, S \subseteq Nat, S # {}
    PROVE  \E n \in S : \A m \in S : n <= m
<1>1. \E n \in S : \A m \in S : <<m, n>> \notin LessPairs
    BY LessWellFounded, WFMin, Zenon
<1>2. \A m, n \in S : <<m, n>> \notin LessPairs => n <= m
    BY DEF LessPairs
<1> QED
    BY <1>1, <1>2

\* The same, in the form in which Recursion assumes it.
LEMMA WellOrdered ==
    \A P \in SUBSET Nat : P # {} => \E a \in P : \A b \in P : a <= b
BY Smallest

\* What holds at 0 and is kept from each number to the next holds of all: a
\* set that has 0 and each successor.
LEMMA Counting ==
    ASSUME NEW n \in Nat, NEW P, 0 \in P, \A c \in 1..n : c - 1 \in P => c \in P
    PROVE  0..n \subseteq P
<1> DEFINE Bad == {c \in 0..n : c \notin P}
<1>1. SUFFICES ASSUME Bad # {} PROVE FALSE
    OBVIOUS
<1>2. PICK c \in Bad : \A d \in Bad : c <= d
    <2>1. Bad \subseteq Nat
        OBVIOUS
    <2> HIDE DEF Bad
    <2> QED BY <1>1, <2>1, Smallest
<1>3. c \in 1..n /\ c - 1 \notin Bad
    BY <1>2
<1> QED
    BY <1>2, <1>3

-----------------------------------------------------------------------------
(* How a fit begins. *)

LEMMA FitsEnd ==
    ASSUME NEW p \in Seq(Chars), NEW n \in Seq(Chars), NEW j \in 1..Len(n) + 1
    PROVE  Fits(p, n, Len(p) + 1, j) <=> j = Len(n) + 1
<1>1. ASSUME j = Len(n) + 1
      PROVE  Fits(p, n, Len(p) + 1, j)
  <2> DEFINE f == [x \in (Len(p) + 1)..(Len(p) + 1) |-> j]
  <2>1. f \in [Len(p) + 1..Len(p) + 1 -> 1..Len(n) + 1]
    OBVIOUS
  <2>2. f[Len(p) + 1] = j
    OBVIOUS
  <2>3. (Len(p) + 1)..Len(p) = {}
    OBVIOUS
  <2> QED
    BY <1>1, <2>1, <2>2, <2>3 DEF Fits
<1>2. Fits(p, n, Len(p) + 1, j) => j = Len(n) + 1
  BY DEF Fits
<1> QED
  BY <1>1, <1>2

\* The rest of a fit.
LEMMA FitsTail ==
    ASSUME NEW p \in Seq(Chars), NEW n \in Seq(Chars),
           NEW i \in 1..Len(p), NEW j \in 1..Len(n) + 1,
           Fits(p, n, i, j)
    PROVE  \E m \in 1..Len(n) + 1 :
               /\ Fits(p, n, i + 1, m)
               /\ IF p[i] = "*" THEN j <= m ELSE m = j + 1 /\ p[i] \in {"?", n[j]}
<1>1. PICK f \in [i..Len(p) + 1 -> 1..Len(n) + 1] :
          /\ f[i] = j
          /\ f[Len(p) + 1] = Len(n) + 1
          /\ \A y \in i..Len(p) :
                IF p[y] = "*" THEN f[y] <= f[y + 1]
                ELSE f[y + 1] = f[y] + 1 /\ p[y] \in {"?", n[f[y]]}
  BY DEF Fits
<1> DEFINE g == [y \in (i + 1)..(Len(p) + 1) |-> f[y]]
<1>2. g \in [i + 1..Len(p) + 1 -> 1..Len(n) + 1]
  BY <1>1
<1>3. g[i + 1] = f[i + 1] /\ g[Len(p) + 1] = Len(n) + 1
  BY <1>1
<1>4. ASSUME NEW y \in i + 1..Len(p)
      PROVE  IF p[y] = "*" THEN g[y] <= g[y + 1]
             ELSE g[y + 1] = g[y] + 1 /\ p[y] \in {"?", n[g[y]]}
  BY <1>1
<1>5. Fits(p, n, i + 1, f[i + 1])
  BY <1>2, <1>3, <1>4 DEF Fits
<1>6. f[i + 1] \in 1..Len(n) + 1
  <2>1. i + 1 \in i..Len(p) + 1
    OBVIOUS
  <2> QED
    BY <2>1
<1>7. IF p[i] = "*" THEN j <= f[i + 1] ELSE f[i + 1] = j + 1 /\ p[i] \in {"?", n[j]}
  BY <1>1
<1> QED
  BY <1>5, <1>6, <1>7

\* A fit with one more piece before it.
LEMMA FitsCons ==
    ASSUME NEW p \in Seq(Chars), NEW n \in Seq(Chars),
           NEW i \in 1..Len(p), NEW j \in 1..Len(n) + 1, NEW m \in 1..Len(n) + 1,
           Fits(p, n, i + 1, m),
           IF p[i] = "*" THEN j <= m ELSE m = j + 1 /\ p[i] \in {"?", n[j]}
    PROVE  Fits(p, n, i, j)
<1>1. PICK f \in [i + 1..Len(p) + 1 -> 1..Len(n) + 1] :
          /\ f[i + 1] = m
          /\ f[Len(p) + 1] = Len(n) + 1
          /\ \A y \in i + 1..Len(p) :
                IF p[y] = "*" THEN f[y] <= f[y + 1]
                ELSE f[y + 1] = f[y] + 1 /\ p[y] \in {"?", n[f[y]]}
  BY DEF Fits
<1> DEFINE g == [y \in i..(Len(p) + 1) |-> IF y = i THEN j ELSE f[y]]
<1>2. g \in [i..Len(p) + 1 -> 1..Len(n) + 1]
  BY <1>1
<1>3. g[i] = j /\ g[i + 1] = m /\ g[Len(p) + 1] = Len(n) + 1
  BY <1>1
<1>4. ASSUME NEW y \in i..Len(p)
      PROVE  IF p[y] = "*" THEN g[y] <= g[y + 1]
             ELSE g[y + 1] = g[y] + 1 /\ p[y] \in {"?", n[g[y]]}
  <2>1. CASE y = i
    BY <2>1, <1>3
  <2>2. CASE y # i
    <3>1. y \in i + 1..Len(p) /\ g[y] = f[y] /\ g[y + 1] = f[y + 1]
      BY <2>2
    <3> QED
      BY <3>1, <1>1
  <2> QED
    BY <2>1, <2>2
<1> QED
  BY <1>2, <1>3, <1>4 DEF Fits

-----------------------------------------------------------------------------
(* The invariant. *)

Plain == \A j \in 1..Len(name) : name[j] # "*"

\* A fit in which the last star takes more than it has now.
Longer == \E m \in starNi + 1..Len(name) + 1 : Fits(pat, name, star + 1, m)

\* A fit that is still to be tried.
Open == Fits(pat, name, pi, ni) \/ (star # 0 /\ Longer)

\* What is still to be tried is a fit of the whole, and a fit of the whole is
\* still to be tried.
OpenInv ==
    loop = "run" =>
        /\ Open => Fits(pat, name, 1, 1)
        /\ Plain /\ Fits(pat, name, 1, 1) => Open

\* If the last star takes more, then every later piece begins later.
StarInv ==
    loop = "run" /\ Plain /\ star # 0 /\ Longer =>
        \E m \in ni + 1..Len(name) + 1 : Fits(pat, name, pi, m)

SegmentInv == SegmentTypeOK /\ OpenInv /\ StarInv /\ Sound /\ Complete

LEMMA SegmentInitInv == SegmentInit => SegmentInv
<1> SUFFICES ASSUME SegmentInit
             PROVE  SegmentInv
  OBVIOUS
<1>1. SegmentTypeOK
  <2>1. pat \in Seq(Chars) /\ name \in Seq(Chars) /\ Len(pat) = 0 /\ Len(name) = 0
    BY DEF SegmentInit
  <2>2. pi \in 1..Len(pat) + 1 /\ ni \in 1..Len(name) + 1
    BY <2>1 DEF SegmentInit
  <2>3. star \in 0..pi - 1 /\ starNi \in 1..ni /\ star = 0
    BY DEF SegmentInit
  <2>4. loop \in {"idle", "run", "done"} /\ answer \in BOOLEAN
    BY DEF SegmentInit
  <2> QED
    BY <2>1, <2>2, <2>3, <2>4 DEF SegmentTypeOK
<1>2. loop = "idle"
  BY DEF SegmentInit
<1> QED
  BY <1>1, <1>2 DEF SegmentInv, OpenInv, StarInv, Sound, Complete

-----------------------------------------------------------------------------
(* The steps. *)

LEMMA CallInv ==
    ASSUME NEW p \in Seq(Chars), NEW n \in Seq(Chars), SegmentInv, Call(p, n)
    PROVE  SegmentInv'
<1>1. SegmentTypeOK'
  <2>1. pat' \in Seq(Chars) /\ name' \in Seq(Chars)
    BY DEF Call
  <2>2. pi' \in 1..Len(pat') + 1 /\ ni' \in 1..Len(name') + 1
    BY DEF Call
  <2>3. star' \in 0..pi' - 1 /\ starNi' \in 1..ni' /\ star' = 0
    BY DEF Call
  <2>4. loop' \in {"idle", "run", "done"} /\ answer' \in BOOLEAN
    BY DEF Call
  <2> QED
    BY <2>1, <2>2, <2>3, <2>4 DEF SegmentTypeOK
<1>2. /\ pat' = p /\ name' = n /\ pi' = 1 /\ ni' = 1
      /\ star' = 0 /\ loop' = "run"
  BY DEF Call
<1>3. OpenInv'
  BY <1>2 DEF OpenInv, Open
<1>4. StarInv' /\ Sound' /\ Complete'
  BY <1>2 DEF StarInv, Sound, Complete
<1> QED
  BY <1>1, <1>3, <1>4 DEF SegmentInv

\* The character at pi fits the one at ni.
LEMMA AdvanceInv ==
    ASSUME SegmentInv, Advance
    PROVE  SegmentInv'
<1>1. /\ pat \in Seq(Chars) /\ name \in Seq(Chars)
      /\ pi \in 1..Len(pat) /\ ni \in 1..Len(name)
      /\ star \in 0..pi - 1 /\ starNi \in 1..ni
      /\ loop = "run"
      /\ pat[pi] \in {"?", name[ni]}
      /\ pi' = pi + 1 /\ ni' = ni + 1
      /\ UNCHANGED <<pat, name, star, starNi, loop, answer>>
  BY DEF SegmentInv, SegmentTypeOK, Advance, More, Same
<1>2. SegmentTypeOK'
  BY <1>1 DEF SegmentInv, SegmentTypeOK
<1>3. Fits(pat, name, pi + 1, ni + 1) => Fits(pat, name, pi, ni)
  <2>1. ni + 1 \in 1..Len(name) + 1 /\ ni \in 1..Len(name) + 1
    BY <1>1
  <2>2. IF pat[pi] = "*" THEN ni <= ni + 1
        ELSE ni + 1 = ni + 1 /\ pat[pi] \in {"?", name[ni]}
    BY <1>1
  <2> QED
    BY <1>1, <2>1, <2>2, FitsCons
<1>4. Plain => pat[pi] # "*"
  BY <1>1 DEF Plain
<1>5. ASSUME Plain, NEW j \in 1..Len(name) + 1, Fits(pat, name, pi, j)
      PROVE  j + 1 \in 1..Len(name) + 1 /\ Fits(pat, name, pi + 1, j + 1)
  BY <1>1, <1>4, <1>5, FitsTail
<1>6. OpenInv'
  <2>1. Open' => Open
    BY <1>1, <1>3 DEF Open, Longer
  <2>2. Plain /\ Open => Open'
    <3>1. ni \in 1..Len(name) + 1
      BY <1>1
    <3> QED
      BY <1>1, <1>5, <3>1 DEF Open, Longer
  <2>3. Plain' = Plain /\ Fits(pat, name, 1, 1)' = Fits(pat, name, 1, 1)
    BY <1>1 DEF Plain
  <2> QED
    BY <1>1, <2>1, <2>2, <2>3 DEF SegmentInv, OpenInv
<1>7. StarInv'
  <2> SUFFICES ASSUME Plain, star # 0, Longer
               PROVE  \E m \in ni + 2..Len(name) + 1 : Fits(pat, name, pi + 1, m)
    BY <1>1 DEF StarInv, Plain, Longer
  <2>1. PICK m \in ni + 1..Len(name) + 1 : Fits(pat, name, pi, m)
    BY <1>1 DEF SegmentInv, StarInv
  <2>2. m \in 1..Len(name) + 1
    BY <1>1
  <2>3. m + 1 \in 1..Len(name) + 1 /\ Fits(pat, name, pi + 1, m + 1)
    BY <1>5, <2>1, <2>2
  <2>4. m + 1 \in ni + 2..Len(name) + 1
    BY <1>1, <2>3
  <2> QED
    BY <2>3, <2>4
<1>8. Sound' /\ Complete'
  BY <1>1 DEF Sound, Complete
<1> QED
  BY <1>2, <1>6, <1>7, <1>8 DEF SegmentInv

\* A new star, which takes nothing yet.
LEMMA OpenStarInv ==
    ASSUME SegmentInv, OpenStar
    PROVE  SegmentInv'
<1>1. /\ pat \in Seq(Chars) /\ name \in Seq(Chars)
      /\ pi \in 1..Len(pat) /\ ni \in 1..Len(name)
      /\ star \in 0..pi - 1 /\ starNi \in 1..ni
      /\ loop = "run"
      /\ pat[pi] = "*"
      /\ pi' = pi + 1 /\ star' = pi /\ starNi' = ni
      /\ UNCHANGED <<pat, name, ni, loop, answer>>
  BY DEF SegmentInv, SegmentTypeOK, OpenStar, More, AtStar
<1>2. SegmentTypeOK'
  BY <1>1 DEF SegmentInv, SegmentTypeOK
<1>3. Open' <=> Fits(pat, name, pi, ni)
  <2>1. ni \in 1..Len(name) + 1
    BY <1>1
  <2>2. ASSUME Fits(pat, name, pi, ni)
        PROVE  Open'
    <3>1. PICK m \in 1..Len(name) + 1 : Fits(pat, name, pi + 1, m) /\ ni <= m
      BY <1>1, <2>1, <2>2, FitsTail
    <3>2. CASE m = ni
      BY <1>1, <3>1, <3>2 DEF Open
    <3>3. CASE m # ni
      <4>1. m \in ni + 1..Len(name) + 1
        BY <1>1, <3>1, <3>3
      <4>2. Longer'
        BY <1>1, <3>1, <4>1 DEF Longer
      <4> QED
        BY <1>1, <4>2 DEF Open
    <3> QED
      BY <3>2, <3>3
  <2>3. ASSUME NEW m \in ni..Len(name) + 1, Fits(pat, name, pi + 1, m)
        PROVE  Fits(pat, name, pi, ni)
    <3>1. m \in 1..Len(name) + 1 /\ ni <= m
      BY <1>1
    <3> QED
      BY <1>1, <2>1, <2>3, <3>1, FitsCons
  <2>4. Open' => \E m \in ni..Len(name) + 1 : Fits(pat, name, pi + 1, m)
    <3>1. CASE Longer'
      <4>1. PICK m \in ni + 1..Len(name) + 1 : Fits(pat, name, pi + 1, m)
        BY <1>1, <3>1 DEF Longer
      <4>2. m \in ni..Len(name) + 1
        BY <1>1
      <4> QED
        BY <4>1, <4>2
    <3>2. CASE Fits(pat, name, pi, ni)'
      <4>1. Fits(pat, name, pi + 1, ni)
        BY <1>1, <3>2
      <4> QED
        BY <1>1, <4>1
    <3> QED
      BY <3>1, <3>2 DEF Open
  <2> QED
    BY <2>2, <2>3, <2>4
\* The old star is not needed: what it may still take, the new one may.
<1>4. Plain /\ Open => Fits(pat, name, pi, ni)
  <2> SUFFICES ASSUME Plain, star # 0, Longer
               PROVE  Fits(pat, name, pi, ni)
    BY DEF Open
  <2>1. PICK m \in ni + 1..Len(name) + 1 : Fits(pat, name, pi, m)
    BY <1>1 DEF SegmentInv, StarInv
  <2>2. m \in 1..Len(name) + 1 /\ ni \in 1..Len(name) + 1
    BY <1>1
  <2>3. PICK l \in 1..Len(name) + 1 : Fits(pat, name, pi + 1, l) /\ m <= l
    BY <1>1, <2>1, <2>2, FitsTail
  <2>4. ni <= l
    BY <1>1, <2>2, <2>3
  <2> QED
    BY <1>1, <2>2, <2>3, <2>4, FitsCons
<1>5. OpenInv'
  <2>1. Plain' = Plain /\ Fits(pat, name, 1, 1)' = Fits(pat, name, 1, 1)
    BY <1>1 DEF Plain
  <2> QED
    BY <1>1, <1>3, <1>4, <2>1 DEF SegmentInv, OpenInv, Open
<1>6. StarInv'
  BY <1>1 DEF StarInv, Longer
<1>7. Sound' /\ Complete'
  BY <1>1 DEF Sound, Complete
<1> QED
  BY <1>2, <1>5, <1>6, <1>7 DEF SegmentInv

\* Nothing fits from here.
LEMMA NoFit ==
    ASSUME SegmentInv, More, ~Same, ~AtStar
    PROVE  ~Fits(pat, name, pi, ni)
<1>1. /\ pat \in Seq(Chars) /\ name \in Seq(Chars)
      /\ pi \in 1..Len(pat) + 1 /\ ni \in 1..Len(name)
  BY DEF SegmentInv, SegmentTypeOK, More
<1>2. ni \in 1..Len(name) + 1 /\ ni # Len(name) + 1
  BY <1>1
<1>3. CASE pi = Len(pat) + 1
  BY <1>1, <1>2, <1>3, FitsEnd
<1>4. CASE pi # Len(pat) + 1
  <2>1. pi \in 1..Len(pat)
    BY <1>1, <1>4
  <2>2. pat[pi] # "*" /\ pat[pi] \notin {"?", name[ni]}
    BY <1>1, <2>1 DEF Same, AtStar
  <2> QED
    BY <1>1, <1>2, <2>1, <2>2, FitsTail
<1> QED
  BY <1>3, <1>4

LEMMA BacktrackInv ==
    ASSUME SegmentInv, Backtrack
    PROVE  SegmentInv'
<1>1. /\ pat \in Seq(Chars) /\ name \in Seq(Chars)
      /\ pi \in 1..Len(pat) + 1 /\ ni \in 1..Len(name)
      /\ star \in 1..pi - 1 /\ starNi \in 1..ni
      /\ loop = "run"
      /\ pi' = star + 1 /\ ni' = starNi + 1 /\ starNi' = starNi + 1
      /\ UNCHANGED <<pat, name, star, loop, answer>>
  BY DEF SegmentInv, SegmentTypeOK, Backtrack, More
<1>2. SegmentTypeOK'
  BY <1>1 DEF SegmentInv, SegmentTypeOK
<1>3. ~Fits(pat, name, pi, ni)
  BY NoFit DEF Backtrack
<1>4. Longer <=> Fits(pat, name, star + 1, starNi + 1) \/ Longer'
  <2>1. starNi + 1..Len(name) + 1 = {starNi + 1} \cup (starNi + 2..Len(name) + 1)
    BY <1>1
  <2> QED
    BY <1>1, <2>1 DEF Longer
<1>5. OpenInv'
  <2>1. Plain' = Plain /\ Fits(pat, name, 1, 1)' = Fits(pat, name, 1, 1)
    BY <1>1 DEF Plain
  <2>2. Open' <=> Fits(pat, name, star + 1, starNi + 1) \/ Longer'
    BY <1>1 DEF Open
  <2>3. Open <=> Longer
    BY <1>1, <1>3 DEF Open
  <2> QED
    BY <1>1, <1>4, <2>1, <2>2, <2>3 DEF SegmentInv, OpenInv
<1>6. StarInv'
  BY <1>1 DEF StarInv, Longer
<1>7. Sound' /\ Complete'
  BY <1>1 DEF Sound, Complete
<1> QED
  BY <1>2, <1>5, <1>6, <1>7 DEF SegmentInv

LEMMA MismatchInv ==
    ASSUME SegmentInv, Mismatch
    PROVE  SegmentInv'
<1>1. /\ loop = "run" /\ star = 0
      /\ loop' = "done" /\ answer' = FALSE
      /\ UNCHANGED <<pat, name, pi, ni, star, starNi>>
  BY DEF Mismatch, More, Return
<1>2. SegmentTypeOK'
  BY <1>1 DEF SegmentInv, SegmentTypeOK
<1>3. ~Fits(pat, name, pi, ni)
  BY NoFit DEF Mismatch
<1>4. ~Open
  BY <1>1, <1>3 DEF Open
<1>5. Complete'
  BY <1>1, <1>4 DEF SegmentInv, OpenInv, Complete, Plain
<1>6. Sound' /\ OpenInv' /\ StarInv'
  BY <1>1 DEF Sound, OpenInv, StarInv
<1> QED
  BY <1>2, <1>5, <1>6 DEF SegmentInv

\* At the end of the name nothing longer is left.
LEMMA NoLonger ==
    ASSUME SegmentInv, AtEnd
    PROVE  Plain => ~(star # 0 /\ Longer)
<1>1. name \in Seq(Chars) /\ ni = Len(name) + 1 /\ loop = "run"
  BY DEF SegmentInv, SegmentTypeOK, AtEnd
<1>2. ni + 1..Len(name) + 1 = {}
  BY <1>1
<1> QED
  BY <1>1, <1>2 DEF SegmentInv, StarInv

LEMMA TrailingInv ==
    ASSUME SegmentInv, Trailing
    PROVE  SegmentInv'
<1>1. /\ pat \in Seq(Chars) /\ name \in Seq(Chars)
      /\ pi \in 1..Len(pat) /\ ni = Len(name) + 1 /\ ni \in 1..Len(name) + 1
      /\ star \in 0..pi - 1 /\ starNi \in 1..ni
      /\ loop = "run"
      /\ pat[pi] = "*"
      /\ pi' = pi + 1
      /\ UNCHANGED <<pat, name, ni, star, starNi, loop, answer>>
  BY DEF SegmentInv, SegmentTypeOK, Trailing, AtEnd, AtStar
<1>2. SegmentTypeOK'
  BY <1>1 DEF SegmentInv, SegmentTypeOK
<1>3. Fits(pat, name, pi, ni) <=> Fits(pat, name, pi + 1, ni)
  <2>1. ASSUME Fits(pat, name, pi + 1, ni)
        PROVE  Fits(pat, name, pi, ni)
    BY <1>1, <2>1, FitsCons
  <2>2. ASSUME Fits(pat, name, pi, ni)
        PROVE  Fits(pat, name, pi + 1, ni)
    <3>1. PICK m \in 1..Len(name) + 1 : Fits(pat, name, pi + 1, m) /\ ni <= m
      BY <1>1, <2>2, FitsTail
    <3>2. m = ni
      BY <1>1, <3>1
    <3> QED
      BY <3>1, <3>2
  <2> QED
    BY <2>1, <2>2
<1>4. Open' <=> Open
  BY <1>1, <1>3 DEF Open, Longer
<1>5. Plain' = Plain /\ Fits(pat, name, 1, 1)' = Fits(pat, name, 1, 1)
  BY <1>1 DEF Plain
<1>6. OpenInv'
  BY <1>1, <1>4, <1>5 DEF SegmentInv, OpenInv
<1>7. StarInv'
  <2>1. Plain => ~(star # 0 /\ Longer)
    BY NoLonger DEF Trailing
  <2> QED
    BY <1>1, <1>5, <2>1 DEF StarInv, Longer
<1>8. Sound' /\ Complete'
  BY <1>1 DEF Sound, Complete
<1> QED
  BY <1>2, <1>6, <1>7, <1>8 DEF SegmentInv

LEMMA FinishInv ==
    ASSUME SegmentInv, Finish
    PROVE  SegmentInv'
<1>1. /\ pat \in Seq(Chars) /\ name \in Seq(Chars)
      /\ pi \in 1..Len(pat) + 1 /\ ni = Len(name) + 1 /\ ni \in 1..Len(name) + 1
      /\ loop = "run" /\ loop' = "done"
      /\ answer' = (pi = Len(pat) + 1)
      /\ UNCHANGED <<pat, name, pi, ni, star, starNi>>
  BY DEF SegmentInv, SegmentTypeOK, Finish, AtEnd, Return
<1>2. SegmentTypeOK'
  BY <1>1 DEF SegmentInv, SegmentTypeOK
<1>3. Fits(pat, name, pi, ni) <=> pi = Len(pat) + 1
  <2>1. CASE pi = Len(pat) + 1
    BY <1>1, <2>1, FitsEnd
  <2>2. CASE pi # Len(pat) + 1
    <3>1. pi \in 1..Len(pat) /\ pat[pi] # "*"
      BY <1>1, <2>2 DEF Finish, AtStar
    <3>2. ~(\E m \in 1..Len(name) + 1 : m = ni + 1)
      BY <1>1
    <3> QED
      BY <1>1, <2>2, <3>1, <3>2, FitsTail
  <2> QED
    BY <2>1, <2>2
<1>4. Plain => ~(star # 0 /\ Longer)
  BY NoLonger DEF Finish
<1>5. Sound'
  BY <1>1, <1>3 DEF SegmentInv, OpenInv, Open, Sound
<1>6. Complete'
  BY <1>1, <1>3, <1>4 DEF SegmentInv, OpenInv, Open, Complete, Plain
<1>7. OpenInv' /\ StarInv'
  BY <1>1 DEF OpenInv, StarInv
<1> QED
  BY <1>2, <1>5, <1>6, <1>7 DEF SegmentInv

LEMMA SegmentStepInv == SegmentInv /\ [SegmentNext]_segmentVars => SegmentInv'
<1> SUFFICES ASSUME SegmentInv, [SegmentNext]_segmentVars
             PROVE  SegmentInv'
  OBVIOUS
<1>1. CASE pat' \in Seq(Chars) /\ name' \in Seq(Chars) /\ Call(pat', name')
  BY <1>1, CallInv
<1>2. CASE Advance
  BY <1>2, AdvanceInv
<1>3. CASE OpenStar
  BY <1>3, OpenStarInv
<1>4. CASE Backtrack
  BY <1>4, BacktrackInv
<1>5. CASE Mismatch
  BY <1>5, MismatchInv
<1>6. CASE Trailing
  BY <1>6, TrailingInv
<1>7. CASE Finish
  BY <1>7, FinishInv
<1>8. CASE UNCHANGED segmentVars
  BY <1>8 DEF segmentVars, SegmentInv, SegmentTypeOK, OpenInv, Open, Longer, Plain, StarInv,
              Sound, Complete
<1> QED
  BY <1>1, <1>2, <1>3, <1>4, <1>5, <1>6, <1>7, <1>8 DEF SegmentNext, SegmentStep

\* No position outside the pattern or the name is read, whatever they are.
THEOREM SegmentTyped == SegmentSpec => []SegmentTypeOK
<1>1. SegmentSpec => []SegmentInv
  BY SegmentInitInv, SegmentStepInv, PTL DEF SegmentSpec
<1>2. SegmentInv => SegmentTypeOK
  BY DEF SegmentInv
<1> QED
  BY <1>1, <1>2, PTL

\* A name that is said to match fits the pattern.
THEOREM SoundTheorem == SegmentSpec => []Sound
<1>1. SegmentSpec => []SegmentInv
  BY SegmentInitInv, SegmentStepInv, PTL DEF SegmentSpec
<1>2. SegmentInv => Sound
  BY DEF SegmentInv
<1> QED
  BY <1>1, <1>2, PTL

\* A name without a * that fits the pattern is said to match, although only
\* the last star is tried again.
THEOREM CompleteTheorem == SegmentSpec => []Complete
<1>1. SegmentSpec => []SegmentInv
  BY SegmentInitInv, SegmentStepInv, PTL DEF SegmentSpec
<1>2. SegmentInv => Complete
  BY DEF SegmentInv
<1> QED
  BY <1>1, <1>2, PTL

-----------------------------------------------------------------------------
(* Folds of sequences, of which Glob uses four. *)

FoldStep(kind, acc, c) ==
    CASE kind[1] = "join" -> Join(acc, c)
      [] kind[1] = "cut" -> Cut(acc, c)
      [] kind[1] = "write" -> Write(acc, c)
      [] kind[1] = "ends" -> Beyond(acc, c, kind[2])

\* The fold of seq from base, up to each set of its positions.
FoldDef(iter, v) ==
    IF v[4] = {} THEN v[2]
    ELSE FoldStep(v[1], iter[<<v[1], v[2], v[3], v[4] \ {Max(v[4])}>>], v[3][Max(v[4])])
F == INSTANCE Recursion WITH Def <- FoldDef

\* Iterates(iter, ...): iter is the function that MapThenFoldSet defines.
Iterates(iter, kind, base, seq) ==
    iter = [s \in SUBSET DOMAIN seq |->
               IF s = {} THEN base
               ELSE FoldStep(kind, iter[s \ {Max(s)}], seq[Max(s)])]

LEMMA MaxIs ==
    ASSUME NEW m \in Nat, NEW s, s \subseteq 1..m, s # {}
    PROVE  Max(s) \in s /\ \A y \in s : y <= Max(s)
<1> DEFINE down == {m - y : y \in s}
<1>1. down \subseteq Nat /\ down # {}
    <2>1. \A y \in s : m - y \in Nat
        OBVIOUS
    <2> QED BY <2>1
<1>2. PICK n \in down : \A d \in down : n <= d
    <2> HIDE DEF down
    <2> QED BY <1>1, Smallest
<1>3. PICK x \in s : n = m - x
    OBVIOUS
<1>4. ASSUME NEW y \in s PROVE x >= y
    <2>1. n <= m - y /\ m \in Nat /\ x \in 1..m /\ y \in 1..m
        BY <1>2
    <2> QED BY <2>1, <1>3
<1>5. Max(s) \in s /\ \A y \in s : Max(s) >= y
    BY <1>4 DEF Max
<1> QED
    <2>1. \A y \in s : y \in 1..m /\ Max(s) \in 1..m
        BY <1>5
    <2> QED BY <1>5, <2>1

LEMMA FoldExists ==
    ASSUME NEW kind, NEW base, NEW T, NEW seq \in Seq(T)
    PROVE  \E iter : Iterates(iter, kind, base, seq)
<1> DEFINE P == SUBSET (1..Len(seq))
           D == {kind} \X {base} \X {seq} \X P
           m == [v \in D |-> Cardinality(v[4])]
<1>0. ASSUME NEW s \in P
      PROVE  /\ Cardinality(s) \in Nat
             /\ s # {} => Max(s) \in s /\ s \ {Max(s)} \in P /\ Cardinality(s \ {Max(s)}) < Cardinality(s)
    <2>0. Len(seq) \in Nat /\ s \subseteq 1..Len(seq)
        OBVIOUS
    <2>1. IsFiniteSet(s)
        <3>1. IsFiniteSet(1..Len(seq))
            BY <2>0, FS_Interval
        <3> QED BY <2>0, <3>1, FS_Subset
    <2>2. s # {} => Max(s) \in s
        BY <2>0, MaxIs
    <2>3. Cardinality(s) \in Nat
        BY <2>1, FS_CardinalityType
    <2>4. s # {} => Cardinality(s \ {Max(s)}) = Cardinality(s) - 1
        BY <2>1, <2>2, FS_RemoveElement
    <2>5. s \ {Max(s)} \in P
        BY <2>0
    <2> QED BY <2>2, <2>3, <2>4, <2>5
<1>1. F!Local(D, m)
    <2> SUFFICES ASSUME NEW v \in D, NEW g, NEW h, \A y \in D : m[y] < m[v] => g[y] = h[y]
                 PROVE  FoldDef(g, v) = FoldDef(h, v)
        BY DEF F!Local
    <2>1. v[4] \in P /\ v = <<kind, base, seq, v[4]>>
        OBVIOUS
    <2>2. CASE v[4] = {}
        BY <2>2 DEF FoldDef
    <2>3. CASE v[4] # {}
        <3> DEFINE w == <<v[1], v[2], v[3], v[4] \ {Max(v[4])}>>
        <3>1. w \in D /\ m[w] < m[v]
            BY <1>0, <2>1, <2>3
        <3>2. g[w] = h[w]
            BY <3>1
        <3> QED BY <2>3, <3>2 DEF FoldDef
    <2> QED BY <2>2, <2>3
<1>2. m \in [D -> Nat]
    BY <1>0
<1>3. PICK f : f = [v \in D |-> FoldDef(f, v)]
    <2> HIDE DEF m, D
    <2> QED BY <1>1, <1>2, F!Recursive, WellOrdered DEF F!WellOrder
<1> DEFINE iter == [s \in P |-> f[<<kind, base, seq, s>>]]
<1>4. ASSUME NEW s \in P
      PROVE  iter[s] = IF s = {} THEN base ELSE FoldStep(kind, iter[s \ {Max(s)}], seq[Max(s)])
    <2>1. f[<<kind, base, seq, s>>] = FoldDef(f, <<kind, base, seq, s>>)
        BY <1>3
    <2>2. s # {} => s \ {Max(s)} \in P
        BY <1>0
    <2> QED BY <2>1, <2>2 DEF FoldDef
<1>5. DOMAIN seq = 1..Len(seq)
    OBVIOUS
<1>6. iter = [s \in P |-> iter[s]]
    OBVIOUS
<1> HIDE DEF iter
<1>7. Iterates(iter, kind, base, seq)
    BY <1>4, <1>5, <1>6 DEF Iterates
<1> QED
    BY <1>7

\* The fold, stage by stage.
Stages(g, kind, base, seq) ==
    /\ g[0] = base
    /\ \A m \in 1..Len(seq) : g[m] = FoldStep(kind, g[m - 1], seq[m])

LEMMA FoldStages ==
    ASSUME NEW kind, NEW base, NEW T, NEW seq \in Seq(T), NEW iter,
           Iterates(iter, kind, base, seq)
    PROVE  \E g : Stages(g, kind, base, seq) /\ g[Len(seq)] = iter[DOMAIN seq]
<1> DEFINE g == [m \in 0..Len(seq) |-> iter[1..m]]
<1>1. g[0] = base
    <2>1. 1..0 = {}
        OBVIOUS
    <2> QED BY <2>1 DEF Iterates
<1>2. ASSUME NEW m \in 1..Len(seq) PROVE g[m] = FoldStep(kind, g[m - 1], seq[m])
    <2>0. DOMAIN seq = 1..Len(seq) /\ Len(seq) \in Nat /\ m \in Nat /\ m \in 1..m
        OBVIOUS
    <2>1. 1..m \in SUBSET DOMAIN seq
        BY <2>0
    <2>2. Max(1..m) = m
        <3> DEFINE s == 1..m
        <3>1. s \subseteq 1..m /\ s # {}
            BY <2>0
        <3>2. Max(s) \in s /\ \A y \in s : y <= Max(s)
            <4> HIDE DEF s
            <4> QED BY <3>1, <2>0, MaxIs
        <3>3. Max(s) \in s /\ m <= Max(s)
            BY <3>2, <2>0
        <3> QED BY <3>3, <2>0
    <2>3. (1..m) \ {m} = 1..m - 1
        BY <2>0
    <2>4. iter[1..m] = FoldStep(kind, iter[(1..m) \ {Max(1..m)}], seq[Max(1..m)])
        BY <2>0, <2>1 DEF Iterates
    <2>5. g[m] = iter[1..m] /\ g[m - 1] = iter[1..m - 1]
        BY <2>0
    <2> QED BY <2>2, <2>3, <2>4, <2>5
<1>3. g[Len(seq)] = iter[DOMAIN seq]
    <2>1. DOMAIN seq = 1..Len(seq) /\ Len(seq) \in 0..Len(seq)
        OBVIOUS
    <2> QED BY <2>1
<1> QED
    BY <1>1, <1>2, <1>3 DEF Stages

LEMMA FoldJoin ==
    ASSUME NEW T, NEW seq \in Seq(T)
    PROVE  \E g : /\ g[0] = <<>>
                  /\ \A m \in 1..Len(seq) : g[m] = Join(g[m - 1], seq[m])
                  /\ Flat(seq) = g[Len(seq)]
<1> DEFINE kind == <<"join">>
           I == CHOOSE iter : iter = [s \in SUBSET DOMAIN seq |->
                    IF s = {} THEN <<>> ELSE Join(iter[s \ {Max(s)}], seq[Max(s)])]
<1>1. \A acc, c : FoldStep(kind, acc, c) = Join(acc, c)
    BY DEF FoldStep
<1>2. Iterates(I, kind, <<>>, seq)
    <2>1. \A iter : Iterates(iter, kind, <<>>, seq) <=>
              iter = [s \in SUBSET DOMAIN seq |->
                         IF s = {} THEN <<>> ELSE Join(iter[s \ {Max(s)}], seq[Max(s)])]
        <3> HIDE DEF kind
        <3> QED BY <1>1, Zenon DEF Iterates
    <2>2. \E iter : Iterates(iter, kind, <<>>, seq)
        BY FoldExists
    <2> HIDE DEF kind
    <2> QED BY <2>1, <2>2, Zenon
<1>3. Flat(seq) = I[DOMAIN seq]
    BY DEF Flat, FoldLeft, MapThenFoldSet
<1> HIDE DEF kind, I
<1> QED
    BY <1>1, <1>2, <1>3, FoldStages DEF Stages

LEMMA FoldCut ==
    ASSUME NEW T, NEW seq \in Seq(T)
    PROVE  \E g : /\ g[0] = <<<<>>>>
                  /\ \A m \in 1..Len(seq) : g[m] = Cut(g[m - 1], seq[m])
                  /\ Segs(seq) = g[Len(seq)]
<1> DEFINE kind == <<"cut">>
           I == CHOOSE iter : iter = [s \in SUBSET DOMAIN seq |->
                    IF s = {} THEN <<<<>>>> ELSE Cut(iter[s \ {Max(s)}], seq[Max(s)])]
<1>1. \A acc, c : FoldStep(kind, acc, c) = Cut(acc, c)
    BY DEF FoldStep
<1>2. Iterates(I, kind, <<<<>>>>, seq)
    <2>1. \A iter : Iterates(iter, kind, <<<<>>>>, seq) <=>
              iter = [s \in SUBSET DOMAIN seq |->
                         IF s = {} THEN <<<<>>>> ELSE Cut(iter[s \ {Max(s)}], seq[Max(s)])]
        <3> HIDE DEF kind
        <3> QED BY <1>1, Zenon DEF Iterates
    <2>2. \E iter : Iterates(iter, kind, <<<<>>>>, seq)
        BY FoldExists
    <2> HIDE DEF kind
    <2> QED BY <2>1, <2>2, Zenon
<1>3. Segs(seq) = I[DOMAIN seq]
    BY DEF Segs, FoldLeft, MapThenFoldSet
<1> HIDE DEF kind, I
<1> QED
    BY <1>1, <1>2, <1>3, FoldStages DEF Stages

LEMMA FoldWrite ==
    ASSUME NEW base, NEW T, NEW seq \in Seq(T)
    PROVE  \E g : /\ g[0] = base
                  /\ \A m \in 1..Len(seq) : g[m] = Write(g[m - 1], seq[m])
                  /\ Written(base, seq) = g[Len(seq)]
<1> DEFINE kind == <<"write">>
           I == CHOOSE iter : iter = [s \in SUBSET DOMAIN seq |->
                    IF s = {} THEN base ELSE Write(iter[s \ {Max(s)}], seq[Max(s)])]
<1>1. \A acc, c : FoldStep(kind, acc, c) = Write(acc, c)
    BY DEF FoldStep
<1>2. Iterates(I, kind, base, seq)
    <2>1. \A iter : Iterates(iter, kind, base, seq) <=>
              iter = [s \in SUBSET DOMAIN seq |->
                         IF s = {} THEN base ELSE Write(iter[s \ {Max(s)}], seq[Max(s)])]
        <3> HIDE DEF kind
        <3> QED BY <1>1, Zenon DEF Iterates
    <2>2. \E iter : Iterates(iter, kind, base, seq)
        BY FoldExists
    <2> HIDE DEF kind
    <2> QED BY <2>1, <2>2, Zenon
<1>3. Written(base, seq) = I[DOMAIN seq]
    BY DEF Written, FoldLeft, MapThenFoldSet
<1> HIDE DEF kind, I
<1> QED
    BY <1>1, <1>2, <1>3, FoldStages DEF Stages

LEMMA FoldEnds ==
    ASSUME NEW t, NEW T, NEW seq \in Seq(T)
    PROVE  \E g : /\ g[0] = {1}
                  /\ \A m \in 1..Len(seq) : g[m] = Beyond(g[m - 1], seq[m], t)
                  /\ Ends(seq, t) = g[Len(seq)]
<1> DEFINE kind == <<"ends", t>>
           I == CHOOSE iter : iter = [s \in SUBSET DOMAIN seq |->
                    IF s = {} THEN {1}
                    ELSE Beyond(iter[s \ {Max(s)}], seq[Max(s)], t)]
<1>1. \A acc, c : FoldStep(kind, acc, c) = Beyond(acc, c, t)
    BY DEF FoldStep
<1>2. Iterates(I, kind, {1}, seq)
    <2>1. \A iter : Iterates(iter, kind, {1}, seq) <=>
              iter = [s \in SUBSET DOMAIN seq |->
                         IF s = {} THEN {1}
                         ELSE Beyond(iter[s \ {Max(s)}], seq[Max(s)], t)]
        <3> HIDE DEF kind
        <3> QED BY <1>1, Zenon DEF Iterates
    <2>2. \E iter : Iterates(iter, kind, {1}, seq)
        BY FoldExists
    <2> HIDE DEF kind
    <2> QED BY <2>1, <2>2, Zenon
<1>3. Ends(seq, t) = I[DOMAIN seq]
    BY DEF Ends, FoldLeft, MapThenFoldSet
<1> HIDE DEF kind, I
<1>4. PICK g : Stages(g, kind, {1}, seq) /\ g[Len(seq)] = I[DOMAIN seq]
    BY <1>2, FoldStages
<1>5. \A m \in 1..Len(seq) : g[m] = Beyond(g[m - 1], seq[m], t)
    BY <1>1, <1>4 DEF Stages
<1>6. g[0] = {1} /\ Ends(seq, t) = g[Len(seq)]
    BY <1>3, <1>4 DEF Stages
<1> QED
    BY <1>5, <1>6, Zenon

-----------------------------------------------------------------------------
(* Patterns and their segments. *)

\* A pattern as glob_list::add leaves it.
IsPattern(p) == p \in Seq(Chars) /\ Len(p) > 0 /\ p[Len(p)] # "/"

LEMMA StrippedIs ==
    ASSUME NEW p \in Seq(Chars)
    PROVE  Stripped(p) = <<>> \/ IsPattern(Stripped(p))
<1> DEFINE kept == {x \in DOMAIN p : p[x] # "/"}
<1>1. Len(p) \in Nat /\ DOMAIN p = 1..Len(p) /\ kept \subseteq 1..Len(p)
    OBVIOUS
<1>2. CASE kept = {}
    <2>1. Stripped(p) = SubSeq(p, 1, 0)
        BY <1>2 DEF Stripped
    <2> QED BY <2>1
<1>3. CASE kept # {}
    <2> DEFINE m == Max(kept)
    <2>1. m \in kept
        <3> HIDE DEF kept
        <3> QED BY <1>1, <1>3, MaxIs
    <2>2. m \in 1..Len(p) /\ p[m] # "/"
        BY <2>1
    <2>3. Stripped(p) = SubSeq(p, 1, m)
        BY <1>3 DEF Stripped
    <2> HIDE DEF m, kept
    <2>4. SubSeq(p, 1, m) \in Seq(Chars) /\ Len(SubSeq(p, 1, m)) = m /\ SubSeq(p, 1, m)[m] = p[m]
        BY <1>1, <2>2
    <2> QED BY <2>2, <2>3, <2>4 DEF IsPattern
<1> QED
    BY <1>2, <1>3

LEMMA BodyIs ==
    ASSUME NEW p, IsPattern(p)
    PROVE  Body(p) \in Seq(Chars) /\ Len(Body(p)) > 0 /\ Body(p)[Len(Body(p))] # "/"
BY DEF IsPattern, Body, Anchored

Segments == {s \in Seq(Seq(Chars)) : Len(s) > 0}

LEMMA CutIs ==
    ASSUME NEW s \in Segments, NEW c \in Chars
    PROVE  Cut(s, c) \in Segments /\ (c # "/" => Last(Cut(s, c)) # <<>>)
<1>1. s \in Seq(Seq(Chars)) /\ Len(s) > 0 /\ Len(s) \in Nat
    BY DEF Segments
<1>2. CASE c = "/"
    <2>1. Cut(s, c) = Append(s, <<>>) /\ <<>> \in Seq(Chars)
        BY <1>2 DEF Cut
    <2>2. Append(s, <<>>) \in Seq(Seq(Chars)) /\ Len(Append(s, <<>>)) = Len(s) + 1
        BY <1>1, <2>1
    <2>3. Cut(s, c) \in Seq(Seq(Chars))
        BY <2>1, <2>2, Zenon
    <2>4. Len(Cut(s, c)) = Len(s) + 1
        BY <2>1, <2>2, Zenon
    <2> QED BY <1>1, <1>2, <2>3, <2>4 DEF Segments
<1>3. CASE c # "/"
    <2> DEFINE n == Append(s[Len(s)], c)
    <2>0. s[Len(s)] \in Seq(Chars)
        BY <1>1
    <2>1. n \in Seq(Chars) /\ n # <<>>
        <3>1. n \in Seq(Chars) /\ Len(n) = Len(s[Len(s)]) + 1
            BY <2>0
        <3>2. Len(s[Len(s)]) \in Nat
            BY <2>0
        <3> QED BY <3>1, <3>2
    <2>2. Cut(s, c) = [s EXCEPT ![Len(s)] = n]
        BY <1>3 DEF Cut
    <2> HIDE DEF n
    <2>3. Cut(s, c) \in Seq(Seq(Chars)) /\ Len(Cut(s, c)) = Len(s) /\ Cut(s, c)[Len(s)] = n
        BY <1>1, <2>1, <2>2
    <2> QED BY <1>1, <2>1, <2>3 DEF Segments, Last
<1> QED
    BY <1>2, <1>3

\* split_glob_pattern of a pattern, character by character.
LEMMA SplitIs ==
    ASSUME NEW p, IsPattern(p)
    PROVE  \E g : /\ g[0] = <<<<>>>>
                  /\ \A m \in 1..Len(Body(p)) : g[m] = Cut(g[m - 1], Body(p)[m])
                  /\ \A m \in 0..Len(Body(p)) : g[m] \in Segments
                  /\ Split(p) = g[Len(Body(p))]
<1> DEFINE b == Body(p)
<1>1. b \in Seq(Chars) /\ Len(b) \in Nat /\ Len(b) > 0 /\ b[Len(b)] # "/"
    BY BodyIs
<1>2. PICK g : /\ g[0] = <<<<>>>>
               /\ \A m \in 1..Len(b) : g[m] = Cut(g[m - 1], b[m])
               /\ Segs(b) = g[Len(b)]
    <2> HIDE DEF b
    <2> QED BY <1>1, FoldCut
<1> DEFINE P == {m \in 0..Len(b) : g[m] \in Segments}
<1>3. 0..Len(b) \subseteq P
    <2>1. 0 \in P
        <3>1. <<>> \in Seq(Chars)
            OBVIOUS
        <3>2. <<<<>>>> \in Seq(Seq(Chars)) /\ Len(<<<<>>>>) = 1
            BY <3>1
        <3>3. g[0] \in Segments
            BY <1>2, <3>2 DEF Segments
        <3> QED BY <1>1, <3>3
    <2>2. ASSUME NEW m \in 1..Len(b), m - 1 \in P PROVE m \in P
        <3>1. b[m] \in Chars /\ g[m] = Cut(g[m - 1], b[m]) /\ g[m - 1] \in Segments
            BY <1>1, <1>2, <2>2
        <3>2. g[m] \in Segments
            BY <3>1, CutIs
        <3> QED BY <3>2
    <2> HIDE DEF P
    <2> QED BY <1>1, <2>1, <2>2, Counting
<1>4. Last(g[Len(b)]) # <<>>
    <2>1. Len(b) - 1 \in P /\ b[Len(b)] \in Chars /\ Len(b) \in 1..Len(b)
        BY <1>1, <1>3
    <2>2. g[Len(b)] = Cut(g[Len(b) - 1], b[Len(b)]) /\ g[Len(b) - 1] \in Segments
        BY <1>2, <2>1
    <2> HIDE DEF P, b
    <2> QED BY <1>1, <2>1, <2>2, CutIs
<1>5. Split(p) = g[Len(b)]
    BY <1>2, <1>4 DEF Split
<1> QED
    BY <1>2, <1>3, <1>5

LEMMA SplitType ==
    ASSUME NEW p, IsPattern(p)
    PROVE  Split(p) \in Seq(Seq(Chars)) /\ Len(Split(p)) > 0
<1>1. PICK g : (\A m \in 0..Len(Body(p)) : g[m] \in Segments) /\ Split(p) = g[Len(Body(p))]
    BY SplitIs
<1>2. Len(Body(p)) \in 0..Len(Body(p))
    BY BodyIs
<1> QED
    BY <1>1, <1>2 DEF Segments

LEMMA EffectiveType ==
    ASSUME NEW p, IsPattern(p)
    PROVE  /\ Effective(p) \in Seq(Seq(Chars) \cup {Stars})
           /\ Len(Effective(p)) > 0
           /\ ~Anchored(p) => Len(Effective(p)) > 1
<1>1. Split(p) \in Seq(Seq(Chars)) /\ Len(Split(p)) > 0
    BY SplitType
<1>2. CASE Anchored(p)
    BY <1>1, <1>2 DEF Effective
<1>3. CASE ~Anchored(p)
    <2>1. Effective(p) = <<Stars>> \o Split(p)
        BY <1>3 DEF Effective
    <2>2. Split(p) \in Seq(Seq(Chars) \cup {Stars}) /\ <<Stars>> \in Seq(Seq(Chars) \cup {Stars})
        BY <1>1
    <2> QED BY <1>1, <2>1, <2>2
<1> QED
    BY <1>2, <1>3

-----------------------------------------------------------------------------
(* What is denoted, segment by segment. *)

\* Segment x takes the names of the path after a up to b.
Takes(s, path, x, a, b) ==
    IF s[x] = Stars THEN a <= b /\ (x = Len(s) => a < b)
    ELSE b = a + 1 /\ Fits(s[x], path[b], 1, 1)

\* The segments from x on take the names after a.
From(s, path, x, a) ==
    \E f \in [x..Len(s) + 1 -> 0..Len(path)] :
        /\ f[x] = a /\ f[Len(s) + 1] = Len(path)
        /\ \A y \in x..Len(s) : Takes(s, path, y, f[y], f[y + 1])

LEMMA DenotesFrom ==
    ASSUME NEW p, NEW path
    PROVE  Denotes(p, path) <=> From(Effective(p), path, 1, 0)
BY DEF Denotes, From, Takes

LEMMA FromEnd ==
    ASSUME NEW s, Len(s) \in Nat, NEW path, Len(path) \in Nat, NEW a \in 0..Len(path)
    PROVE  From(s, path, Len(s) + 1, a) <=> a = Len(path)
<1>1. ASSUME a = Len(path) PROVE From(s, path, Len(s) + 1, a)
    <2> DEFINE f == [y \in (Len(s) + 1)..(Len(s) + 1) |-> a]
    <2>1. f \in [Len(s) + 1..Len(s) + 1 -> 0..Len(path)] /\ f[Len(s) + 1] = a
        OBVIOUS
    <2>2. (Len(s) + 1)..Len(s) = {}
        OBVIOUS
    <2> HIDE DEF f
    <2> QED BY <1>1, <2>1, <2>2 DEF From
<1>2. From(s, path, Len(s) + 1, a) => a = Len(path)
    BY DEF From
<1> QED
    BY <1>1, <1>2

\* What the first segment takes, and then the others.
LEMMA FromStep ==
    ASSUME NEW s, Len(s) \in Nat, NEW path, Len(path) \in Nat,
           NEW x \in 1..Len(s), NEW a \in 0..Len(path)
    PROVE  From(s, path, x, a) <=>
               \E b \in 0..Len(path) : Takes(s, path, x, a, b) /\ From(s, path, x + 1, b)
<1>1. ASSUME From(s, path, x, a)
      PROVE  \E b \in 0..Len(path) : Takes(s, path, x, a, b) /\ From(s, path, x + 1, b)
    <2>1. PICK f \in [x..Len(s) + 1 -> 0..Len(path)] :
              /\ f[x] = a /\ f[Len(s) + 1] = Len(path)
              /\ \A y \in x..Len(s) : Takes(s, path, y, f[y], f[y + 1])
        BY <1>1 DEF From
    <2> DEFINE g == [y \in (x + 1)..(Len(s) + 1) |-> f[y]]
    <2>2. g \in [x + 1..Len(s) + 1 -> 0..Len(path)]
        BY <2>1
    <2>3. g[x + 1] = f[x + 1] /\ g[Len(s) + 1] = Len(path) /\ f[x + 1] \in 0..Len(path)
        BY <2>1
    <2>4. ASSUME NEW y \in x + 1..Len(s) PROVE Takes(s, path, y, g[y], g[y + 1])
        <3>1. g[y] = f[y] /\ g[y + 1] = f[y + 1] /\ y \in x..Len(s)
            OBVIOUS
        <3> HIDE DEF g
        <3> QED BY <2>1, <3>1
    <2>5. Takes(s, path, x, a, f[x + 1])
        BY <2>1
    <2> HIDE DEF g
    <2>6. From(s, path, x + 1, f[x + 1])
        BY <2>2, <2>3, <2>4 DEF From
    <2> QED BY <2>3, <2>5, <2>6
<1>2. ASSUME NEW b \in 0..Len(path), Takes(s, path, x, a, b), From(s, path, x + 1, b)
      PROVE  From(s, path, x, a)
    <2>1. PICK f \in [x + 1..Len(s) + 1 -> 0..Len(path)] :
              /\ f[x + 1] = b /\ f[Len(s) + 1] = Len(path)
              /\ \A y \in x + 1..Len(s) : Takes(s, path, y, f[y], f[y + 1])
        BY <1>2 DEF From
    <2> DEFINE g == [y \in x..(Len(s) + 1) |-> IF y = x THEN a ELSE f[y]]
    <2>2. g \in [x..Len(s) + 1 -> 0..Len(path)]
        BY <2>1
    <2>3. g[x] = a /\ g[x + 1] = b /\ g[Len(s) + 1] = Len(path)
        BY <2>1
    <2>4. ASSUME NEW y \in x..Len(s) PROVE Takes(s, path, y, g[y], g[y + 1])
        <3>1. CASE y = x
            BY <3>1, <2>3, <1>2
        <3>2. CASE y # x
            <4>1. g[y] = f[y] /\ g[y + 1] = f[y + 1] /\ y \in x + 1..Len(s)
                BY <3>2
            <4> HIDE DEF g
            <4> QED BY <2>1, <4>1
        <3> QED BY <3>1, <3>2
    <2> HIDE DEF g
    <2> QED BY <2>2, <2>3, <2>4 DEF From
<1> QED
    BY <1>1, <1>2

\* No segment is left for a path that is at its end.
LEMMA FromNothing ==
    ASSUME NEW s, Len(s) \in Nat, NEW path, Len(path) \in Nat, NEW x \in 1..Len(s)
    PROVE  ~From(s, path, x, Len(path))
<1> SUFFICES ASSUME From(s, path, x, Len(path)) PROVE FALSE
    OBVIOUS
<1>1. PICK f \in [x..Len(s) + 1 -> 0..Len(path)] :
          /\ f[x] = Len(path) /\ f[Len(s) + 1] = Len(path)
          /\ \A y \in x..Len(s) : Takes(s, path, y, f[y], f[y + 1])
    BY DEF From
<1> DEFINE P == {m \in 0..Len(s) - x : f[x + m] = Len(path)}
<1>2. 0..Len(s) - x \subseteq P
    <2>1. 0 \in P
        BY <1>1
    <2>2. ASSUME NEW m \in 1..Len(s) - x, m - 1 \in P PROVE m \in P
        <3> DEFINE y == x + m - 1
        <3>1. y \in x..Len(s) /\ y + 1 = x + m /\ y + 1 \in x..Len(s) + 1 /\ f[y] = Len(path)
            BY <2>2
        <3>2. Takes(s, path, y, f[y], f[y + 1]) /\ f[y + 1] \in 0..Len(path)
            BY <1>1, <3>1
        <3>3. f[y + 1] >= f[y]
            BY <3>1, <3>2 DEF Takes
        <3> HIDE DEF y
        <3> QED BY <3>1, <3>2, <3>3
    <2>3. Len(s) - x \in Nat
        OBVIOUS
    <2> HIDE DEF P
    <2> QED BY <2>1, <2>2, <2>3, Counting
<1>3. f[Len(s)] = Len(path)
    <2>1. Len(s) - x \in 0..Len(s) - x /\ x + (Len(s) - x) = Len(s)
        OBVIOUS
    <2>2. Len(s) - x \in P
        BY <1>2, <2>1
    <2> QED BY <2>1, <2>2
<1>4. Takes(s, path, Len(s), Len(path), Len(path))
    BY <1>1, <1>3
<1> QED
    BY <1>4 DEF Takes

\* Stars take nothing, or a name and then what they take.
LEMMA FromStars ==
    ASSUME NEW s, Len(s) \in Nat, NEW path, Len(path) \in Nat,
           NEW x \in 1..Len(s), s[x] = Stars, x < Len(s), NEW a \in 0..Len(path) - 1
    PROVE  From(s, path, x, a) <=> From(s, path, x + 1, a) \/ From(s, path, x, a + 1)
<1>1. a \in 0..Len(path) /\ a + 1 \in 0..Len(path)
    OBVIOUS
<1>2. From(s, path, x, a) <=>
          \E b \in 0..Len(path) : Takes(s, path, x, a, b) /\ From(s, path, x + 1, b)
    BY <1>1, FromStep
<1>3. From(s, path, x, a + 1) <=>
          \E b \in 0..Len(path) : Takes(s, path, x, a + 1, b) /\ From(s, path, x + 1, b)
    BY <1>1, FromStep
<1>4. \A b \in 0..Len(path) :
          /\ Takes(s, path, x, a, b) <=> a <= b
          /\ Takes(s, path, x, a + 1, b) <=> a + 1 <= b
    BY DEF Takes
<1>5. \A b \in 0..Len(path) : a <= b <=> a = b \/ a + 1 <= b
    OBVIOUS
<1> QED
    BY <1>1, <1>2, <1>3, <1>4, <1>5

\* At the end of the pattern they take all that is left, if anything is.
LEMMA FromLastStars ==
    ASSUME NEW s, Len(s) \in Nat, NEW path, Len(path) \in Nat,
           Len(s) > 0, s[Len(s)] = Stars, NEW a \in 0..Len(path)
    PROVE  From(s, path, Len(s), a) <=> a < Len(path)
<1>1. Len(s) \in 1..Len(s) /\ Len(path) \in 0..Len(path)
    OBVIOUS
<1>2. From(s, path, Len(s), a) <=>
          \E b \in 0..Len(path) : Takes(s, path, Len(s), a, b) /\ From(s, path, Len(s) + 1, b)
    BY <1>1, FromStep
<1>3. \A b \in 0..Len(path) : From(s, path, Len(s) + 1, b) <=> b = Len(path)
    BY FromEnd
<1>4. \A b \in 0..Len(path) : Takes(s, path, Len(s), a, b) <=> a < b
    BY DEF Takes
<1> QED
    BY <1>1, <1>2, <1>3, <1>4

\* Another segment takes one name.
LEMMA FromName ==
    ASSUME NEW s, Len(s) \in Nat, NEW path, Len(path) \in Nat,
           NEW x \in 1..Len(s), s[x] # Stars, NEW a \in 0..Len(path) - 1
    PROVE  From(s, path, x, a) <=>
               Fits(s[x], path[a + 1], 1, 1) /\ From(s, path, x + 1, a + 1)
<1>1. a \in 0..Len(path) /\ a + 1 \in 0..Len(path)
    OBVIOUS
<1>2. From(s, path, x, a) <=>
          \E b \in 0..Len(path) : Takes(s, path, x, a, b) /\ From(s, path, x + 1, b)
    BY <1>1, FromStep
<1>3. \A b \in 0..Len(path) :
          Takes(s, path, x, a, b) <=> b = a + 1 /\ Fits(s[x], path[b], 1, 1)
    BY DEF Takes
<1> QED
    BY <1>1, <1>2, <1>3

-----------------------------------------------------------------------------
(* The tree, and the calls for the children of a node. *)

Names == {n \in Seq(Chars) : n # <<>> /\ "/" \notin ToSet(n)}

LEMMA SetToSeqIs ==
    ASSUME NEW T, IsFiniteSet(T)
    PROVE  /\ SetToSeq(T) \in Seq(T)
           /\ \A x, y \in 1..Len(SetToSeq(T)) : SetToSeq(T)[x] = SetToSeq(T)[y] => x = y
           /\ \A e \in T : \E x \in 1..Len(SetToSeq(T)) : SetToSeq(T)[x] = e
<1> DEFINE n == Cardinality(T)
           f == SetToSeq(T)
<1>1. n \in Nat /\ ExistsBijection(1..n, T)
    BY FS_CardinalityType
<1>2. PICK g : g \in Bijection(1..n, T)
    BY <1>1 DEF ExistsBijection
<1>3. g \in [1..n -> T] /\ \A a, b \in 1..n : g[a] = g[b] => a = b
    BY <1>2 DEF Bijection, Injection, IsInjective
<1>4. f \in [1..n -> T] /\ IsInjective(f)
    <2>1. \E h \in [1..n -> T] : IsInjective(h)
        <3> HIDE DEF n
        <3> QED BY <1>3 DEF IsInjective
    <2> QED BY <2>1 DEF SetToSeq
<1> HIDE DEF f
<1>5. IsFiniteSet(1..n) /\ Cardinality(1..n) = n
    BY <1>1, FS_Interval
<1>6. f \in Injection(1..n, T)
    BY <1>4 DEF Injection
<1>7. f \in Surjection(1..n, T)
    BY <1>5, <1>6, FS_Injection
<1>8. \A e \in T : \E x \in 1..n : f[x] = e
    BY <1>7 DEF Surjection
<1>9. f \in Seq(T) /\ Len(f) = n
    BY <1>1, <1>4
<1>10. \A x, y \in 1..n : f[x] = f[y] => x = y
    BY <1>4 DEF IsInjective
<1> QED
    BY <1>8, <1>9, <1>10 DEF f

LEMMA FrontIs ==
    ASSUME NEW T, NEW r \in Seq(T), Len(r) > 0
    PROVE  Len(Front(r)) = Len(r) - 1 /\ \A y \in 1..Len(r) - 1 : Front(r)[y] = r[y]
<1> DEFINE n == Len(r) - 1
<1>1. n \in Nat /\ Front(r) = SubSeq(r, 1, n)
    BY DEF Front
<1>2. n <= Len(r)
    OBVIOUS
<1>3. Len(SubSeq(r, 1, n)) = n /\ \A y \in 1..n : SubSeq(r, 1, n)[y] = r[y]
    <2> HIDE DEF n
    <2> QED BY <1>1, <1>2
<1> QED
    BY <1>1, <1>3

LEMMA PathIs ==
    ASSUME NEW t \in Trees, NEW q \in t
    PROVE  /\ q \in Seq(Names) /\ Len(q) \in Nat /\ Len(q) > 0
           /\ Last(q) \in Seq(Chars) /\ Last(q) = q[Len(q)]
<1>1. q \in Seq(Names) /\ Len(q) > 0
    BY GlobAssumption DEF Names
<1>2. Len(q) \in Nat /\ q[Len(q)] \in Names
    BY <1>1
<1> QED
    BY <1>1, <1>2 DEF Names, Last

\* Every directory of a path is in the tree.
LEMMA PrefixIn ==
    ASSUME NEW t \in Trees, NEW q \in t, NEW m \in 1..Len(q)
    PROVE  SubSeq(q, 1, m) \in t
<1> DEFINE P == {d \in 0..Len(q) - 1 : SubSeq(q, 1, Len(q) - d) \in t}
<1>1. q \in Seq(Names) /\ Len(q) \in Nat /\ Len(q) > 0
    BY PathIs
<1>2. 0..Len(q) - 1 \subseteq P
    <2>1. 0 \in P
        <3>1. SubSeq(q, 1, Len(q) - 0) = q
            BY <1>1
        <3>2. 0 \in 0..Len(q) - 1
            BY <1>1
        <3> QED BY <3>1, <3>2, Zenon
    <2>2. ASSUME NEW d \in 1..Len(q) - 1, d - 1 \in P PROVE d \in P
        <3> DEFINE l == Len(q) - (d - 1)
                   r == SubSeq(q, 1, l)
        <3>0. l \in 2..Len(q) /\ l - 1 = Len(q) - d
            BY <1>1
        <3>1. r \in t
            BY <2>2
        <3>2. Len(r) = l /\ \A y \in 1..l : r[y] = q[y]
            BY <1>1, <3>0
        <3>3. r \in Seq(Names)
            <4> HIDE DEF r
            <4> QED BY <3>1, PathIs
        <3>4. Front(r) \in t
            <4>1. \A u \in t : Len(u) = 1 \/ Front(u) \in t
                BY GlobAssumption
            <4> HIDE DEF r, l
            <4>2. Len(r) # 1
                BY <3>0, <3>2
            <4> QED BY <3>1, <4>1, <4>2, Zenon
        <3>5. Front(r) = SubSeq(q, 1, l - 1)
            <4>1. Front(r) = SubSeq(r, 1, l - 1)
                <5> HIDE DEF r, l
                <5> QED BY <3>2 DEF Front
            <4> HIDE DEF r, l
            <4> QED BY <1>1, <3>0, <3>2, <3>3, <4>1
        <3>6. SubSeq(q, 1, Len(q) - d) \in t
            <4> HIDE DEF r, l
            <4> QED BY <3>0, <3>4, <3>5
        <3>7. d \in 0..Len(q) - 1
            BY <1>1
        <3> QED BY <3>6, <3>7, Zenon
    <2>3. Len(q) - 1 \in Nat
        BY <1>1
    <2> HIDE DEF P
    <2> QED BY <2>1, <2>2, <2>3, Counting
<1>3. Len(q) - m \in 0..Len(q) - 1 /\ Len(q) - (Len(q) - m) = m
    BY <1>1
<1>4. Len(q) - m \in P
    <2> HIDE DEF P
    <2> QED BY <1>2, <1>3
<1> QED
    BY <1>3, <1>4

\* node is q or a directory that q is in.
Leads(node, q) == Len(node) <= Len(q) /\ \A y \in 1..Len(node) : node[y] = q[y]

LEMMA LeadsIs ==
    ASSUME NEW q \in Seq(Names), NEW r \in Seq(Names)
    PROVE  /\ Leads(q, r) /\ Len(q) = Len(r) => q = r
           /\ Leads(q, q)
           /\ \A m \in 1..Len(q) : Leads(SubSeq(q, 1, m), q)
           /\ Len(r) > 0 =>
                 (Leads(r, q) <=> Leads(Front(r), q) /\ Len(r) <= Len(q) /\ Last(r) = q[Len(r)])
<1>1. Leads(q, r) /\ Len(q) = Len(r) => q = r
    BY DEF Leads
<1>2. Leads(q, q) /\ \A m \in 1..Len(q) : Leads(SubSeq(q, 1, m), q)
    BY DEF Leads
<1>3. ASSUME Len(r) > 0
      PROVE  Leads(r, q) <=> Leads(Front(r), q) /\ Len(r) <= Len(q) /\ Last(r) = q[Len(r)]
    <2>1. Len(Front(r)) = Len(r) - 1 /\ \A y \in 1..Len(r) - 1 : Front(r)[y] = r[y]
        BY <1>3, FrontIs
    <2>2. \A y \in 1..Len(r) : y = Len(r) \/ y \in 1..Len(r) - 1
        BY <1>3
    <2> QED BY <1>3, <2>1, <2>2 DEF Leads, Last
<1> QED
    BY <1>1, <1>2, <1>3

LEMMA CallsAre ==
    ASSUME tree \in Trees, NEW x, NEW path \in Seq(Names)
    PROVE  /\ Calls(x, path) \in Seq({x} \X {q \in tree : Front(q) = path})
           /\ \A q \in tree : Front(q) = path =>
                 \E y \in 1..Len(Calls(x, path)) : Calls(x, path)[y] = <<x, q>>
           /\ \A y, z \in 1..Len(Calls(x, path)) :
                 Calls(x, path)[y] = Calls(x, path)[z] => y = z
<1> DEFINE T == {q \in tree : Front(q) = path}
           c == SetToSeq(T)
<1>1. IsFiniteSet(T)
    BY FS_Subset, GlobAssumption
<1>2. /\ c \in Seq(T)
      /\ \A y, z \in 1..Len(c) : c[y] = c[z] => y = z
      /\ \A e \in T : \E y \in 1..Len(c) : c[y] = e
    <2> HIDE DEF T
    <2> QED BY <1>1, SetToSeqIs
<1>3. Calls(x, path) = [y \in 1..Len(c) |-> <<x, c[y]>>]
    <2>1. DOMAIN c = 1..Len(c)
        BY <1>2
    <2> QED BY <2>1 DEF Calls
<1> HIDE DEF c
<1>4. Len(c) \in Nat /\ \A y \in 1..Len(c) : c[y] \in T
    BY <1>2
<1>5. Calls(x, path) \in Seq({x} \X T) /\ Len(Calls(x, path)) = Len(c)
    BY <1>3, <1>4
<1> QED
    BY <1>2, <1>3, <1>4, <1>5

\* A path with a directory above it, not itself, has a child of it above it.
LEMMA NextIs ==
    ASSUME NEW t \in Trees, NEW q \in t, NEW d, d = <<>> \/ d \in t, Leads(d, q), Len(d) < Len(q)
    PROVE  \E r \in t : Front(r) = d /\ Leads(r, q) /\ Len(r) = Len(d) + 1
<1> DEFINE r == SubSeq(q, 1, Len(d) + 1)
<1>1. q \in Seq(Names) /\ d \in Seq(Names) /\ Len(d) \in Nat
    <2>1. <<>> \in Seq(Names) /\ Len(<<>>) = 0
        OBVIOUS
    <2> QED BY <2>1, PathIs
<1>2. Len(d) + 1 \in 1..Len(q)
    BY <1>1
<1>3. r \in t
    BY <1>2, PrefixIn
<1>4. Len(r) = Len(d) + 1 /\ Leads(r, q)
    BY <1>1, <1>2 DEF Leads
<1>5. Front(r) = d
    <2>1. Front(r) = SubSeq(q, 1, Len(d))
        BY <1>1, <1>2 DEF Front
    <2> QED BY <1>1, <2>1 DEF Leads
<1> QED
    BY <1>3, <1>4, <1>5

-----------------------------------------------------------------------------
(* What is found. *)

\* The call finds q, if it is below its node and the rest of the pattern takes
\* what q has from the name of the node on.
Covers(s, call, q) == Leads(call[2], q) /\ From(s, q, call[1], Len(call[2]) - 1)

Simple(q) == \A x \in DOMAIN q : "*" \notin ToSet(q[x])

\* Of the first n patterns ps, the last of which has the segments s, what was
\* found in t and what the calls of st find is denoted; what is denoted was
\* found or is found by a call.
Found(t, ps, n, s, st, res) ==
    /\ \A q \in ToSet(res) : \E j \in 1..n : Denotes(ps[j], q)
    /\ \A q \in t, y \in DOMAIN st : Covers(s, st[y], q) => Denotes(ps[n], q)
    /\ \A q \in t, j \in 1..n : Simple(q) /\ Denotes(ps[j], q) =>
          q \in ToSet(res) \/ (j = n /\ \E y \in DOMAIN st : Covers(s, st[y], q))

\* The paths that a call may add to the result if no ** but the implicit one
\* is in the pattern.
Claims(s, call, q) ==
    /\ Leads(call[2], q)
    /\ IF s[call[1]] = Stars THEN Len(q) - Len(call[2]) >= Len(s) - 2
       ELSE Len(q) - Len(call[2]) = Len(s) - call[1]

\* No path is found twice.
Once(t, s, st, res) ==
    /\ \A x, y \in DOMAIN res : res[x] = res[y] => x = y
    /\ \A q \in t, x, y \in DOMAIN st : Claims(s, st[x], q) /\ Claims(s, st[y], q) => x = y
    /\ \A q \in t, x \in DOMAIN st : Claims(s, st[x], q) => q \notin ToSet(res)

\* The calls of new in place of the first.
LEMMA NewCalls ==
    ASSUME NEW X, NEW st \in Seq(X), st # <<>>, NEW new \in Seq(X)
    PROVE  /\ new \o Tail(st) \in Seq(X)
           /\ Len(new \o Tail(st)) = Len(new) + Len(st) - 1
           /\ \A y \in 1..Len(new) : (new \o Tail(st))[y] = new[y]
           /\ \A y \in 2..Len(st) : (new \o Tail(st))[Len(new) + y - 1] = st[y]
           /\ \A y \in DOMAIN (new \o Tail(st)) :
                 \/ y \in 1..Len(new) /\ (new \o Tail(st))[y] = new[y]
                 \/ /\ y - Len(new) + 1 \in 2..Len(st)
                    /\ (new \o Tail(st))[y] = st[y - Len(new) + 1]
<1> DEFINE r == Tail(st)
           w == new \o r
<1>1. Len(st) \in Nat \ {0} /\ Len(new) \in Nat
    OBVIOUS
<1>2. r \in Seq(X) /\ Len(r) = Len(st) - 1 /\ \A y \in 1..Len(st) - 1 : r[y] = st[y + 1]
    OBVIOUS
<1> HIDE DEF r
<1>2a. Len(r) \in Nat
    BY <1>2
<1>3. /\ w \in Seq(X) /\ Len(w) = Len(new) + Len(r) /\ DOMAIN w = 1..Len(new) + Len(r)
      /\ \A y \in 1..Len(new) + Len(r) : w[y] = IF y <= Len(new) THEN new[y] ELSE r[y - Len(new)]
    <2>0. r \in Seq(X)
        BY <1>2
    <2>1. w \in Seq(X) /\ Len(w) = Len(new) + Len(r)
        <3>1. w \in Seq(X)
            BY <2>0
        <3>2. Len(w) = Len(new) + Len(r)
            BY <2>0
        <3> QED BY <3>1, <3>2
    <2>2. DOMAIN w = 1..Len(new) + Len(r)
        BY <2>1
    <2>3. \A y \in 1..Len(new) + Len(r) : w[y] = IF y <= Len(new) THEN new[y] ELSE r[y - Len(new)]
        BY <1>1, <1>2, <1>2a
    <2> QED BY <2>1, <2>2, <2>3
<1> HIDE DEF w
<1>4. Len(w) = Len(new) + Len(st) - 1 /\ \A y \in 1..Len(new) : w[y] = new[y]
    BY <1>1, <1>2, <1>3
<1>5. ASSUME NEW y \in 2..Len(st) PROVE w[Len(new) + y - 1] = st[y]
    <2>1. Len(new) + y - 1 \in 1..Len(new) + Len(r) /\ Len(new) + y - 1 > Len(new)
        BY <1>1, <1>2
    <2>2. w[Len(new) + y - 1] = r[y - 1] /\ y - 1 \in 1..Len(st) - 1
        BY <1>1, <1>3, <2>1
    <2> QED BY <1>1, <1>2, <2>2
<1>6. ASSUME NEW y \in DOMAIN w
      PROVE  \/ y \in 1..Len(new) /\ w[y] = new[y]
             \/ y - Len(new) + 1 \in 2..Len(st) /\ w[y] = st[y - Len(new) + 1]
    <2>1. y \in 1..Len(new) + Len(r)
        BY <1>3
    <2>2. CASE y <= Len(new)
        BY <1>1, <1>3, <2>1, <2>2
    <2>3. CASE y > Len(new)
        <3>1. w[y] = r[y - Len(new)]
            BY <1>3, <2>1, <2>3, <1>1, <1>2a
        <3>2. y - Len(new) \in 1..Len(st) - 1
            BY <1>1, <1>2, <2>1, <2>3
        <3>3. w[y] = st[y - Len(new) + 1]
            BY <1>2, <3>1, <3>2
        <3> QED BY <1>1, <3>2, <3>3, <2>1
    <2> QED BY <1>1, <2>1, <2>2, <2>3
<1> QED
    BY <1>3, <1>4, <1>5, <1>6 DEF w, r

LEMMA AppendIs ==
    ASSUME NEW t, NEW res \in Seq(t), NEW e \in t
    PROVE  /\ ToSet(Append(res, e)) = ToSet(res) \cup {e}
           /\ Append(res, e) \in Seq(t)
<1> DEFINE r == Append(res, e)
<1>1. /\ r \in Seq(t) /\ DOMAIN res = 1..Len(res) /\ DOMAIN r = 1..Len(res) + 1
      /\ Len(res) \in Nat
    OBVIOUS
<1>2. r[Len(res) + 1] = e /\ \A x \in 1..Len(res) : r[x] = res[x]
    OBVIOUS
<1> HIDE DEF r
<1>3. \A x \in 1..Len(res) + 1 : x = Len(res) + 1 \/ x \in 1..Len(res)
    BY <1>1
<1>4. ToSet(r) = ToSet(res) \cup {e}
    BY <1>1, <1>2, <1>3 DEF ToSet
<1> QED
    BY <1>1, <1>4 DEF r

LEMMA FoundStep ==
    ASSUME NEW t, NEW ps, NEW n, NEW s, NEW X, NEW st \in Seq(X), st # <<>>, NEW new \in Seq(X),
           NEW res \in Seq(t), NEW res2, Found(t, ps, n, s, st, res), n \in Nat, n > 0,
           st[1][2] \in t,
           \A q \in t, y \in DOMAIN new : Covers(s, new[y], q) => Covers(s, st[1], q),
           \A q \in t : Simple(q) /\ Covers(s, st[1], q) =>
               q \in ToSet(res2) \/ \E y \in DOMAIN new : Covers(s, new[y], q),
           \/ res2 = res
           \/ res2 = Append(res, st[1][2]) /\ Covers(s, st[1], st[1][2])
    PROVE  Found(t, ps, n, s, new \o Tail(st), res2)
<1> DEFINE w == new \o Tail(st)
<1>0. Len(st) \in Nat \ {0} /\ Len(new) \in Nat /\ DOMAIN st = 1..Len(st) /\ DOMAIN new = 1..Len(new)
    OBVIOUS
<1>1. /\ w \in Seq(X)
      /\ Len(w) = Len(new) + Len(st) - 1
      /\ \A y \in 1..Len(new) : w[y] = new[y]
      /\ \A y \in 2..Len(st) : w[Len(new) + y - 1] = st[y]
      /\ \A y \in DOMAIN w :
            \/ y \in 1..Len(new) /\ w[y] = new[y]
            \/ y - Len(new) + 1 \in 2..Len(st) /\ w[y] = st[y - Len(new) + 1]
    BY NewCalls
<1> HIDE DEF w
<1>2. DOMAIN w = 1..Len(new) + Len(st) - 1
    BY <1>1
<1>3. ToSet(res) \subseteq ToSet(res2) /\ \A q \in ToSet(res2) :
          q \in ToSet(res) \/ (q = st[1][2] /\ Covers(s, st[1], q))
    <2>1. CASE res2 = res
        BY <2>1
    <2>2. CASE res2 = Append(res, st[1][2]) /\ Covers(s, st[1], st[1][2])
        <3>1. ToSet(res2) = ToSet(res) \cup {st[1][2]}
            BY <2>2, AppendIs
        <3> QED BY <2>2, <3>1
    <2> QED BY <2>1, <2>2
<1>4. ASSUME NEW q \in t, NEW y \in DOMAIN w, Covers(s, w[y], q)
      PROVE  \E z \in DOMAIN st : Covers(s, st[z], q)
    <2>1. CASE y \in 1..Len(new) /\ w[y] = new[y]
        BY <1>0, <1>4, <2>1
    <2>2. CASE y - Len(new) + 1 \in 2..Len(st) /\ w[y] = st[y - Len(new) + 1]
        <3>1. y - Len(new) + 1 \in DOMAIN st
            BY <1>0, <2>2
        <3> QED BY <1>4, <2>2, <3>1
    <2> QED BY <1>1, <2>1, <2>2
<1>5. ASSUME NEW q \in t, NEW z \in DOMAIN st, Covers(s, st[z], q), Simple(q)
      PROVE  q \in ToSet(res2) \/ \E y \in DOMAIN w : Covers(s, w[y], q)
    <2>1. CASE z = 1
        <3>1. q \in ToSet(res2) \/ \E y \in DOMAIN new : Covers(s, new[y], q)
            BY <1>5, <2>1
        <3>2. \A y \in DOMAIN new : y \in DOMAIN w /\ w[y] = new[y]
            BY <1>0, <1>1, <1>2
        <3> QED BY <3>1, <3>2
    <2>2. CASE z # 1
        <3>1. z \in 2..Len(st) /\ Len(new) + z - 1 \in DOMAIN w
            BY <1>0, <1>2, <2>2
        <3> QED BY <1>1, <1>5, <3>1
    <2> QED BY <2>1, <2>2
<1>6. \A q \in ToSet(res2) : \E j \in 1..n : Denotes(ps[j], q)
    <2>1. Covers(s, st[1], st[1][2]) => Denotes(ps[n], st[1][2])
        BY <1>0 DEF Found
    <2>2. n \in 1..n
        OBVIOUS
    <2> QED BY <1>3, <2>1, <2>2 DEF Found
<1>7. \A q \in t, y \in DOMAIN w : Covers(s, w[y], q) => Denotes(ps[n], q)
    BY <1>4 DEF Found
<1>8. \A q \in t, j \in 1..n : Simple(q) /\ Denotes(ps[j], q) =>
          q \in ToSet(res2) \/ (j = n /\ \E y \in DOMAIN w : Covers(s, w[y], q))
    BY <1>3, <1>5 DEF Found
<1> QED
    BY <1>6, <1>7, <1>8 DEF Found, w

LEMMA OnceStep ==
    ASSUME NEW t, NEW s, NEW X, NEW st \in Seq(X), st # <<>>, NEW new \in Seq(X),
           NEW res \in Seq(t), NEW res2, Once(t, s, st, res), st[1][2] \in t,
           \A q \in t, y \in DOMAIN new : Claims(s, new[y], q) => Claims(s, st[1], q),
           \A q \in t, y, z \in DOMAIN new : Claims(s, new[y], q) /\ Claims(s, new[z], q) => y = z,
           \/ res2 = res
           \/ /\ res2 = Append(res, st[1][2]) /\ Claims(s, st[1], st[1][2])
              /\ new = <<>>
    PROVE  Once(t, s, new \o Tail(st), res2)
<1> DEFINE w == new \o Tail(st)
<1>0. Len(st) \in Nat \ {0} /\ Len(new) \in Nat /\ DOMAIN st = 1..Len(st) /\ DOMAIN new = 1..Len(new)
    OBVIOUS
<1>1. /\ w \in Seq(X)
      /\ Len(w) = Len(new) + Len(st) - 1
      /\ \A y \in DOMAIN w :
            \/ y \in 1..Len(new) /\ w[y] = new[y]
            \/ y - Len(new) + 1 \in 2..Len(st) /\ w[y] = st[y - Len(new) + 1]
    BY NewCalls
<1> HIDE DEF w
<1> DEFINE old(y) == IF y \in 1..Len(new) THEN 1 ELSE y - Len(new) + 1
<1>2. DOMAIN w = 1..Len(new) + Len(st) - 1
    BY <1>1
<1>3. ASSUME NEW q \in t, NEW y \in DOMAIN w, Claims(s, w[y], q)
      PROVE  old(y) \in DOMAIN st /\ Claims(s, st[old(y)], q)
    <2>1. CASE y \in 1..Len(new) /\ w[y] = new[y]
        BY <1>0, <1>3, <2>1
    <2>2. CASE y - Len(new) + 1 \in 2..Len(st) /\ w[y] = st[y - Len(new) + 1]
        <3>1. y - Len(new) + 1 \in DOMAIN st /\ y \notin 1..Len(new)
            BY <1>0, <1>2, <2>2
        <3> QED BY <1>3, <2>2, <3>1
    <2> QED BY <1>1, <2>1, <2>2
<1>4. ASSUME NEW q \in t, NEW x \in DOMAIN w, NEW y \in DOMAIN w,
             Claims(s, w[x], q), Claims(s, w[y], q)
      PROVE  x = y
    <2>1. old(x) = old(y)
        <3> HIDE DEF old
        <3> QED BY <1>3, <1>4 DEF Once
    <2>2. CASE x \in 1..Len(new) /\ y \in 1..Len(new)
        <3>1. w[x] = new[x] /\ w[y] = new[y]
            BY <1>0, <1>1, <2>2
        <3> QED BY <1>0, <1>4, <2>2, <3>1
    <2>3. CASE ~(x \in 1..Len(new) /\ y \in 1..Len(new))
        BY <1>0, <1>2, <2>1, <2>3
    <2> QED BY <2>2, <2>3
<1>5. CASE res2 = res
    <2>1. \A q \in t, x \in DOMAIN w : Claims(s, w[x], q) => q \notin ToSet(res2)
        <3> HIDE DEF old
        <3> QED BY <1>3, <1>5 DEF Once
    <2> QED BY <1>4, <1>5, <2>1 DEF Once, w
<1>6. CASE /\ res2 = Append(res, st[1][2]) /\ Claims(s, st[1], st[1][2])
           /\ new = <<>>
    <2>1. /\ ToSet(res2) = ToSet(res) \cup {st[1][2]}
          /\ DOMAIN res = 1..Len(res) /\ Len(res) \in Nat /\ DOMAIN res2 = 1..Len(res) + 1
          /\ res2[Len(res) + 1] = st[1][2] /\ \A x \in 1..Len(res) : res2[x] = res[x]
        <3>1. ToSet(res2) = ToSet(res) \cup {st[1][2]}
            BY <1>6, AppendIs
        <3> QED BY <1>6, <3>1
    <2>2. st[1][2] \notin ToSet(res)
        BY <1>0, <1>6 DEF Once
    <2>3. ASSUME NEW x \in DOMAIN res2, NEW y \in DOMAIN res2, res2[x] = res2[y] PROVE x = y
        <3>1. \A z \in 1..Len(res) : res[z] # st[1][2]
            BY <2>1, <2>2 DEF ToSet
        <3> QED BY <2>1, <2>3, <3>1 DEF Once
    <2>4. ASSUME NEW q \in t, NEW x \in DOMAIN w, Claims(s, w[x], q) PROVE q \notin ToSet(res2)
        <3>1. old(x) \in DOMAIN st /\ Claims(s, st[old(x)], q)
            <4> HIDE DEF old
            <4> QED BY <1>3, <2>4
        <3>2. old(x) # 1
            BY <1>0, <1>2, <1>6
        <3>3. q # st[1][2]
            <4> HIDE DEF old
            <4> QED BY <1>0, <1>6, <3>1, <3>2 DEF Once
        <3>4. q \notin ToSet(res)
            <4> HIDE DEF old
            <4> QED BY <3>1 DEF Once
        <3> QED BY <2>1, <3>3, <3>4
    <2> QED BY <1>4, <2>3, <2>4 DEF Once, w
<1> QED
    BY <1>5, <1>6

\* The calls for the children of d find what is below d and goes on.
LEMMA CoversCalls ==
    ASSUME tree \in Trees, NEW s, NEW x, NEW d, d = <<>> \/ d \in tree, NEW q \in tree
    PROVE  (\E y \in DOMAIN Calls(x, d) : Covers(s, Calls(x, d)[y], q)) <=>
               Leads(d, q) /\ Len(d) < Len(q) /\ From(s, q, x, Len(d))
<1> DEFINE c == Calls(x, d)
<1>0. d \in Seq(Names) /\ Len(d) \in Nat /\ q \in Seq(Names)
    <2>1. <<>> \in Seq(Names) /\ Len(<<>>) = 0
        OBVIOUS
    <2> QED BY <2>1, PathIs
<1>1. /\ c \in Seq({x} \X {r \in tree : Front(r) = d})
      /\ \A r \in tree : Front(r) = d => \E y \in 1..Len(c) : c[y] = <<x, r>>
    BY <1>0, CallsAre
<1> HIDE DEF c
<1>2. DOMAIN c = 1..Len(c) /\ \A y \in DOMAIN c : c[y] \in {x} \X {r \in tree : Front(r) = d}
    BY <1>1
<1>3. \A r \in tree : Front(r) = d =>
          /\ r \in Seq(Names) /\ Len(r) = Len(d) + 1
          /\ Leads(r, q) => Leads(d, q) /\ Len(d) < Len(q)
    <2> SUFFICES ASSUME NEW r \in tree, Front(r) = d
                 PROVE  /\ r \in Seq(Names) /\ Len(r) = Len(d) + 1
                        /\ Leads(r, q) => Leads(d, q) /\ Len(d) < Len(q)
        OBVIOUS
    <2>1. r \in Seq(Names) /\ Len(r) \in Nat /\ Len(r) > 0
        BY PathIs
    <2>2. Len(d) = Len(r) - 1
        BY <2>1, FrontIs
    <2>3. Leads(r, q) => Leads(d, q) /\ Len(r) <= Len(q)
        BY <1>0, <2>1, LeadsIs
    <2>4. Len(q) \in Nat
        BY <1>0
    <2> QED BY <1>0, <2>1, <2>2, <2>3, <2>4
<1>4. ASSUME NEW y \in DOMAIN c, Covers(s, c[y], q)
      PROVE  Leads(d, q) /\ Len(d) < Len(q) /\ From(s, q, x, Len(d))
    <2>1. c[y][1] = x /\ c[y][2] \in tree /\ Front(c[y][2]) = d
        BY <1>2
    <2>2. Len(c[y][2]) - 1 = Len(d)
        BY <1>0, <1>3, <2>1
    <2> QED BY <1>3, <1>4, <2>1, <2>2 DEF Covers
<1>5. ASSUME Leads(d, q), Len(d) < Len(q), From(s, q, x, Len(d))
      PROVE  \E y \in DOMAIN c : Covers(s, c[y], q)
    <2>1. PICK r \in tree : Front(r) = d /\ Leads(r, q) /\ Len(r) = Len(d) + 1
        BY <1>5, NextIs
    <2>2. PICK y \in 1..Len(c) : c[y] = <<x, r>>
        BY <1>1, <2>1
    <2>3. Len(r) - 1 = Len(d)
        BY <1>0, <2>1
    <2>4. Covers(s, c[y], q)
        BY <1>5, <2>1, <2>2, <2>3 DEF Covers
    <2> QED BY <1>2, <2>4
<1> QED
    BY <1>4, <1>5 DEF c

\* One of them at most is for a directory of q.
LEMMA ClaimsCalls ==
    ASSUME tree \in Trees, NEW s, NEW x, NEW d, d = <<>> \/ d \in tree, NEW q \in tree
    PROVE  /\ \A y, z \in DOMAIN Calls(x, d) :
                 Claims(s, Calls(x, d)[y], q) /\ Claims(s, Calls(x, d)[z], q) => y = z
           /\ \A y \in DOMAIN Calls(x, d) : Claims(s, Calls(x, d)[y], q) =>
                 \E r \in tree : /\ Calls(x, d)[y] = <<x, r>> /\ Len(r) = Len(d) + 1
                                 /\ Leads(r, q) /\ Leads(d, q)
<1> DEFINE c == Calls(x, d)
<1>0. d \in Seq(Names) /\ Len(d) \in Nat /\ q \in Seq(Names)
    <2>1. <<>> \in Seq(Names) /\ Len(<<>>) = 0
        OBVIOUS
    <2> QED BY <2>1, PathIs
<1>1. /\ c \in Seq({x} \X {r \in tree : Front(r) = d})
      /\ \A y, z \in 1..Len(c) : c[y] = c[z] => y = z
    BY <1>0, CallsAre
<1> HIDE DEF c
<1>2. DOMAIN c = 1..Len(c) /\ \A y \in DOMAIN c : c[y] \in {x} \X {r \in tree : Front(r) = d}
    BY <1>1
<1>3. ASSUME NEW y \in DOMAIN c, Claims(s, c[y], q)
      PROVE  \E r \in tree : /\ c[y] = <<x, r>> /\ Len(r) = Len(d) + 1
                             /\ Leads(r, q) /\ Leads(d, q)
    <2>1. PICK r \in tree : c[y] = <<x, r>> /\ Front(r) = d
        BY <1>2
    <2>2. r \in Seq(Names) /\ Len(r) \in Nat /\ Len(r) > 0
        BY PathIs
    <2>3. Len(d) = Len(r) - 1
        BY <2>1, <2>2, FrontIs
    <2>4. Leads(r, q)
        BY <1>3, <2>1 DEF Claims
    <2>5. Leads(d, q)
        BY <1>0, <2>1, <2>2, <2>4, LeadsIs
    <2> QED BY <1>0, <2>1, <2>2, <2>3, <2>4, <2>5
<1>4. ASSUME NEW y \in DOMAIN c, NEW z \in DOMAIN c, Claims(s, c[y], q), Claims(s, c[z], q)
      PROVE  y = z
    <2>1. PICK r \in tree : c[y] = <<x, r>> /\ Len(r) = Len(d) + 1 /\ Leads(r, q)
        BY <1>3, <1>4
    <2>2. PICK u \in tree : c[z] = <<x, u>> /\ Len(u) = Len(d) + 1 /\ Leads(u, q)
        BY <1>3, <1>4
    <2>3. r = u
        <3>1. r \in Seq(Names) /\ u \in Seq(Names)
            BY PathIs
        <3>2. Leads(r, u)
            BY <1>0, <2>1, <2>2 DEF Leads
        <3> QED BY <2>1, <2>2, <3>1, <3>2, LeadsIs
    <2> QED BY <1>1, <1>2, <2>1, <2>2, <2>3
<1> QED
    BY <1>3, <1>4 DEF c

LEMMA NoStarsIs ==
    ASSUME NEW p, IsPattern(p), Stars \notin ToSet(Split(p)),
           NEW x \in 1..Len(Effective(p)), Effective(p)[x] = Stars
    PROVE  x = 1 /\ Len(Effective(p)) > 1
<1> DEFINE s == Split(p)
<1>1. s \in Seq(Seq(Chars)) /\ Len(s) > 0 /\ DOMAIN s = 1..Len(s) /\ Len(s) \in Nat
    BY SplitType
<1>2. \A y \in 1..Len(s) : s[y] # Stars
    BY <1>1 DEF ToSet
<1> HIDE DEF s
<1>3. ~Anchored(p)
    BY <1>2 DEF Effective, s
<1>4. Effective(p) = <<Stars>> \o s
    BY <1>3 DEF Effective, s
<1> DEFINE e == <<Stars>> \o s
<1>5. Len(e) = 1 + Len(s) /\ \A y \in 1..Len(s) : e[y + 1] = s[y]
    <2> DEFINE X == Seq(Chars) \cup {Stars}
    <2>1. s \in Seq(X) /\ <<Stars>> \in Seq(X) /\ Len(<<Stars>>) = 1
        BY <1>1
    <2> HIDE DEF X
    <2> QED BY <1>1, <2>1
<1> HIDE DEF e
<1>6. x = 1 \/ x - 1 \in 1..Len(s)
    BY <1>1, <1>4, <1>5 DEF e
<1>7. x = 1
    <2> SUFFICES ASSUME x - 1 \in 1..Len(s) PROVE FALSE
        BY <1>6
    <2>1. e[x - 1 + 1] = s[x - 1] /\ x - 1 + 1 = x
        BY <1>1, <1>5
    <2> QED BY <1>2, <1>4, <2>1 DEF e
<1> QED
    BY <1>1, <1>4, <1>5, <1>7 DEF e

-----------------------------------------------------------------------------
(* The invariant. *)

Patterns == {p \in Seq(Chars) : IsPattern(p)}

ListInv ==
    /\ tree \in Trees
    /\ given \in Seq(Seq(Chars))
    /\ patterns \in Seq(Patterns)
    /\ k \in Nat
    /\ pc \in {"add", "glob", "name", "returned", "failed"}
    /\ result \in Seq(tree)
    /\ pc \in {"add", "failed"} => result = <<>>
    /\ pc = "add" => stack = <<>>

\* The pattern has no ** of its own.
NoStars == Len(patterns) = 1 /\ Stars \notin ToSet(Split(patterns[1]))

WalkInv ==
    pc \in {"glob", "name"} =>
        /\ k <= Len(patterns)
        /\ stack \in Seq((1..Len(segs)) \X tree)
        /\ k = 0 => stack = <<>>
        /\ k > 0 => segs = Effective(patterns[k])
        /\ Found(tree, patterns, k, segs, stack, result)
        /\ NoStars => Once(tree, segs, stack, result)

NameInv ==
    /\ pc = "name" =>
          /\ stack # <<>> /\ segs[Segment] # Stars
          /\ loop \in {"run", "done"}
          /\ pat = segs[Segment] /\ name = Last(Node)
    /\ pc # "name" => loop # "run"

RegexInv ==
    pc \in {"glob", "name", "returned"} =>
        regex = [x \in DOMAIN patterns |-> Compile(patterns[x])]

ReturnInv ==
    pc = "returned" =>
        /\ \A q \in tree :
              /\ q \in ToSet(result) => Denoted(q)
              /\ Denoted(q) /\ Simple(q) => q \in ToSet(result)
        /\ \A x, y \in DOMAIN result : result[x] = result[y] => x = y

GlobInv == ListInv /\ WalkInv /\ NameInv /\ RegexInv /\ ReturnInv /\ SegmentInv

LEMMA GlobInitInv == Init => GlobInv
<1> SUFFICES ASSUME Init PROVE GlobInv
    OBVIOUS
<1>1. SegmentInv
    BY SegmentInitInv DEF Init
<1>2. ListInv
    <2>1. given \in Seq(Seq(Chars)) /\ tree \in Trees
        BY GlobAssumption DEF Init
    <2>2. <<>> \in Seq(Patterns) /\ <<>> \in Seq(tree)
        OBVIOUS
    <2> QED BY <2>1, <2>2 DEF Init, ListInv
<1>3. pc = "add" /\ loop = "idle"
    BY DEF Init, SegmentInit
<1> QED
    BY <1>1, <1>2, <1>3 DEF GlobInv, WalkInv, NameInv, RegexInv, ReturnInv

LEMMA AddInv == ASSUME GlobInv, Add PROVE GlobInv'
<1> USE DEF GlobInv
<1>0. UNCHANGED <<given, tree, regex, segs, stack, result, segmentVars>> /\ pc = "add" /\ k < Len(given)
    BY DEF Add
<1>1. SegmentInv'
    BY <1>0, SegmentStepInv DEF segmentVars
<1> DEFINE p == Stripped(given[k + 1])
<1>2. p = <<>> \/ p \in Patterns
    <2>1. given[k + 1] \in Seq(Chars)
        BY <1>0 DEF ListInv
    <2>2. p = <<>> \/ IsPattern(p)
        BY <2>1, StrippedIs
    <2> QED BY <2>2 DEF Patterns, IsPattern
<1>3. pc' \in {"add", "failed"} /\ patterns' \in Seq(Patterns) /\ k' = k + 1
    <2> HIDE DEF p
    <2>1. CASE p # <<>> /\ p[1] = "!"
        BY <2>1, <1>0 DEF Add, ListInv, p
    <2>2. CASE ~(p # <<>> /\ p[1] = "!")
        <3>1. pc' = pc /\ k' = k + 1 /\ patterns' = IF p = <<>> THEN patterns ELSE Append(patterns, p)
            BY <2>2 DEF Add, p
        <3>2. patterns \in Seq(Patterns)
            BY DEF ListInv
        <3>3. p # <<>> => Append(patterns, p) \in Seq(Patterns)
            BY <1>2, <3>2
        <3> QED BY <1>0, <3>1, <3>2, <3>3
    <2> QED BY <2>1, <2>2
<1>4. ListInv'
    BY <1>0, <1>3 DEF ListInv
<1>5. loop' = loop /\ loop # "run"
    BY <1>0 DEF segmentVars, NameInv
<1> QED
    BY <1>1, <1>3, <1>4, <1>5 DEF WalkInv, NameInv, RegexInv, ReturnInv

LEMMA ThrowsInv == ASSUME GlobInv, FinalizeThrows PROVE GlobInv'
<1> USE DEF GlobInv
<1>0. /\ UNCHANGED <<given, tree, patterns, regex, k, segs, stack, result, segmentVars>>
      /\ pc = "add" /\ pc' = "failed"
    BY DEF FinalizeThrows
<1>1. SegmentInv'
    BY <1>0, SegmentStepInv DEF segmentVars
<1>2. ListInv'
    BY <1>0 DEF ListInv
<1>3. WalkInv' /\ NameInv' /\ RegexInv' /\ ReturnInv'
    BY <1>0 DEF WalkInv, NameInv, RegexInv, ReturnInv, segmentVars
<1> QED
    BY <1>1, <1>2, <1>3

LEMMA FinalizeInv == ASSUME GlobInv, Finalize PROVE GlobInv'
<1> USE DEF GlobInv
<1>0. /\ UNCHANGED <<given, tree, patterns, segs, stack, result, segmentVars>>
      /\ pc = "add" /\ pc' = "glob" /\ k' = 0
      /\ regex' = [x \in DOMAIN patterns |-> Compile(patterns[x])]
    BY DEF Finalize
<1>1. SegmentInv'
    BY <1>0, SegmentStepInv DEF segmentVars
<1>2. ListInv'
    BY <1>0 DEF ListInv
<1>3. RegexInv'
    BY <1>0 DEF RegexInv
<1>4. NameInv' /\ ReturnInv'
    BY <1>0 DEF NameInv, ReturnInv, segmentVars
<1>5. stack = <<>> /\ result = <<>> /\ patterns \in Seq(Patterns)
    BY <1>0 DEF ListInv
<1>6. Found(tree, patterns, 0, segs, <<>>, <<>>) /\ Once(tree, segs, <<>>, <<>>)
    <2>1. ToSet(<<>>) = {} /\ DOMAIN <<>> = {} /\ 1..0 = {}
        BY DEF ToSet
    <2> QED BY <2>1 DEF Found, Once
<1>7. <<>> \in Seq((1..Len(segs)) \X tree) /\ 0 <= Len(patterns)
    BY <1>5
<1>8. WalkInv'
    BY <1>0, <1>5, <1>6, <1>7 DEF WalkInv, NoStars
<1> QED
    BY <1>1, <1>2, <1>3, <1>4, <1>8

LEMMA NextPatternInv == ASSUME GlobInv, NextPattern PROVE GlobInv'
<1> USE DEF GlobInv
<1> DEFINE p == patterns[k + 1]
           s == Effective(p)
           c == Calls(1, <<>>)
<1>0. /\ UNCHANGED <<given, tree, patterns, regex, result, pc, segmentVars>>
      /\ pc = "glob" /\ stack = <<>> /\ k < Len(patterns)
      /\ k' = k + 1 /\ segs' = s /\ stack' = c
    BY DEF NextPattern
<1>1. SegmentInv'
    BY <1>0, SegmentStepInv DEF segmentVars
<1>2. ListInv'
    BY <1>0 DEF ListInv
<1>3. RegexInv' /\ NameInv' /\ ReturnInv'
    BY <1>0 DEF RegexInv, NameInv, ReturnInv, segmentVars
<1>4. /\ tree \in Trees /\ k \in Nat /\ result \in Seq(tree) /\ patterns \in Seq(Patterns)
      /\ k + 1 \in 1..Len(patterns) /\ p \in Patterns
    BY <1>0 DEF ListInv
<1>5. IsPattern(p)
    BY <1>4 DEF Patterns
<1>6. Len(s) \in Nat /\ Len(s) > 0
    BY <1>5, EffectiveType
<1> HIDE DEF s, c
<1>7. c \in Seq((1..Len(s)) \X tree) /\ DOMAIN c = 1..Len(c)
    <2>1. <<>> \in Seq(Names)
        OBVIOUS
    <2>2. c \in Seq({1} \X {q \in tree : Front(q) = <<>>})
        <3>1. \A d \in Seq(Names) : Calls(1, d) \in Seq({1} \X {q \in tree : Front(q) = d})
            BY <1>4, CallsAre
        <3>2. Calls(1, <<>>) \in Seq({1} \X {q \in tree : Front(q) = <<>>})
            BY <2>1, <3>1
        <3> QED BY <3>2 DEF c
    <2>3. {1} \X {q \in tree : Front(q) = <<>>} \subseteq (1..Len(s)) \X tree
        BY <1>6
    <2> QED BY <2>2, <2>3
<1>8. ASSUME NEW q \in tree
      PROVE  (\E y \in DOMAIN c : Covers(s, c[y], q)) <=> Denotes(p, q)
    <2>1. Len(<<>>) = 0 /\ Len(q) > 0 /\ Leads(<<>>, q)
        BY <1>4, PathIs DEF Leads
    <2>2. (\E y \in DOMAIN c : Covers(s, c[y], q)) <=> From(s, q, 1, 0)
        BY <1>4, <2>1, CoversCalls DEF c
    <2> QED BY <2>2, DenotesFrom DEF s
<1>9. Found(tree, patterns, k, segs, <<>>, result)
    BY <1>0 DEF WalkInv
<1>10. Found(tree, patterns, k + 1, s, c, result)
    <2>1. \A j \in 1..k + 1 : j = k + 1 \/ j \in 1..k
        BY <1>4
    <2>2. \A j \in 1..k : j \in 1..k + 1
        BY <1>4
    <2>3. \A q \in ToSet(result) : \E j \in 1..k + 1 : Denotes(patterns[j], q)
        BY <1>9, <2>2 DEF Found
    <2>4. \A q \in tree, y \in DOMAIN c : Covers(s, c[y], q) => Denotes(patterns[k + 1], q)
        BY <1>8
    <2>5. ASSUME NEW q \in tree, NEW j \in 1..k + 1, Simple(q), Denotes(patterns[j], q)
          PROVE  q \in ToSet(result) \/ (j = k + 1 /\ \E y \in DOMAIN c : Covers(s, c[y], q))
        <3>1. CASE j = k + 1
            BY <1>8, <2>5, <3>1
        <3>2. CASE j \in 1..k
            BY <1>9, <2>5, <3>2 DEF Found
        <3> QED BY <2>1, <3>1, <3>2
    <2> QED BY <2>3, <2>4, <2>5 DEF Found
<1>11. ASSUME NoStars PROVE Once(tree, s, c, result)
    <2>1. k = 0
        BY <1>0, <1>4, <1>11 DEF NoStars
    <2>2. ToSet(result) = {} /\ DOMAIN result = {}
        <3>1. 1..0 = {}
            OBVIOUS
        <3>2. ToSet(result) = {}
            BY <1>9, <2>1, <3>1 DEF Found
        <3> QED BY <3>2 DEF ToSet
    <2>3. \A q \in tree, x, y \in DOMAIN c : Claims(s, c[x], q) /\ Claims(s, c[y], q) => x = y
        BY <1>4, ClaimsCalls DEF c
    <2> QED BY <2>2, <2>3 DEF Once
<1>12. WalkInv'
    BY <1>0, <1>4, <1>7, <1>10, <1>11 DEF WalkInv, NoStars, s
<1> QED
    BY <1>1, <1>2, <1>3, <1>12

\* The call that is next.
LEMMA HeadIs ==
    ASSUME GlobInv, pc \in {"glob", "name"}, stack # <<>>
    PROVE  /\ tree \in Trees /\ result \in Seq(tree)
           /\ stack \in Seq((1..Len(segs)) \X tree)
           /\ stack[1] = <<Segment, Node>> /\ Segment \in 1..Len(segs) /\ Node \in tree
           /\ Len(segs) \in Nat /\ Len(segs) > 0
           /\ k \in 1..Len(patterns) /\ segs = Effective(patterns[k]) /\ IsPattern(patterns[k])
           /\ Found(tree, patterns, k, segs, stack, result)
           /\ NoStars => Once(tree, segs, stack, result)
           /\ \A x \in 1..Len(segs) : NoStars /\ segs[x] = Stars => x = 1 /\ Len(segs) > 1
           /\ \A x \in 1..Len(segs) : segs[x] # Stars => segs[x] \in Seq(Chars)
<1>1. /\ tree \in Trees /\ result \in Seq(tree) /\ k \in Nat /\ patterns \in Seq(Patterns)
      /\ stack \in Seq((1..Len(segs)) \X tree) /\ k <= Len(patterns) /\ k # 0
      /\ Found(tree, patterns, k, segs, stack, result)
      /\ NoStars => Once(tree, segs, stack, result)
      /\ k > 0 => segs = Effective(patterns[k])
    BY DEF GlobInv, ListInv, WalkInv
<1>2. k \in 1..Len(patterns) /\ segs = Effective(patterns[k])
    BY <1>1
<1>3. IsPattern(patterns[k])
    BY <1>1, <1>2 DEF Patterns
<1>4. segs \in Seq(Seq(Chars) \cup {Stars}) /\ Len(segs) \in Nat /\ Len(segs) > 0
    BY <1>2, <1>3, EffectiveType
<1>5. stack[1] \in (1..Len(segs)) \X tree
    BY <1>1
<1>6. ASSUME NEW x \in 1..Len(segs), NoStars, segs[x] = Stars PROVE x = 1 /\ Len(segs) > 1
    <2>1. k = 1
        BY <1>2, <1>6 DEF NoStars
    <2>2. Stars \notin ToSet(Split(patterns[k]))
        BY <2>1, <1>6 DEF NoStars
    <2> QED BY <1>2, <1>3, <1>6, <2>2, NoStarsIs
<1>7. \A x \in 1..Len(segs) : segs[x] # Stars => segs[x] \in Seq(Chars)
    BY <1>4
<1> QED
    BY <1>1, <1>2, <1>3, <1>4, <1>5, <1>6, <1>7 DEF Segment, Node

\* What the call covers, by the position in q.
LEMMA HeadCovers ==
    ASSUME GlobInv, pc \in {"glob", "name"}, stack # <<>>, NEW q \in tree
    PROVE  /\ Len(q) \in Nat /\ Len(Node) \in Nat /\ Len(Node) > 0
           /\ Covers(segs, stack[1], q) <=> Leads(Node, q) /\ From(segs, q, Segment, Len(Node) - 1)
           /\ Leads(Node, q) =>
                 /\ Len(Node) - 1 \in 0..Len(q) - 1 /\ Len(Node) - 1 \in 0..Len(q)
                 /\ Len(Node) < Len(q) \/ q = Node
                 /\ q[Len(Node)] = Last(Node)
           /\ Leads(q, q)
           /\ Claims(segs, stack[1], q) <=>
                 /\ Leads(Node, q)
                 /\ IF segs[Segment] = Stars THEN Len(q) - Len(Node) >= Len(segs) - 2
                    ELSE Len(q) - Len(Node) = Len(segs) - Segment
<1>1. tree \in Trees /\ Node \in tree /\ stack[1] = <<Segment, Node>>
    BY HeadIs
<1>2. /\ Node \in Seq(Names) /\ q \in Seq(Names) /\ Len(q) \in Nat /\ Len(Node) \in Nat
      /\ Len(Node) > 0 /\ Last(Node) = Node[Len(Node)]
    BY <1>1, PathIs
<1>3. Leads(Node, q) =>
          /\ Len(Node) - 1 \in 0..Len(q) - 1 /\ Len(Node) - 1 \in 0..Len(q)
          /\ Len(Node) < Len(q) \/ Len(Node) = Len(q)
          /\ q[Len(Node)] = Last(Node)
    BY <1>2 DEF Leads
<1>4. Leads(Node, q) /\ Len(Node) = Len(q) => q = Node
    BY <1>2, LeadsIs
<1>5. Leads(q, q)
    BY DEF Leads
<1>6. Covers(segs, stack[1], q) <=> Leads(Node, q) /\ From(segs, q, Segment, Len(Node) - 1)
    BY <1>1 DEF Covers
<1>7. Claims(segs, stack[1], q) <=>
          /\ Leads(Node, q)
          /\ IF segs[Segment] = Stars THEN Len(q) - Len(Node) >= Len(segs) - 2
             ELSE Len(q) - Len(Node) = Len(segs) - Segment
    BY <1>1 DEF Claims
<1> QED
    BY <1>2, <1>3, <1>4, <1>5, <1>6, <1>7

\* The last segment is **: the node and all below it are found.
LEMMA LastStars ==
    ASSUME GlobInv, pc = "glob", stack # <<>>, segs[Segment] = Stars, IsLast
    PROVE  /\ Found(tree, patterns, k, segs, Calls(Segment, Node) \o Tail(stack), Append(result, Node))
           /\ Calls(Segment, Node) \o Tail(stack) \in Seq((1..Len(segs)) \X tree)
           /\ ~NoStars
<1> DEFINE x == Segment
           c == Calls(x, Node)
<1>1. /\ tree \in Trees /\ result \in Seq(tree) /\ stack \in Seq((1..Len(segs)) \X tree)
      /\ stack[1] = <<x, Node>> /\ Node \in tree /\ Len(segs) \in Nat /\ Len(segs) > 0
      /\ k \in 1..Len(patterns) /\ Found(tree, patterns, k, segs, stack, result)
      /\ x = Len(segs) /\ x \in 1..Len(segs)
      /\ NoStars /\ segs[x] = Stars => x = 1 /\ Len(segs) > 1
    BY HeadIs DEF IsLast
<1> HIDE DEF x, c
<1>2. c \in Seq((1..Len(segs)) \X tree)
    <2>1. Node \in Seq(Names)
        BY <1>1, PathIs
    <2>2. c \in Seq({x} \X {q \in tree : Front(q) = Node})
        BY <1>1, <2>1, CallsAre DEF c
    <2>3. {x} \X {q \in tree : Front(q) = Node} \subseteq (1..Len(segs)) \X tree
        BY <1>1
    <2> QED BY <2>2, <2>3
<1>3. ASSUME NEW q \in tree
      PROVE  Covers(segs, stack[1], q) <=> Leads(Node, q)
    <2>1. Leads(Node, q) => (From(segs, q, Len(segs), Len(Node) - 1) <=> Len(Node) - 1 < Len(q))
        BY <1>1, <1>3, HeadCovers, FromLastStars DEF x
    <2>2. Covers(segs, stack[1], q) <=> Leads(Node, q) /\ From(segs, q, x, Len(Node) - 1)
        BY HeadCovers DEF x
    <2>3. Leads(Node, q) => Len(Node) - 1 < Len(q)
        <3>1. Leads(Node, q) => Len(Node) - 1 \in 0..Len(q) - 1 /\ Len(q) \in Nat
            BY HeadCovers
        <3> QED BY <3>1
    <2> QED BY <1>1, <2>1, <2>2, <2>3
<1>4. ASSUME NEW q \in tree
      PROVE  (\E y \in DOMAIN c : Covers(segs, c[y], q)) <=> Leads(Node, q) /\ Len(Node) < Len(q)
    <2>1. (\E y \in DOMAIN c : Covers(segs, c[y], q)) <=>
              Leads(Node, q) /\ Len(Node) < Len(q) /\ From(segs, q, x, Len(Node))
        BY <1>1, CoversCalls DEF c
    <2>2. Leads(Node, q) /\ Len(Node) < Len(q) => From(segs, q, x, Len(Node))
        <3>1. Len(q) \in Nat /\ Len(Node) \in Nat
            BY HeadCovers
        <3> QED BY <1>1, <3>1, FromLastStars DEF x
    <2> QED BY <2>1, <2>2
<1>5. Node \in ToSet(Append(result, Node)) /\ Covers(segs, stack[1], Node)
    <2>1. Leads(Node, Node)
        BY <1>1, HeadCovers
    <2>2. Covers(segs, stack[1], Node)
        BY <1>1, <1>3, <2>1
    <2>3. ToSet(Append(result, Node)) = ToSet(result) \cup {Node}
        BY <1>1, AppendIs
    <2> QED BY <2>2, <2>3
<1>6. \A q \in tree : Covers(segs, stack[1], q) =>
          q \in ToSet(Append(result, Node)) \/ \E y \in DOMAIN c : Covers(segs, c[y], q)
    <2>1. \A q \in tree : Leads(Node, q) => Len(Node) < Len(q) \/ q = Node
        BY HeadCovers
    <2> QED BY <1>3, <1>4, <1>5, <2>1
<1>7. k \in Nat /\ k > 0 /\ stack[1][2] = Node
    BY <1>1 DEF GlobInv, ListInv
<1>8. Found(tree, patterns, k, segs, c \o Tail(stack), Append(result, Node))
    BY <1>1, <1>2, <1>3, <1>4, <1>5, <1>6, <1>7, FoundStep
<1>9. c \o Tail(stack) \in Seq((1..Len(segs)) \X tree)
    BY <1>1, <1>2, NewCalls
<1>10. ~NoStars
    BY <1>1 DEF x
<1> QED
    BY <1>8, <1>9, <1>10 DEF c, x

\* Another ** takes nothing here, or the name of the node and what it takes
\* below.
LEMMA InnerStars ==
    ASSUME GlobInv, pc = "glob", stack # <<>>, segs[Segment] = Stars, ~IsLast
    PROVE  LET st == <<<<Segment + 1, Node>>>> \o Calls(Segment, Node) \o Tail(stack)
           IN  /\ Found(tree, patterns, k, segs, st, result)
               /\ st \in Seq((1..Len(segs)) \X tree)
               /\ NoStars => Once(tree, segs, st, result)
<1> DEFINE x == Segment
           c == Calls(x, Node)
           new == <<<<x + 1, Node>>>> \o c
<1>1. /\ tree \in Trees /\ result \in Seq(tree) /\ stack \in Seq((1..Len(segs)) \X tree)
      /\ stack[1] = <<x, Node>> /\ Node \in tree /\ Len(segs) \in Nat /\ Len(segs) > 0
      /\ k \in 1..Len(patterns) /\ Found(tree, patterns, k, segs, stack, result)
      /\ NoStars => Once(tree, segs, stack, result)
      /\ x \in 1..Len(segs) /\ x < Len(segs) /\ x + 1 \in 1..Len(segs) /\ segs[x] = Stars
      /\ NoStars => x = 1 /\ Len(segs) > 1 /\ segs[x + 1] # Stars
    <2>1. x \in 1..Len(segs) /\ x # Len(segs) /\ Len(segs) \in Nat
        BY HeadIs DEF IsLast
    <2>2. x < Len(segs) /\ x + 1 \in 1..Len(segs) /\ x + 1 # 1
        BY <2>1
    <2> QED BY <2>1, <2>2, HeadIs
<1> HIDE DEF x, c
<1>2. c \in Seq((1..Len(segs)) \X tree) /\ Len(c) \in Nat
    <2>1. Node \in Seq(Names)
        BY <1>1, PathIs
    <2>2. c \in Seq({x} \X {q \in tree : Front(q) = Node})
        BY <1>1, <2>1, CallsAre DEF c
    <2>3. {x} \X {q \in tree : Front(q) = Node} \subseteq (1..Len(segs)) \X tree
        BY <1>1
    <2> QED BY <2>2, <2>3
<1>3. /\ new \in Seq((1..Len(segs)) \X tree) /\ DOMAIN new = 1..Len(c) + 1
      /\ new[1] = <<x + 1, Node>> /\ \A y \in 1..Len(c) : new[y + 1] = c[y]
      /\ DOMAIN c = 1..Len(c)
    <2>1. <<<<x + 1, Node>>>> \in Seq((1..Len(segs)) \X tree) /\ Len(<<<<x + 1, Node>>>>) = 1
        BY <1>1
    <2> QED BY <1>2, <2>1
<1> HIDE DEF new
<1>4. \A y \in DOMAIN new : y = 1 \/ (y - 1 \in DOMAIN c /\ new[y] = c[y - 1])
    BY <1>2, <1>3
<1>5. ASSUME NEW q \in tree
      PROVE  /\ Covers(segs, new[1], q) <=> Leads(Node, q) /\ From(segs, q, x + 1, Len(Node) - 1)
             /\ (\E y \in DOMAIN c : Covers(segs, c[y], q)) <=>
                    Leads(Node, q) /\ Len(Node) < Len(q) /\ From(segs, q, x, Len(Node))
             /\ Covers(segs, stack[1], q) <=>
                    Leads(Node, q) /\ (From(segs, q, x + 1, Len(Node) - 1) \/ From(segs, q, x, Len(Node)))
             /\ Leads(Node, q) /\ From(segs, q, x, Len(Node)) => Len(Node) < Len(q)
    <2>1. Covers(segs, new[1], q) <=> Leads(Node, q) /\ From(segs, q, x + 1, Len(Node) - 1)
        BY <1>3 DEF Covers
    <2>2. (\E y \in DOMAIN c : Covers(segs, c[y], q)) <=>
              Leads(Node, q) /\ Len(Node) < Len(q) /\ From(segs, q, x, Len(Node))
        BY <1>1, CoversCalls DEF c
    <2>3. Len(q) \in Nat /\ Len(Node) \in Nat /\ Len(Node) - 1 + 1 = Len(Node)
        BY HeadCovers
    <2>4. Leads(Node, q) => (From(segs, q, x, Len(Node) - 1) <=>
              From(segs, q, x + 1, Len(Node) - 1) \/ From(segs, q, x, Len(Node) - 1 + 1))
        BY <1>1, <2>3, HeadCovers, FromStars
    <2>5. Leads(Node, q) /\ From(segs, q, x, Len(Node)) => Len(Node) < Len(q)
        <3>1. ~From(segs, q, x, Len(q))
            BY <1>1, <2>3, FromNothing
        <3> QED BY <2>3, <3>1 DEF Leads
    <2>6. Covers(segs, stack[1], q) <=> Leads(Node, q) /\ From(segs, q, x, Len(Node) - 1)
        BY HeadCovers DEF x
    <2> QED BY <2>1, <2>2, <2>3, <2>4, <2>5, <2>6
<1>6. \A q \in tree, y \in DOMAIN new : Covers(segs, new[y], q) => Covers(segs, stack[1], q)
    BY <1>4, <1>5
<1>7. \A q \in tree : Covers(segs, stack[1], q) => \E y \in DOMAIN new : Covers(segs, new[y], q)
    <2>1. 1 \in DOMAIN new /\ \A y \in DOMAIN c : y + 1 \in DOMAIN new
        BY <1>2, <1>3
    <2> QED BY <1>3, <1>5, <2>1
<1>8. k \in Nat /\ k > 0 /\ stack[1][2] = Node
    BY <1>1 DEF GlobInv, ListInv
<1>9. Found(tree, patterns, k, segs, new \o Tail(stack), result)
    BY <1>1, <1>3, <1>6, <1>7, <1>8, FoundStep
<1>10. new \o Tail(stack) \in Seq((1..Len(segs)) \X tree)
    BY <1>1, <1>3, NewCalls
<1>11. ASSUME NoStars PROVE Once(tree, segs, new \o Tail(stack), result)
    <2>1. \A q \in tree : Claims(segs, new[1], q) <=> Leads(Node, q) /\ Len(q) - Len(Node) = Len(segs) - 2
        BY <1>1, <1>3, <1>11 DEF Claims
    <2>2. ASSUME NEW q \in tree, NEW y \in DOMAIN c, Claims(segs, c[y], q)
          PROVE  Leads(Node, q) /\ Len(q) - Len(Node) >= Len(segs) - 1
        <3>1. PICK r \in tree : c[y] = <<x, r>> /\ Len(r) = Len(Node) + 1 /\ Leads(Node, q)
            BY <1>1, <2>2, ClaimsCalls DEF c
        <3>2. Len(q) - Len(r) >= Len(segs) - 2
            BY <1>1, <2>2, <3>1 DEF Claims
        <3>3. Len(q) \in Nat /\ Len(Node) \in Nat
            BY HeadCovers
        <3> QED BY <1>1, <3>1, <3>2, <3>3
    <2>3. \A q \in tree : Claims(segs, stack[1], q) <=> Leads(Node, q) /\ Len(q) - Len(Node) >= Len(segs) - 2
        BY <1>1, <1>11, HeadCovers DEF x
    <2>4. \A q \in tree : Len(q) \in Nat /\ Len(Node) \in Nat
        BY HeadCovers
    <2>5. ASSUME NEW q \in tree, NEW y \in DOMAIN new, Claims(segs, new[y], q)
          PROVE  Claims(segs, stack[1], q)
        <3>0. /\ Len(q) - Len(Node) \in Int /\ Len(segs) - 1 \in Int /\ Len(segs) - 2 \in Int
              /\ Len(segs) - 1 >= Len(segs) - 2
            BY <1>1, <2>4
        <3>1. CASE y = 1
            <4>1. Leads(Node, q) /\ Len(q) - Len(Node) = Len(segs) - 2
                BY <2>1, <2>5, <3>1
            <4>2. Len(q) - Len(Node) >= Len(segs) - 2
                BY <3>0, <4>1
            <4> QED BY <2>3, <4>1, <4>2
        <3>2. CASE y # 1
            <4>1. y - 1 \in DOMAIN c /\ Claims(segs, c[y - 1], q)
                BY <1>4, <2>5, <3>2
            <4>2. Leads(Node, q) /\ Len(q) - Len(Node) >= Len(segs) - 1
                BY <2>2, <4>1
            <4>3. Len(q) - Len(Node) >= Len(segs) - 2
                BY <3>0, <4>2
            <4> QED BY <2>3, <4>2, <4>3
        <3> QED BY <3>1, <3>2
    <2>6. ASSUME NEW q \in tree, NEW y \in DOMAIN new, NEW z \in DOMAIN new,
                 Claims(segs, new[y], q), Claims(segs, new[z], q)
          PROVE  y = z
        <3>1. CASE y = 1 /\ z = 1
            BY <3>1
        <3>2. CASE y # 1 /\ z # 1
            <4>1. y - 1 \in DOMAIN c /\ z - 1 \in DOMAIN c /\ new[y] = c[y - 1] /\ new[z] = c[z - 1]
                BY <1>4, <3>2
            <4>2. y - 1 = z - 1
                BY <1>1, <2>6, <4>1, ClaimsCalls DEF c
            <4> QED BY <1>2, <1>3, <4>2
        <3>3. CASE ~(y = 1 <=> z = 1)
            BY <1>1, <1>4, <2>1, <2>2, <2>4, <2>6, <3>3
        <3> QED BY <3>1, <3>2, <3>3
    <2> QED BY <1>1, <1>3, <1>8, <1>11, <2>5, <2>6, OnceStep
<1> QED
    BY <1>9, <1>10, <1>11 DEF new, c, x

\* The match of a name: what the call covers, when it has answered.
LEMMA AnswerIs ==
    ASSUME GlobInv, pc = "name", loop = "done"
    PROVE  /\ stack # <<>> /\ segs[Segment] # Stars
           /\ \A q \in tree : Covers(segs, stack[1], q) =>
                  Leads(Node, q) /\ From(segs, q, Segment + 1, Len(Node))
           /\ answer => \A q \in tree : Leads(Node, q) /\ From(segs, q, Segment + 1, Len(Node)) =>
                  Covers(segs, stack[1], q)
           /\ ~answer => \A q \in tree : Simple(q) => ~Covers(segs, stack[1], q)
<1>1. /\ stack # <<>> /\ segs[Segment] # Stars /\ pat = segs[Segment] /\ name = Last(Node)
      /\ Sound /\ Complete
    BY DEF GlobInv, NameInv, SegmentInv
<1>2. Segment \in 1..Len(segs) /\ Len(segs) \in Nat
    BY <1>1, HeadIs
<1>3. ASSUME NEW q \in tree
      PROVE  /\ Covers(segs, stack[1], q) <=>
                    Leads(Node, q) /\ Fits(pat, name, 1, 1) /\ From(segs, q, Segment + 1, Len(Node))
             /\ Leads(Node, q) => name = q[Len(Node)]
             /\ Leads(Node, q) => Len(Node) \in 1..Len(q)
    <2>1. Len(q) \in Nat /\ Len(Node) \in Nat /\ Len(Node) - 1 + 1 = Len(Node)
        BY <1>1, HeadCovers
    <2>2. /\ Covers(segs, stack[1], q) <=> Leads(Node, q) /\ From(segs, q, Segment, Len(Node) - 1)
          /\ Leads(Node, q) => Len(Node) - 1 \in 0..Len(q) - 1 /\ q[Len(Node)] = Last(Node)
        BY <1>1, HeadCovers
    <2>3. Leads(Node, q) => (From(segs, q, Segment, Len(Node) - 1) <=>
              Fits(segs[Segment], q[Len(Node) - 1 + 1], 1, 1) /\ From(segs, q, Segment + 1, Len(Node) - 1 + 1))
        BY <1>1, <1>2, <2>1, <2>2, FromName
    <2>4. Leads(Node, q) => Len(Node) \in 1..Len(q)
        BY <2>1, <2>2
    <2> QED BY <1>1, <2>1, <2>2, <2>3, <2>4
<1>4. answer => Fits(pat, name, 1, 1)
    BY <1>1 DEF Sound
<1>5. ASSUME ~answer, NEW q \in tree, Simple(q), Covers(segs, stack[1], q) PROVE FALSE
    <2>1. name = q[Len(Node)] /\ Len(Node) \in 1..Len(q) /\ Fits(pat, name, 1, 1)
        BY <1>3, <1>5
    <2>2. q \in Seq(Names)
        BY <1>1, HeadIs, PathIs
    <2>3. name \in Names /\ "*" \notin ToSet(name)
        BY <1>5, <2>1, <2>2 DEF Simple
    <2>4. \A j \in 1..Len(name) : name[j] # "*"
        BY <2>3 DEF Names, ToSet
    <2> QED BY <1>1, <1>5, <2>1, <2>4 DEF Complete
<1> QED
    BY <1>1, <1>3, <1>4, <1>5

LEMMA TailIs ==
    ASSUME NEW X, NEW st \in Seq(X), st # <<>>
    PROVE  <<>> \o Tail(st) = Tail(st)
<1>1. Tail(st) \in Seq(X)
    OBVIOUS
<1> QED
    BY <1>1

LEMMA EnterLast ==
    ASSUME GlobInv, pc = "name", loop = "done", answer, IsLast
    PROVE  /\ Found(tree, patterns, k, segs, Tail(stack), Append(result, Node))
           /\ Tail(stack) \in Seq((1..Len(segs)) \X tree)
           /\ NoStars => Once(tree, segs, Tail(stack), Append(result, Node))
<1>1. /\ stack # <<>> /\ segs[Segment] # Stars
      /\ \A q \in tree : Covers(segs, stack[1], q) <=>
              Leads(Node, q) /\ From(segs, q, Segment + 1, Len(Node))
    BY AnswerIs
<1>2. /\ tree \in Trees /\ result \in Seq(tree) /\ stack \in Seq((1..Len(segs)) \X tree)
      /\ stack[1][2] = Node /\ Node \in tree /\ Len(segs) \in Nat
      /\ k \in 1..Len(patterns) /\ Found(tree, patterns, k, segs, stack, result)
      /\ NoStars => Once(tree, segs, stack, result)
      /\ Segment = Len(segs)
    BY <1>1, HeadIs DEF IsLast
<1>3. ASSUME NEW q \in tree PROVE Covers(segs, stack[1], q) <=> q = Node
    <2>1. Len(q) \in Nat /\ Len(Node) \in Nat /\ Len(Node) > 0 /\ Leads(q, q)
          /\ (Leads(Node, q) => Len(Node) < Len(q) \/ q = Node) /\ (Leads(Node, q) => Len(Node) <= Len(q))
        BY <1>1, HeadCovers DEF Leads
    <2>2. Leads(Node, q) => (From(segs, q, Len(segs) + 1, Len(Node)) <=> Len(Node) = Len(q))
        BY <1>2, <2>1, FromEnd
    <2> QED BY <1>1, <1>2, <2>1, <2>2
<1>4. Node \in ToSet(Append(result, Node))
    BY <1>2, AppendIs
<1>5. k \in Nat /\ k > 0
    BY <1>2 DEF GlobInv, ListInv
<1>6. <<>> \in Seq((1..Len(segs)) \X tree) /\ DOMAIN <<>> = {}
    OBVIOUS
<1>7. <<>> \o Tail(stack) = Tail(stack)
    BY <1>1, <1>2, TailIs
<1>8. Found(tree, patterns, k, segs, <<>> \o Tail(stack), Append(result, Node))
    BY <1>1, <1>2, <1>3, <1>4, <1>5, <1>6, FoundStep
<1>9. Claims(segs, stack[1], Node)
    <2>1. Leads(Node, Node) /\ Len(Node) \in Nat
        BY <1>1, <1>2, HeadCovers
    <2> QED BY <1>1, <1>2, <2>1, HeadCovers
<1>10. NoStars => Once(tree, segs, <<>> \o Tail(stack), Append(result, Node))
    BY <1>1, <1>2, <1>6, <1>9, OnceStep
<1>11. Tail(stack) \in Seq((1..Len(segs)) \X tree)
    BY <1>1, <1>2
<1> QED
    BY <1>7, <1>8, <1>10, <1>11

LEMMA EnterBelow ==
    ASSUME GlobInv, pc = "name", loop = "done", answer, ~IsLast
    PROVE  LET st == Calls(Segment + 1, Node) \o Tail(stack)
           IN  /\ Found(tree, patterns, k, segs, st, result)
               /\ st \in Seq((1..Len(segs)) \X tree)
               /\ NoStars => Once(tree, segs, st, result)
<1> DEFINE x == Segment
           c == Calls(x + 1, Node)
<1>1. /\ stack # <<>> /\ segs[x] # Stars
      /\ \A q \in tree : Covers(segs, stack[1], q) <=>
              Leads(Node, q) /\ From(segs, q, x + 1, Len(Node))
    BY AnswerIs
<1>2. /\ tree \in Trees /\ result \in Seq(tree) /\ stack \in Seq((1..Len(segs)) \X tree)
      /\ stack[1][2] = Node /\ Node \in tree /\ Len(segs) \in Nat
      /\ k \in 1..Len(patterns) /\ Found(tree, patterns, k, segs, stack, result)
      /\ NoStars => Once(tree, segs, stack, result)
      /\ x \in 1..Len(segs) /\ x < Len(segs) /\ x + 1 \in 1..Len(segs)
      /\ NoStars => segs[x + 1] # Stars
    <2>1. x \in 1..Len(segs) /\ x # Len(segs) /\ Len(segs) \in Nat
        BY <1>1, HeadIs DEF IsLast
    <2>2. x < Len(segs) /\ x + 1 \in 1..Len(segs) /\ x + 1 # 1
        BY <2>1
    <2> QED BY <1>1, <2>1, <2>2, HeadIs
<1> HIDE DEF c
<1>3. c \in Seq((1..Len(segs)) \X tree) /\ DOMAIN c = 1..Len(c) /\ Len(c) \in Nat
    <2>1. Node \in Seq(Names)
        BY <1>2, PathIs
    <2>2. c \in Seq({x + 1} \X {q \in tree : Front(q) = Node})
        BY <1>2, <2>1, CallsAre DEF c
    <2>3. {x + 1} \X {q \in tree : Front(q) = Node} \subseteq (1..Len(segs)) \X tree
        BY <1>2
    <2> QED BY <2>2, <2>3
<1>4. ASSUME NEW q \in tree
      PROVE  (\E y \in DOMAIN c : Covers(segs, c[y], q)) <=> Covers(segs, stack[1], q)
    <2>1. (\E y \in DOMAIN c : Covers(segs, c[y], q)) <=>
              Leads(Node, q) /\ Len(Node) < Len(q) /\ From(segs, q, x + 1, Len(Node))
        BY <1>2, CoversCalls DEF c
    <2>2. Len(q) \in Nat /\ Len(Node) \in Nat /\ (Leads(Node, q) => Len(Node) < Len(q) \/ q = Node)
        BY <1>1, HeadCovers
    <2>3. ~From(segs, q, x + 1, Len(q))
        BY <1>2, <2>2, FromNothing
    <2> QED BY <1>1, <2>1, <2>2, <2>3
<1>5. \A q \in tree, y \in DOMAIN c : Covers(segs, c[y], q) => Covers(segs, stack[1], q)
    BY <1>4
<1>6. k \in Nat /\ k > 0
    BY <1>2 DEF GlobInv, ListInv
<1>7. Found(tree, patterns, k, segs, c \o Tail(stack), result)
    BY <1>1, <1>2, <1>3, <1>4, <1>5, <1>6, FoundStep
<1>8. c \o Tail(stack) \in Seq((1..Len(segs)) \X tree)
    BY <1>1, <1>2, <1>3, NewCalls
<1>9. ASSUME NoStars PROVE Once(tree, segs, c \o Tail(stack), result)
    <2>1. ASSUME NEW q \in tree, NEW y \in DOMAIN c, Claims(segs, c[y], q)
          PROVE  Claims(segs, stack[1], q)
        <3>1. PICK r \in tree : /\ c[y] = <<x + 1, r>> /\ Len(r) = Len(Node) + 1
                                /\ Leads(r, q) /\ Leads(Node, q)
            BY <1>2, <2>1, ClaimsCalls DEF c
        <3>2. Len(q) - Len(r) = Len(segs) - (x + 1)
            <4>1. c[y][1] = x + 1 /\ c[y][2] = r
                BY <3>1
            <4>2. segs[x + 1] # Stars
                BY <1>2, <1>9
            <4> HIDE DEF x
            <4> QED BY <2>1, <4>1, <4>2 DEF Claims
        <3>3. Len(q) \in Nat /\ Len(Node) \in Nat
            BY <1>1, HeadCovers
        <3>4. Len(q) - Len(Node) = Len(segs) - x
            BY <1>2, <3>1, <3>2, <3>3
        <3> QED BY <1>1, <3>1, <3>4, HeadCovers
    <2>2. \A q \in tree, y, z \in DOMAIN c : Claims(segs, c[y], q) /\ Claims(segs, c[z], q) => y = z
        BY <1>2, ClaimsCalls DEF c
    <2> QED BY <1>1, <1>2, <1>3, <1>9, <2>1, <2>2, OnceStep
<1> QED
    BY <1>7, <1>8, <1>9 DEF c

LEMMA RefuseCall ==
    ASSUME GlobInv, pc = "name", loop = "done", ~answer
    PROVE  /\ Found(tree, patterns, k, segs, Tail(stack), result)
           /\ Tail(stack) \in Seq((1..Len(segs)) \X tree)
           /\ NoStars => Once(tree, segs, Tail(stack), result)
<1>1. stack # <<>> /\ \A q \in tree : Simple(q) => ~Covers(segs, stack[1], q)
    BY AnswerIs
<1>2. /\ tree \in Trees /\ result \in Seq(tree) /\ stack \in Seq((1..Len(segs)) \X tree)
      /\ stack[1][2] \in tree
      /\ k \in 1..Len(patterns) /\ Found(tree, patterns, k, segs, stack, result)
      /\ NoStars => Once(tree, segs, stack, result)
    BY <1>1, HeadIs
<1>3. k \in Nat /\ k > 0
    BY <1>2 DEF GlobInv, ListInv
<1>4. <<>> \in Seq((1..Len(segs)) \X tree) /\ DOMAIN <<>> = {}
    OBVIOUS
<1>5. <<>> \o Tail(stack) = Tail(stack)
    BY <1>1, <1>2, TailIs
<1>6. Found(tree, patterns, k, segs, <<>> \o Tail(stack), result)
    BY <1>1, <1>2, <1>3, <1>4, FoundStep
<1>7. NoStars => Once(tree, segs, <<>> \o Tail(stack), result)
    BY <1>1, <1>2, <1>4, OnceStep
<1>8. Tail(stack) \in Seq((1..Len(segs)) \X tree)
    BY <1>1, <1>2
<1> QED
    BY <1>5, <1>6, <1>7, <1>8

-----------------------------------------------------------------------------
(* The steps of the descent. *)

LEMMA VisitStarsInv == ASSUME GlobInv, VisitStars PROVE GlobInv'
<1>0. /\ UNCHANGED <<given, tree, patterns, regex, k, segs, pc, segmentVars>>
      /\ pc = "glob" /\ stack # <<>> /\ segs[Segment] = Stars
    BY DEF VisitStars
<1>1. SegmentInv' /\ RegexInv' /\ NameInv' /\ ReturnInv'
    <2>1. SegmentInv'
        BY <1>0, SegmentStepInv DEF segmentVars, GlobInv
    <2> QED BY <1>0, <2>1 DEF RegexInv, NameInv, ReturnInv, segmentVars, GlobInv
<1>2. /\ tree \in Trees /\ result \in Seq(tree) /\ Node \in tree /\ k \in 1..Len(patterns)
      /\ segs = Effective(patterns[k])
    BY <1>0, HeadIs
<1>3. CASE IsLast
    <2>1. result' = Append(result, Node) /\ stack' = Calls(Segment, Node) \o Tail(stack)
        BY <1>3 DEF VisitStars
    <2>2. result' \in Seq(tree)
        BY <1>2, <2>1
    <2>3. ListInv'
        BY <1>0, <2>2 DEF GlobInv, ListInv
    <2>4. ~NoStars /\ Found(tree, patterns, k, segs, stack', result')
          /\ stack' \in Seq((1..Len(segs)) \X tree)
        BY <1>0, <1>3, <2>1, LastStars
    <2>5. WalkInv'
        BY <1>0, <1>2, <2>4 DEF GlobInv, ListInv, WalkInv, NoStars
    <2> QED BY <1>1, <2>3, <2>5 DEF GlobInv
<1>4. CASE ~IsLast
    <2>1. result' = result
          /\ stack' = <<<<Segment + 1, Node>>>> \o Calls(Segment, Node) \o Tail(stack)
        BY <1>4 DEF VisitStars
    <2>2. ListInv'
        BY <1>0, <2>1 DEF GlobInv, ListInv
    <2>3. Found(tree, patterns, k, segs, stack', result')
          /\ stack' \in Seq((1..Len(segs)) \X tree)
          /\ (NoStars => Once(tree, segs, stack', result'))
        BY <1>0, <1>4, <2>1, InnerStars
    <2>4. WalkInv'
        BY <1>0, <1>2, <2>3 DEF GlobInv, ListInv, WalkInv, NoStars
    <2> QED BY <1>1, <2>2, <2>4 DEF GlobInv
<1> QED
    BY <1>3, <1>4

\* The name and the segment are what GlobSegment takes.
LEMMA VisitNameCalls ==
    ASSUME GlobInv, VisitName
    PROVE  /\ segs[Segment] \in Seq(Chars) /\ Last(Node) \in Seq(Chars)
           /\ Call(segs[Segment], Last(Node))
           /\ pat' = segs[Segment] /\ name' = Last(Node) /\ loop' = "run"
<1>1. pc = "glob" /\ stack # <<>> /\ segs[Segment] # Stars
    BY DEF VisitName
<1>2. segs[Segment] \in Seq(Chars) /\ Node \in tree /\ tree \in Trees
    BY <1>1, HeadIs
<1>3. Last(Node) \in Seq(Chars)
    BY <1>2, PathIs
<1>4. Call(segs[Segment], Last(Node))
    BY DEF VisitName
<1> QED
    BY <1>2, <1>3, <1>4 DEF Call

LEMMA VisitNameInv == ASSUME GlobInv, VisitName PROVE GlobInv'
<1>0. /\ UNCHANGED <<given, tree, patterns, regex, k, segs, stack, result>>
      /\ pc = "glob" /\ stack # <<>> /\ segs[Segment] # Stars /\ pc' = "name"
    BY DEF VisitName
<1>1. SegmentInv'
    BY VisitNameCalls, CallInv DEF GlobInv
<1>2. NameInv'
    <2>1. pat' = segs[Segment] /\ name' = Last(Node) /\ loop' = "run"
        BY VisitNameCalls
    <2> QED BY <1>0, <2>1 DEF NameInv, Segment, Node
<1>3. ListInv' /\ WalkInv' /\ RegexInv' /\ ReturnInv'
    BY <1>0 DEF GlobInv, ListInv, WalkInv, RegexInv, ReturnInv, NoStars
<1> QED
    BY <1>1, <1>2, <1>3 DEF GlobInv

LEMMA MatchInv == ASSUME GlobInv, Match PROVE GlobInv'
<1>0. UNCHANGED globVars /\ pc = "name" /\ SegmentStep
    BY DEF Match
<1>1. SegmentInv'
    BY <1>0, SegmentStepInv DEF GlobInv, SegmentNext
<1>2. loop' \in {"run", "done"} /\ pat' = pat /\ name' = name
    <2>1. loop \in {"run", "done"}
        BY <1>0 DEF GlobInv, NameInv
    <2> QED
        BY <1>0, <2>1 DEF SegmentStep, Advance, OpenStar, Backtrack, Mismatch, Trailing, Finish, Return
<1>3. NameInv'
    BY <1>0, <1>2 DEF GlobInv, NameInv, globVars, Segment, Node
<1>4. ListInv' /\ WalkInv' /\ RegexInv' /\ ReturnInv'
    BY <1>0 DEF GlobInv, ListInv, WalkInv, RegexInv, ReturnInv, NoStars, globVars
<1> QED
    BY <1>1, <1>3, <1>4 DEF GlobInv

LEMMA EnterInv == ASSUME GlobInv, Enter PROVE GlobInv'
<1>0. /\ UNCHANGED <<given, tree, patterns, regex, k, segs, segmentVars>>
      /\ pc = "name" /\ loop = "done" /\ answer /\ pc' = "glob"
    BY DEF Enter
<1>1. SegmentInv' /\ RegexInv' /\ NameInv' /\ ReturnInv'
    <2>1. SegmentInv'
        BY <1>0, SegmentStepInv DEF segmentVars, GlobInv
    <2> QED BY <1>0, <2>1 DEF RegexInv, NameInv, ReturnInv, segmentVars, GlobInv
<1>2. /\ tree \in Trees /\ result \in Seq(tree) /\ Node \in tree /\ k \in 1..Len(patterns)
      /\ segs = Effective(patterns[k])
    BY <1>0, AnswerIs, HeadIs
<1>3. /\ result' \in Seq(tree)
      /\ Found(tree, patterns, k, segs, stack', result')
      /\ stack' \in Seq((1..Len(segs)) \X tree)
      /\ NoStars => Once(tree, segs, stack', result')
    <2>1. CASE IsLast
        <3>1. result' = Append(result, Node) /\ stack' = Tail(stack)
            BY <2>1 DEF Enter
        <3>2. result' \in Seq(tree)
            BY <1>2, <3>1
        <3> QED BY <1>0, <2>1, <3>1, <3>2, EnterLast
    <2>2. CASE ~IsLast
        <3>1. result' = result /\ stack' = Calls(Segment + 1, Node) \o Tail(stack)
            BY <2>2 DEF Enter
        <3> QED BY <1>0, <1>2, <2>2, <3>1, EnterBelow
    <2> QED BY <2>1, <2>2
<1>4. ListInv'
    BY <1>0, <1>3 DEF GlobInv, ListInv
<1>5. WalkInv'
    BY <1>0, <1>2, <1>3 DEF GlobInv, ListInv, WalkInv, NoStars
<1> QED
    BY <1>1, <1>4, <1>5 DEF GlobInv

LEMMA RefuseInv == ASSUME GlobInv, Refuse PROVE GlobInv'
<1>0. /\ UNCHANGED <<given, tree, patterns, regex, k, segs, result, segmentVars>>
      /\ pc = "name" /\ loop = "done" /\ ~answer /\ pc' = "glob" /\ stack' = Tail(stack)
    BY DEF Refuse
<1>1. SegmentInv' /\ RegexInv' /\ NameInv' /\ ReturnInv'
    <2>1. SegmentInv'
        BY <1>0, SegmentStepInv DEF segmentVars, GlobInv
    <2> QED BY <1>0, <2>1 DEF RegexInv, NameInv, ReturnInv, segmentVars, GlobInv
<1>2. tree \in Trees /\ k \in 1..Len(patterns) /\ segs = Effective(patterns[k])
    BY <1>0, AnswerIs, HeadIs
<1>3. /\ Found(tree, patterns, k, segs, stack', result)
      /\ stack' \in Seq((1..Len(segs)) \X tree)
      /\ NoStars => Once(tree, segs, stack', result)
    BY <1>0, RefuseCall
<1>4. ListInv'
    BY <1>0 DEF GlobInv, ListInv
<1>5. WalkInv'
    BY <1>0, <1>2, <1>3 DEF GlobInv, ListInv, WalkInv, NoStars
<1> QED
    BY <1>1, <1>4, <1>5 DEF GlobInv

LEMMA UniqueInv == ASSUME GlobInv, Unique PROVE GlobInv'
<1>0. /\ UNCHANGED <<given, tree, patterns, regex, k, segs, stack, segmentVars>>
      /\ pc = "glob" /\ stack = <<>> /\ k = Len(patterns) /\ pc' = "returned"
      /\ result' = SetToSeq(ToSet(result))
    BY DEF Unique
<1>1. SegmentInv' /\ RegexInv' /\ NameInv' /\ WalkInv'
    <2>1. SegmentInv'
        BY <1>0, SegmentStepInv DEF segmentVars, GlobInv
    <2> QED BY <1>0, <2>1 DEF RegexInv, NameInv, WalkInv, segmentVars, GlobInv
<1>2. /\ tree \in Trees /\ result \in Seq(tree) /\ k \in Nat /\ patterns \in Seq(Patterns)
      /\ Found(tree, patterns, k, segs, <<>>, result)
    BY <1>0 DEF GlobInv, ListInv, WalkInv
<1> DEFINE T == ToSet(result)
<1>3. T \subseteq tree /\ IsFiniteSet(T)
    <2>1. T \subseteq tree
        BY <1>2 DEF ToSet
    <2>2. IsFiniteSet(tree)
        BY <1>2, GlobAssumption
    <2> QED BY <2>1, <2>2, FS_Subset
<1>4. /\ result' \in Seq(T)
      /\ \A x, y \in 1..Len(result') : result'[x] = result'[y] => x = y
      /\ \A e \in T : \E x \in 1..Len(result') : result'[x] = e
    <2> HIDE DEF T
    <2> QED BY <1>0, <1>3, SetToSeqIs DEF T
<1>5. DOMAIN result' = 1..Len(result') /\ ToSet(result') = T /\ result' \in Seq(tree)
    <2> HIDE DEF T
    <2>1. DOMAIN result' = 1..Len(result') /\ \A x \in 1..Len(result') : result'[x] \in T
        BY <1>4
    <2>2. ToSet(result') = T
        BY <1>4, <2>1 DEF ToSet
    <2>3. result' \in Seq(tree)
        BY <1>3, <1>4, <2>1
    <2> QED BY <2>1, <2>2, <2>3
<1>6. ListInv'
    BY <1>0, <1>5 DEF GlobInv, ListInv
<1>7. DOMAIN patterns = 1..k /\ DOMAIN <<>> = {}
    BY <1>0, <1>2
<1>8. ASSUME NEW q \in tree
      PROVE  /\ q \in ToSet(result') => Denoted(q)
             /\ Denoted(q) /\ Simple(q) => q \in ToSet(result')
    <2> HIDE DEF T
    <2>1. q \in T => Denoted(q)
        BY <1>2, <1>7 DEF Found, Denoted, T
    <2>2. Denoted(q) /\ Simple(q) => q \in T
        BY <1>2, <1>7 DEF Found, Denoted, T
    <2> QED BY <1>5, <2>1, <2>2
<1>9. ReturnInv'
    <2>1. \A x, y \in DOMAIN result' : result'[x] = result'[y] => x = y
        BY <1>4, <1>5
    <2>2. \A q \in tree : Denoted(q)' <=> Denoted(q)
        BY <1>0 DEF Denoted
    <2> QED BY <1>0, <1>8, <2>1, <2>2 DEF ReturnInv
<1> QED
    BY <1>1, <1>6, <1>9 DEF GlobInv

LEMMA GlobStepInv == GlobInv /\ [Next]_vars => GlobInv'
<1> SUFFICES ASSUME GlobInv, [Next]_vars PROVE GlobInv'
    OBVIOUS
<1>1. CASE Next
    BY <1>1, AddInv, FinalizeInv, ThrowsInv, NextPatternInv, VisitStarsInv, VisitNameInv, MatchInv,
       EnterInv, RefuseInv, UniqueInv DEF Next
<1>2. CASE UNCHANGED vars
    <2>1. SegmentInv'
        BY <1>2, SegmentStepInv DEF vars, GlobInv
    <2> QED
        BY <1>2, <2>1 DEF vars, globVars, segmentVars, GlobInv, ListInv, WalkInv, NameInv, RegexInv,
            ReturnInv, NoStars, Denoted, Segment, Node
<1> QED
    BY <1>1, <1>2

LEMMA GlobInvariant == Spec => []GlobInv
<1> QED
    BY GlobInitInv, GlobStepInv, PTL DEF Spec

-----------------------------------------------------------------------------
(* What it gives. *)

\* The search calls the match of names as GlobSegment allows, so that what is
\* proved of every call holds of these.
THEOREM SegmentRefinement == Spec => ImplementsSegment
<1>1. Init => SegmentInit
    BY DEF Init
<1>2. ASSUME GlobInv, [Next]_vars PROVE [SegmentNext]_segmentVars
    <2>1. CASE VisitName
        <3>1. segs[Segment] \in Seq(Chars) /\ Last(Node) \in Seq(Chars) /\ Call(segs[Segment], Last(Node))
              /\ pat' = segs[Segment] /\ name' = Last(Node)
            BY <1>2, <2>1, VisitNameCalls
        <3> QED BY <3>1 DEF SegmentNext
    <2>2. CASE Match
        BY <2>2 DEF Match, SegmentNext
    <2>3. CASE Add \/ Finalize \/ FinalizeThrows \/ NextPattern \/ VisitStars \/ Enter \/ Refuse
               \/ Unique
        BY <2>3 DEF Add, Finalize, FinalizeThrows, NextPattern, VisitStars, Enter, Refuse, Unique
    <2>4. CASE UNCHANGED vars
        BY <2>4 DEF vars
    <2> QED BY <1>2, <2>1, <2>2, <2>3, <2>4 DEF Next
<1> QED
    BY <1>1, <1>2, GlobInvariant, PTL DEF Spec, ImplementsSegment, SegmentSpec

\* What is proved of a call of glob_match_segment holds of each call that the
\* search makes.
THEOREM SegmentCalls == Spec => []SegmentTypeOK /\ []Sound /\ []Complete
<1> QED
    BY SegmentRefinement, SegmentTyped, SoundTheorem, CompleteTheorem, PTL DEF ImplementsSegment

\* A sequence without repetitions is as long as its set is large.
LEMMA CountOnce ==
    ASSUME NEW T, NEW res \in Seq(T), \A x, y \in DOMAIN res : res[x] = res[y] => x = y
    PROVE  Cardinality(ToSet(res)) = Len(res)
<1> DEFINE D == 1..Len(res)
<1>1. DOMAIN res = D /\ Len(res) \in Nat
    OBVIOUS
<1>2. IsFiniteSet(D) /\ Cardinality(D) = Len(res)
    BY <1>1, FS_Interval
<1>3. res \in Bijection(D, ToSet(res))
    <2>1. res \in [D -> ToSet(res)]
        BY <1>1 DEF ToSet
    <2>2. IsInjective(res)
        BY DEF IsInjective
    <2>3. \A e \in ToSet(res) : \E x \in D : res[x] = e
        BY <1>1 DEF ToSet
    <2> QED BY <2>1, <2>2, <2>3 DEF Bijection, Injection, Surjection
<1>4. ExistsBijection(D, ToSet(res))
    BY <1>3 DEF ExistsBijection
<1> QED
    <2> HIDE DEF D
    <2> QED BY <1>2, <1>4, FS_Bijection

\* What glob finds is what the patterns denote, for every tree and list of
\* patterns, except that it may miss a name with a star in it; and without a **
\* it finds nothing twice.
THEOREM GlobFindsTheorem == Spec => []GlobFinds
<1>1. GlobInv => GlobFinds
    <2> SUFFICES ASSUME GlobInv PROVE GlobFinds
        OBVIOUS
    <2>1. pc = "returned" =>
              \A path \in tree :
                  /\ path \in ToSet(result) => Denoted(path)
                  /\ Denoted(path) /\ (\A x \in DOMAIN path : "*" \notin ToSet(path[x]))
                        => path \in ToSet(result)
        BY DEF GlobInv, ReturnInv, Simple
    <2>2. ASSUME Len(patterns) = 1, Stars \notin ToSet(Split(patterns[1]))
          PROVE  Cardinality(ToSet(result)) = Len(result)
        <3>1. \A x, y \in DOMAIN result : result[x] = result[y] => x = y
            <4>1. CASE pc \in {"add", "failed"}
                BY <4>1 DEF GlobInv, ListInv
            <4>2. CASE pc \in {"glob", "name"}
                BY <2>2, <4>2 DEF GlobInv, WalkInv, NoStars, Once
            <4>3. CASE pc = "returned"
                BY <4>3 DEF GlobInv, ReturnInv
            <4> QED BY <4>1, <4>2, <4>3 DEF GlobInv, ListInv
        <3>2. result \in Seq(tree)
            BY DEF GlobInv, ListInv
        <3> QED BY <3>1, <3>2, CountOnce
    <2> QED BY <2>1, <2>2 DEF GlobFinds
<1> QED
    BY <1>1, GlobInvariant, PTL

-----------------------------------------------------------------------------
(* The string of a path, and what is below it. *)

Letters == Chars \cup {"/"}
Strings == {s \in Seq(Letters) : Len(s) > 0}

\* t is s, a slash and more: the string of something below s.
Under(s, t) == Len(s) < Len(t) /\ t[Len(s) + 1] = "/" /\ \A y \in 1..Len(s) : t[y] = s[y]

LEMMA JoinIs ==
    ASSUME NEW s, s = <<>> \/ s \in Strings, NEW n \in Names
    PROVE  Join(s, n) \in Strings /\ (s \in Strings => Under(s, Join(s, n)))
<1>1. n \in Seq(Letters) /\ Len(n) > 0 /\ Len(n) \in Nat
    BY DEF Names, Letters
<1>2. CASE s = <<>>
    BY <1>1, <1>2 DEF Join, Strings
<1>3. CASE s \in Strings
    <2> DEFINE slash == s \o <<"/">>
               t == slash \o n
    <2>1. s \in Seq(Letters) /\ Len(s) > 0 /\ Len(s) \in Nat /\ <<"/">> \in Seq(Letters)
        BY <1>3 DEF Strings, Letters
    <2>2. /\ slash \in Seq(Letters) /\ Len(slash) = Len(s) + 1 /\ slash[Len(s) + 1] = "/"
          /\ \A y \in 1..Len(s) : slash[y] = s[y]
        BY <2>1
    <2>3. Join(s, n) = t
        BY <2>1 DEF Join
    <2> HIDE DEF slash
    <2>4. t \in Seq(Letters) /\ Len(t) = Len(s) + 1 + Len(n) /\ \A y \in 1..Len(s) + 1 : t[y] = slash[y]
        BY <1>1, <2>1, <2>2
    <2> HIDE DEF t
    <2> QED BY <1>1, <2>1, <2>2, <2>3, <2>4 DEF Strings, Under
<1> QED
    BY <1>2, <1>3

LEMMA UnderTrans ==
    ASSUME NEW s \in Strings, NEW t \in Strings, NEW u \in Strings, Under(s, t), Under(t, u)
    PROVE  Under(s, u)
<1>1. Len(s) \in Nat /\ Len(t) \in Nat /\ Len(u) \in Nat
    BY DEF Strings
<1> QED
    BY <1>1 DEF Under

\* The strings of the prefixes of a path.
PathFold(g, q) ==
    /\ g[0] = <<>>
    /\ \A m \in 1..Len(q) : g[m] = Join(g[m - 1], q[m])

LEMMA StringsIn ==
    ASSUME NEW q \in Seq(Names), NEW g, PathFold(g, q)
    PROVE  \A m \in 1..Len(q) : g[m] \in Strings
<1> DEFINE P == {m \in 0..Len(q) : m = 0 \/ g[m] \in Strings}
<1>1. Len(q) \in Nat
    OBVIOUS
<1>2. ASSUME NEW m \in 1..Len(q), m - 1 \in P
      PROVE  m \in P
    <2>1. g[m - 1] = <<>> \/ g[m - 1] \in Strings
        BY <1>2 DEF PathFold
    <2>2. q[m] \in Names
        OBVIOUS
    <2>3. g[m] \in Strings
        BY <2>1, <2>2, JoinIs DEF PathFold
    <2> QED BY <2>3
<1>3. 0..Len(q) \subseteq P
    <2>1. 0 \in P
        BY <1>1
    <2> HIDE DEF P
    <2> QED BY <1>1, <1>2, <2>1, Counting
<1> QED
    BY <1>3

LEMMA SameFold ==
    ASSUME NEW p \in Seq(Names), NEW q \in Seq(Names), Leads(p, q),
           NEW g, NEW h, PathFold(g, p), PathFold(h, q)
    PROVE  g[Len(p)] = h[Len(p)]
<1> DEFINE P == {m \in 0..Len(p) : g[m] = h[m]}
<1>1. Len(p) \in Nat /\ Len(q) \in Nat /\ Len(p) <= Len(q) /\ \A y \in 1..Len(p) : p[y] = q[y]
    BY DEF Leads
<1>2. ASSUME NEW m \in 1..Len(p), m - 1 \in P
      PROVE  m \in P
    BY <1>1, <1>2 DEF PathFold
<1>3. 0..Len(p) \subseteq P
    <2>1. 0 \in P
        BY <1>1 DEF PathFold
    <2> HIDE DEF P
    <2> QED BY <1>1, <1>2, <2>1, Counting
<1> QED
    BY <1>1, <1>3

\* The string of a prefix of a path is a prefix of its string.
LEMMA FoldPrefix ==
    ASSUME NEW q \in Seq(Names), NEW g, PathFold(g, q), NEW n \in 1..Len(q)
    PROVE  /\ g[n] \in Strings /\ g[Len(q)] \in Strings
           /\ Len(g[n]) <= Len(g[Len(q)]) /\ \A y \in 1..Len(g[n]) : g[Len(q)][y] = g[n][y]
           /\ n < Len(q) => /\ Len(g[n]) < Len(g[Len(q)])
                            /\ g[Len(q)][Len(g[n]) + 1] = "/"
<1> DEFINE k1 == Len(q) - n
           P == {m \in 0..k1 : m = 0 \/ Under(g[n], g[n + m])}
<1>1. \A m \in 1..Len(q) : g[m] \in Strings
    BY StringsIn
<1>2. Len(q) \in Nat /\ n \in Nat /\ n <= Len(q)
    OBVIOUS
<1>3. ASSUME NEW m \in 1..k1, m - 1 \in P
      PROVE  m \in P
    <2>1. n + m \in 1..Len(q) /\ n + (m - 1) \in 1..Len(q) /\ (n + m) - 1 = n + (m - 1)
        BY <1>2
    <2>2. g[n + m] = Join(g[n + (m - 1)], q[n + m]) /\ q[n + m] \in Names
        BY <2>1 DEF PathFold
    <2>3. Under(g[n + (m - 1)], g[n + m])
        BY <1>1, <2>1, <2>2, JoinIs
    <2>4. CASE m - 1 = 0
        <3>1. n + (m - 1) = n
            BY <1>2, <2>4
        <3> QED BY <2>3, <3>1
    <2>5. CASE m - 1 # 0
        <3>1. Under(g[n], g[n + (m - 1)])
            BY <1>3, <2>5
        <3>2. Under(g[n], g[n + m])
            BY <1>1, <2>1, <2>3, <3>1, UnderTrans
        <3> QED BY <3>2
    <2> QED BY <2>4, <2>5
<1>4. k1 \in Nat /\ n + k1 = Len(q)
    BY <1>2
<1>5. 0..k1 \subseteq P
    <2>1. 0 \in P
        BY <1>4
    <2> HIDE DEF P, k1
    <2> QED BY <1>3, <1>4, <2>1, Counting
<1>6. k1 = 0 \/ Under(g[n], g[Len(q)])
    <2>1. k1 \in P
        <3> HIDE DEF P, k1
        <3> QED BY <1>4, <1>5
    <2>2. k1 = 0 \/ Under(g[n], g[n + k1])
        BY <2>1
    <2> QED BY <1>4, <2>2
<1>7. g[n] \in Strings /\ g[Len(q)] \in Strings
    BY <1>1, <1>2
<1>8. CASE k1 = 0
    <2>1. n = Len(q) /\ Len(g[n]) \in Nat
        BY <1>2, <1>7, <1>8 DEF Strings
    <2> QED BY <1>7, <2>1
<1>9. CASE Under(g[n], g[Len(q)])
    <2>1. Len(g[n]) \in Nat /\ Len(g[Len(q)]) \in Nat
        BY <1>7 DEF Strings
    <2> QED BY <1>7, <1>9, <2>1 DEF Under
<1> QED
    BY <1>6, <1>8, <1>9

LEMMA FlatUnder ==
    ASSUME NEW p \in Seq(Names), NEW q \in Seq(Names), Len(p) > 0, Leads(p, q), p # q
    PROVE  Flat(p) \in Strings /\ Flat(q) \in Strings /\ Under(Flat(p), Flat(q))
<1>1. Len(p) \in Nat /\ Len(q) \in Nat /\ Len(p) < Len(q)
    <2>1. Len(p) \in Nat /\ Len(q) \in Nat /\ Len(p) <= Len(q)
        BY DEF Leads
    <2>2. Len(p) # Len(q)
        BY LeadsIs
    <2> QED BY <2>1, <2>2
<1>2. PICK g : PathFold(g, p) /\ Flat(p) = g[Len(p)]
    BY FoldJoin DEF PathFold
<1>3. PICK h : PathFold(h, q) /\ Flat(q) = h[Len(q)]
    BY FoldJoin DEF PathFold
<1>4. Flat(p) = h[Len(p)]
    BY <1>2, <1>3, SameFold
<1>5. Len(p) \in 1..Len(q)
    BY <1>1
<1>6. h[Len(p)] \in Strings /\ h[Len(q)] \in Strings /\ Under(h[Len(p)], h[Len(q)])
    BY <1>1, <1>3, <1>5, FoldPrefix DEF Under
<1> QED
    BY <1>3, <1>4, <1>6


-----------------------------------------------------------------------------
(* The regular expressions. *)

Kinds == {"dirs", "run", "deep", "any", "char"}
Piece == {x \in Seq({"dirs", "run", "deep", "any", "char"} \cup Chars) : Len(x) > 0 /\ x[1] \in Kinds}

\* What glob_list::compile has written so far.
Writer == [out : Seq(Piece), star : BOOLEAN, skip : BOOLEAN]

LEMMA RunIs ==
    ASSUME NEW s \in Writer
    PROVE  Run(s) \in Seq(Piece)
<1> USE DEF Writer
<1>1. <<"run">> \in Piece
    BY DEF Piece, Kinds
<1>2. Append(s.out, <<"run">>) \in Seq(Piece)
    BY <1>1
<1> QED
    BY <1>2 DEF Run

LEMMA WriteIs ==
    ASSUME NEW s \in Writer, NEW c \in Chars
    PROVE  Write(s, c) \in Writer
<1> USE DEF Writer
<1>1. <<"deep">> \in Piece /\ <<"any">> \in Piece /\ <<"char", c>> \in Piece
    BY DEF Piece, Kinds
<1>2. s.out \in Seq(Piece) /\ Run(s) \in Seq(Piece)
    BY RunIs
<1>3. Append(s.out, <<"deep">>) \in Seq(Piece)
    BY <1>1, <1>2
<1>4. Append(Run(s), IF c = "?" THEN <<"any">> ELSE <<"char", c>>) \in Seq(Piece)
    <2> DEFINE e == IF c = "?" THEN <<"any">> ELSE <<"char", c>>
    <2>1. e \in Piece
        BY <1>1
    <2>2. Append(Run(s), e) \in Seq(Piece)
        <3> HIDE DEF e
        <3> QED BY <1>2, <2>1
    <2> QED BY <2>2
<1>5. CASE s.skip /\ c = "/"
    <2>1. Write(s, c) = [s EXCEPT !.skip = FALSE]
        BY <1>5 DEF Write
    <2> QED BY <2>1
<1>6. CASE ~(s.skip /\ c = "/") /\ s.star /\ c = "*"
    <2>1. Write(s, c) = [out |-> Append(s.out, <<"deep">>), star |-> FALSE, skip |-> TRUE]
        BY <1>6 DEF Write
    <2> QED BY <1>3, <2>1
<1>7. CASE ~(s.skip /\ c = "/") /\ ~s.star /\ c = "*"
    <2>1. Write(s, c) = [out |-> s.out, star |-> TRUE, skip |-> FALSE]
        BY <1>7 DEF Write
    <2>2. \A o \in Seq(Piece) : [out |-> o, star |-> TRUE, skip |-> FALSE] \in Writer
        OBVIOUS
    <2> QED BY <1>2, <2>1, <2>2
<1>8. CASE ~(s.skip /\ c = "/") /\ c # "*"
    <2>1. Write(s, c) = [out |-> Append(Run(s), IF c = "?" THEN <<"any">> ELSE <<"char", c>>),
                         star |-> FALSE, skip |-> FALSE]
        BY <1>8 DEF Write
    <2> QED BY <1>4, <2>1
<1> QED
    BY <1>5, <1>6, <1>7, <1>8

\* The regular expression of a pattern, character by character.
WriteStages(w, p) ==
    /\ w[0] = Start(p)
    /\ \A m \in 1..Len(Body(p)) : w[m] = Write(w[m - 1], Body(p)[m])
    /\ \A m \in 0..Len(Body(p)) : w[m] \in Writer

LEMMA WriteStagesExist ==
    ASSUME NEW p, IsPattern(p)
    PROVE  \E w : WriteStages(w, p) /\ Pieces(p) = Run(w[Len(Body(p))])
<1> DEFINE b == Body(p)
           P(w) == {m \in 0..Len(b) : w[m] \in Writer}
<1>1. b \in Seq(Chars) /\ Len(b) \in Nat
    BY BodyIs
<1>2. Start(p) \in Writer
    <2>1. <<"dirs">> \in Piece
        BY DEF Piece, Kinds
    <2>2. <<<<"dirs">>>> \in Seq(Piece) /\ <<>> \in Seq(Piece)
        BY <2>1
    <2> QED BY <2>2 DEF Start, Writer
<1> HIDE DEF b
<1>3. PICK w : /\ w[0] = Start(p)
               /\ \A m \in 1..Len(b) : w[m] = Write(w[m - 1], b[m])
               /\ Written(Start(p), b) = w[Len(b)]
    BY <1>1, FoldWrite
<1>4. ASSUME NEW m \in 1..Len(b), m - 1 \in P(w)
      PROVE  m \in P(w)
    <2>1. b[m] \in Chars /\ w[m - 1] \in Writer
        BY <1>1, <1>4
    <2>2. w[m] \in Writer
        BY <1>3, <2>1, WriteIs DEF Writer
    <2> QED BY <2>2
<1>5. 0..Len(b) \subseteq P(w)
    <2>1. 0 \in P(w)
        BY <1>1, <1>2, <1>3
    <2> HIDE DEF P
    <2> QED BY <1>1, <1>4, <2>1, Counting
<1>6. WriteStages(w, p)
    BY <1>3, <1>5 DEF WriteStages, b
<1>7. Pieces(p) = Run(w[Len(b)])
    BY <1>3 DEF Pieces, b
<1> QED
    BY <1>6, <1>7 DEF b

\* The pieces of a pattern are pieces, and none is the last one.
LEMMA PiecesIs ==
    ASSUME NEW p, IsPattern(p)
    PROVE  Pieces(p) \in Seq(Piece)
<1>1. PICK w : WriteStages(w, p) /\ Pieces(p) = Run(w[Len(Body(p))])
    BY WriteStagesExist
<1>2. w[Len(Body(p))] \in Writer
    BY <1>1, BodyIs DEF WriteStages
<1> QED
    BY <1>1, <1>2, RunIs

\* A piece that may end somewhere in s may end there in every t that is under s.
LEMMA AfterUnder ==
    ASSUME NEW s \in Strings, NEW t \in Strings, Under(s, t), NEW e \in Piece,
           NEW x \in 1..Len(s) + 1
    PROVE  After(e, s, x) \subseteq 1..Len(s) + 1 /\ After(e, s, x) \subseteq After(e, t, x)
<1>1. /\ Len(s) \in Nat /\ Len(t) \in Nat /\ Len(s) < Len(t) /\ x \in Nat
      /\ \A y \in 1..Len(s) : t[y] = s[y]
    BY DEF Strings, Under
<1> DEFINE run(u) == {y \in x..Len(u) + 1 : \A z \in x..y - 1 : u[z] # "/"}
           steps(u) == {y \in 1..Len(u) + 1 : \E z \in run(u) :
                     /\ y >= z /\ (y - z) % 2 = 0
                     /\ \A w \in z..y - 1 : (u[w] = "/") <=> ((w - z) % 2 = 0)}
<1>2. run(s) \subseteq x..Len(s) + 1 /\ run(s) \subseteq run(t)
    <2>1. ASSUME NEW y \in run(s) PROVE y \in run(t)
        <3>1. y \in x..Len(t) + 1
            BY <1>1
        <3>2. ASSUME NEW z \in x..y - 1 PROVE t[z] # "/"
            BY <1>1
        <3> QED BY <3>1, <3>2
    <2> QED BY <2>1
<1>3. steps(s) \subseteq 1..Len(s) + 1 /\ steps(s) \subseteq steps(t)
    <2>1. ASSUME NEW y \in steps(s) PROVE y \in steps(t)
        <3>1. y \in 1..Len(s) + 1 /\ y \in 1..Len(t) + 1
            BY <1>1
        <3>2. PICK z \in run(s) : /\ y >= z /\ (y - z) % 2 = 0
                     /\ \A w \in z..y - 1 : (s[w] = "/") <=> ((w - z) % 2 = 0)
            OBVIOUS
        <3>3. z \in run(t) /\ z \in Nat /\ z >= x
            <4>1. z \in x..Len(s) + 1
                BY <1>2
            <4> QED BY <1>1, <1>2, <4>1
        <3> HIDE DEF run
        <3>4. \A w \in z..y - 1 : (t[w] = "/") <=> ((w - z) % 2 = 0)
            BY <1>1, <3>1, <3>2, <3>3
        <3> QED BY <3>1, <3>2, <3>3, <3>4
    <2>2. steps(s) \subseteq 1..Len(s) + 1
        <3> HIDE DEF run
        <3> QED OBVIOUS
    <2> HIDE DEF steps
    <2> QED BY <2>1, <2>2
<1>4. CASE e[1] = "dirs"
    <2>1. \A u : After(e, u, x) = {x} \cup {y + 1 : y \in {y \in x..Len(u) : u[y] = "/"}}
        BY <1>4 DEF After
    <2>2. \A y \in x..Len(s) : y + 1 \in 1..Len(s) + 1 /\ y \in x..Len(t) /\ t[y] = s[y]
        BY <1>1
    <2> QED BY <1>1, <2>1, <2>2
<1>5. CASE e[1] = "run"
    <2>1. \A u : After(e, u, x) = run(u)
        BY <1>5 DEF After
    <2> HIDE DEF run
    <2> QED BY <1>1, <1>2, <2>1
<1>6. CASE e[1] = "deep"
    <2>1. \A u : After(e, u, x) =
              steps(u) \cup {y + 1 : y \in {y \in steps(u) : y <= Len(u) /\ u[y] = "/"}}
        BY <1>6 DEF After
    <2> HIDE DEF steps
    <2>2. \A y \in steps(s) : y <= Len(s) =>
              y + 1 \in 1..Len(s) + 1 /\ y \in steps(t) /\ y <= Len(t) /\ t[y] = s[y]
        BY <1>1, <1>3
    <2> QED BY <1>3, <2>1, <2>2
<1>7. CASE e[1] = "any"
    <2>1. \A u : After(e, u, x) = IF x <= Len(u) THEN {x + 1} ELSE {}
        BY <1>7 DEF After
    <2> QED BY <1>1, <2>1
<1>8. CASE e[1] = "char"
    <2>1. \A u : After(e, u, x) = IF x <= Len(u) /\ u[x] = e[2] THEN {x + 1} ELSE {}
        BY <1>8 DEF After
    <2> QED BY <1>1, <2>1
<1> QED
    BY <1>4, <1>5, <1>6, <1>7, <1>8 DEF Piece, Kinds

LEMMA EndsUnder ==
    ASSUME NEW s \in Strings, NEW t \in Strings, Under(s, t), NEW r \in Seq(Piece)
    PROVE  Ends(r, s) \subseteq 1..Len(s) + 1 /\ Ends(r, s) \subseteq Ends(r, t)
<1>1. PICK g : /\ g[0] = {1}
               /\ \A m \in 1..Len(r) : g[m] = Beyond(g[m - 1], r[m], s)
               /\ Ends(r, s) = g[Len(r)]
    BY FoldEnds
<1>2. PICK h : /\ h[0] = {1}
               /\ \A m \in 1..Len(r) : h[m] = Beyond(h[m - 1], r[m], t)
               /\ Ends(r, t) = h[Len(r)]
    BY FoldEnds
<1> DEFINE P == {m \in 0..Len(r) : g[m] \subseteq 1..Len(s) + 1 /\ g[m] \subseteq h[m]}
<1>3. Len(r) \in Nat /\ Len(s) \in Nat
    BY DEF Strings
<1>4. ASSUME NEW m \in 1..Len(r), m - 1 \in P
      PROVE  m \in P
    <2>1. r[m] \in Piece /\ g[m - 1] \subseteq 1..Len(s) + 1 /\ g[m - 1] \subseteq h[m - 1]
        BY <1>4
    <2>2. \A x \in g[m - 1] : /\ After(r[m], s, x) \subseteq 1..Len(s) + 1
                              /\ After(r[m], s, x) \subseteq After(r[m], t, x)
        BY <2>1, AfterUnder
    <2>3. Beyond(g[m - 1], r[m], s) \subseteq 1..Len(s) + 1
        BY <2>2 DEF Beyond
    <2>4. Beyond(g[m - 1], r[m], s) \subseteq Beyond(h[m - 1], r[m], t)
        BY <2>1, <2>2, Zenon DEF Beyond
    <2> QED BY <1>1, <1>2, <2>3, <2>4
<1>5. 0..Len(r) \subseteq P
    <2>1. 1 \in 1..Len(s) + 1 /\ 0 \in 0..Len(r)
        BY <1>3
    <2>2. {1} \subseteq 1..Len(s) + 1
        BY <2>1
    <2>3. 0 \in P
        BY <1>1, <1>2, <2>1, <2>2
    <2> HIDE DEF P
    <2> QED BY <1>3, <1>4, <2>3, Counting
<1>6. Len(r) \in P
    <2> HIDE DEF P
    <2> QED BY <1>3, <1>5
<1> QED
    BY <1>1, <1>2, <1>6

\* One piece more.
LEMMA EndsMore ==
    ASSUME NEW T, NEW r \in Seq(T), NEW e \in T, NEW s
    PROVE  Ends(Append(r, e), s) = Beyond(Ends(r, s), e, s)
<1> DEFINE q == Append(r, e)
<1>1. q \in Seq(T) /\ Len(q) = Len(r) + 1 /\ Len(r) \in Nat /\ q[Len(r) + 1] = e
      /\ \A m \in 1..Len(r) : q[m] = r[m]
    OBVIOUS
<1> HIDE DEF q
<1>2. PICK g : /\ g[0] = {1}
               /\ \A m \in 1..Len(r) : g[m] = Beyond(g[m - 1], r[m], s)
               /\ Ends(r, s) = g[Len(r)]
    BY FoldEnds
<1>3. PICK h : /\ h[0] = {1}
               /\ \A m \in 1..Len(q) : h[m] = Beyond(h[m - 1], q[m], s)
               /\ Ends(q, s) = h[Len(q)]
    BY <1>1, FoldEnds
<1> DEFINE P == {m \in 0..Len(r) : g[m] = h[m]}
<1>4. ASSUME NEW m \in 1..Len(r), m - 1 \in P
      PROVE  m \in P
    <2>1. m \in 1..Len(q) /\ q[m] = r[m] /\ g[m - 1] = h[m - 1]
        BY <1>1, <1>4
    <2>2. g[m] = h[m]
        BY <1>2, <1>3, <2>1
    <2> QED BY <2>2
<1>5. 0..Len(r) \subseteq P
    <2>1. 0 \in 0..Len(r) /\ g[0] = h[0]
        BY <1>1, <1>2, <1>3
    <2>2. 0 \in P
        BY <2>1
    <2> HIDE DEF P
    <2> QED BY <1>1, <1>4, <2>2, Counting
<1>6. g[Len(r)] = h[Len(r)]
    <2>1. Len(r) \in P
        <3> HIDE DEF P
        <3> QED BY <1>1, <1>5
    <2> QED BY <2>1
<1>7. h[Len(q)] = Beyond(h[Len(r)], e, s)
    <2>1. Len(q) \in 1..Len(q) /\ Len(q) - 1 = Len(r) /\ q[Len(q)] = e
        BY <1>1
    <2> QED BY <1>3, <2>1
<1> QED
    BY <1>2, <1>3, <1>6, <1>7 DEF q

LEMMA CompileEnds ==
    ASSUME NEW p, IsPattern(p), NEW s
    PROVE  Ends(Compile(p), s) = Beyond(Ends(Pieces(p), s), <<"below">>, s)
<1> DEFINE T == Piece \cup {<<"below">>}
<1>1. Pieces(p) \in Seq(T) /\ <<"below">> \in T
    BY PiecesIs
<1> HIDE DEF T
<1> QED
    BY <1>1, EndsMore DEF Compile

LEMMA MatchBelow ==
    ASSUME NEW p, IsPattern(p), NEW s \in Strings, NEW t \in Strings, Under(s, t),
           Len(s) + 1 \in Ends(Compile(p), s)
    PROVE  Len(t) + 1 \in Ends(Compile(p), t)
<1> DEFINE last == <<"below">>
<1>1. Len(s) \in Nat /\ Len(t) \in Nat /\ Len(s) < Len(t) /\ t[Len(s) + 1] = "/"
      /\ \A y \in 1..Len(s) : t[y] = s[y]
    BY DEF Strings, Under
<1>2. \A u, x : After(last, u, x) =
          {x} \cup (IF x <= Len(u) /\ u[x] = "/" THEN {Len(u) + 1} ELSE {})
    BY DEF After
<1> HIDE DEF last
<1>3. PICK x \in Ends(Pieces(p), s) : Len(s) + 1 \in After(last, s, x)
    BY CompileEnds DEF Beyond, last
<1>4. x \in 1..Len(s) + 1 /\ x \in Ends(Pieces(p), t)
    BY PiecesIs, EndsUnder
<1>5. x <= Len(t) /\ t[x] = "/"
    BY <1>1, <1>2, <1>3, <1>4
<1>6. Len(t) + 1 \in After(last, t, x)
    BY <1>2, <1>5
<1> QED
    BY <1>4, <1>6, CompileEnds DEF Beyond, last

\* What is below a file or a directory that the list leaves out is left out,
\* too, for every tree and every list without special characters, except for
\* names with a line break.
THEOREM IgnoredBelowTheorem == Spec => []IgnoredBelow
<1>1. GlobInv => IgnoredBelow
    <2> SUFFICES ASSUME GlobInv, pc \in {"glob", "name"}, NEW p \in tree, NEW q \in tree,
                        IsPrefix(p, q), LiteralPath(q), ListMatches(p), Literal
                 PROVE  ListMatches(q)
        BY DEF IgnoredBelow
    <2>1. tree \in Trees /\ patterns \in Seq(Patterns)
          /\ regex = [x \in DOMAIN patterns |-> Compile(patterns[x])]
        BY DEF GlobInv, ListInv, RegexInv
    <2>2. p \in Seq(Names) /\ q \in Seq(Names) /\ Len(p) > 0
        BY <2>1, PathIs
    <2>3. Leads(p, q)
        BY <2>2 DEF IsPrefix, Leads
    <2>4. CASE p = q
        BY <2>4
    <2>5. CASE p # q
        <3>1. Flat(p) \in Strings /\ Flat(q) \in Strings /\ Under(Flat(p), Flat(q))
            BY <2>2, <2>3, <2>5, FlatUnder
        <3>2. PICK x \in DOMAIN regex : Len(Flat(p)) + 1 \in Ends(regex[x], Flat(p))
            BY DEF ListMatches
        <3>3. x \in DOMAIN patterns /\ regex[x] = Compile(patterns[x]) /\ IsPattern(patterns[x])
            BY <2>1, <3>2 DEF Patterns
        <3>4. Len(Flat(q)) + 1 \in Ends(regex[x], Flat(q))
            BY <3>1, <3>2, <3>3, MatchBelow
        <3> QED BY <3>2, <3>4 DEF ListMatches
    <2> QED BY <2>4, <2>5
<1> QED
    BY <1>1, GlobInvariant, PTL

-----------------------------------------------------------------------------
(* What glob finds is left out, too.  In the string t of a path, position  *)
(* x is open to what has been written of a regular expression.             *)

Has(t, x, c) == x <= Len(t) /\ t[x] = c

Reaches(s, t, x) ==
    /\ x \in Ends(Run(s), t)
    /\ s.skip => ~s.star /\ (Has(t, x, "/") => x + 1 \in Ends(s.out, t))

\* From x to y there is no slash.
Flows(t, x, y) == x <= y /\ y <= Len(t) + 1 /\ \A z \in x..y - 1 : t[z] # "/"

LEMMA RunTo ==
    ASSUME NEW t \in Strings, NEW x \in Nat, NEW y \in Nat
    PROVE  y \in After(<<"run">>, t, x) <=> Flows(t, x, y)
<1>1. After(<<"run">>, t, x) = {v \in x..Len(t) + 1 : \A z \in x..v - 1 : t[z] # "/"}
    BY DEF After
<1>2. Len(t) \in Nat
    BY DEF Strings
<1> QED
    BY <1>1, <1>2 DEF Flows

\* A ** takes what a * takes, and the slash that comes next or not.
LEMMA DeepTo ==
    ASSUME NEW t \in Strings, NEW x \in Nat \ {0}, NEW y \in Nat, Flows(t, x, y)
    PROVE  /\ y \in After(<<"deep">>, t, x)
           /\ Has(t, y, "/") => y + 1 \in After(<<"deep">>, t, x)
<1> DEFINE run == {v \in x..Len(t) + 1 : \A z \in x..v - 1 : t[z] # "/"}
           steps == {v \in 1..Len(t) + 1 : \E z \in run :
                     /\ v >= z /\ (v - z) % 2 = 0
                     /\ \A w \in z..v - 1 : (t[w] = "/") <=> ((w - z) % 2 = 0)}
<1>1. After(<<"deep">>, t, x) = steps \cup {v + 1 : v \in {v \in steps : v <= Len(t) /\ t[v] = "/"}}
    BY DEF After
<1>2. Len(t) \in Nat
    BY DEF Strings
<1>3. y \in run /\ y \in 1..Len(t) + 1
    BY <1>2 DEF Flows
<1>4. y >= y /\ (y - y) % 2 = 0 /\ \A w \in y..y - 1 : (t[w] = "/") <=> ((w - y) % 2 = 0)
    OBVIOUS
<1>5. y \in steps
    <2> HIDE DEF run
    <2> QED BY <1>3, <1>4
<1> HIDE DEF steps
<1> QED
    BY <1>1, <1>5 DEF Has

LEMMA EndsIn ==
    ASSUME NEW t \in Strings, NEW r \in Seq(Piece)
    PROVE  Ends(r, t) \subseteq Nat \ {0}
<1> DEFINE u == t \o <<"/">>
<1>1. u \in Strings /\ Under(t, u) /\ Len(t) \in Nat
    BY DEF Strings, Under, Letters
<1>2. Ends(r, t) \subseteq 1..Len(t) + 1
    <2> HIDE DEF u
    <2> QED BY <1>1, EndsUnder
<1> QED
    BY <1>1, <1>2

LEMMA WriterIs ==
    ASSUME NEW s \in Writer
    PROVE  /\ s.out \in Seq(Piece) /\ s.star \in BOOLEAN /\ s.skip \in BOOLEAN
           /\ Run(s) \in Seq(Piece)
           /\ <<"run">> \in Piece /\ <<"deep">> \in Piece /\ <<"any">> \in Piece
           /\ \A c \in Chars : <<"char", c>> \in Piece
<1>1. Run(s) \in Seq(Piece)
    BY RunIs DEF Writer
<1> QED
    BY <1>1 DEF Writer, Piece, Kinds

\* One character of a name and one of the pattern that is it or a ?.
LEMMA WriteOne ==
    ASSUME NEW t \in Strings, NEW s \in Writer, NEW c \in Chars, NEW x, Reaches(s, t, x),
           x <= Len(t), c # "*", c = "?" \/ t[x] = c
    PROVE  Reaches(Write(s, c), t, x + 1)
<1> USE WriterIs
<1>1. CASE s.skip /\ c = "/"
    <2>1. Write(s, c) = [s EXCEPT !.skip = FALSE]
        BY <1>1 DEF Write
    <2>2. Write(s, c).out = s.out /\ Write(s, c).star = s.star /\ Write(s, c).skip = FALSE
        BY <2>1 DEF Writer
    <2>3. ~s.star /\ Has(t, x, "/")
        BY <1>1 DEF Reaches, Has
    <2>4. x + 1 \in Ends(s.out, t)
        BY <1>1, <2>3 DEF Reaches
    <2>5. Run(Write(s, c)) = s.out
        BY <2>2, <2>3 DEF Run
    <2> QED BY <2>2, <2>4, <2>5 DEF Reaches
<1>2. CASE ~(s.skip /\ c = "/")
    <2> DEFINE e == IF c = "?" THEN <<"any">> ELSE <<"char", c>>
               r == Run(s)
    <2>1. Write(s, c) = [out |-> Append(r, e), star |-> FALSE, skip |-> FALSE]
        BY <1>2 DEF Write
    <2>2. e \in Piece /\ r \in Seq(Piece) /\ x \in Ends(r, t)
        BY DEF Reaches
    <2>3. x + 1 \in After(e, t, x)
        BY DEF After
    <2> HIDE DEF e, r
    <2>4. Run(Write(s, c)) = Append(r, e) /\ Write(s, c).skip = FALSE
        BY <2>1 DEF Run
    <2>5. x + 1 \in Ends(Append(r, e), t)
        BY <2>2, <2>3, EndsMore DEF Beyond
    <2> QED BY <2>4, <2>5 DEF Reaches
<1> QED
    BY <1>1, <1>2

\* A * and any part of a name.
LEMMA WriteStar ==
    ASSUME NEW t \in Strings, NEW s \in Writer, NEW x \in Nat, Reaches(s, t, x),
           NEW y \in Nat, Flows(t, x, y)
    PROVE  Reaches(Write(s, "*"), t, y)
<1> USE WriterIs
<1>1. CASE s.star
    <2> DEFINE deep == <<"deep">>
               run == <<"run">>
    <2>1. Write(s, "*") = [out |-> Append(s.out, deep), star |-> FALSE, skip |-> TRUE]
        BY <1>1 DEF Write
    <2>2. Run(s) = Append(s.out, run) /\ deep \in Piece /\ run \in Piece /\ s.out \in Seq(Piece)
        BY <1>1 DEF Run
    <2> HIDE DEF deep, run
    <2>3. PICK a \in Ends(s.out, t) : x \in After(run, t, a)
        <3>1. x \in Ends(Append(s.out, run), t)
            BY <2>2 DEF Reaches
        <3>2. x \in Beyond(Ends(s.out, t), run, t)
            BY <2>2, <3>1, EndsMore
        <3> QED BY <3>2 DEF Beyond
    <2>4. a \in Nat \ {0}
        BY <2>2, EndsIn
    <2>5. Flows(t, a, x)
        BY <2>3, <2>4, RunTo DEF run
    <2>6. Flows(t, a, y)
        BY <2>4, <2>5 DEF Flows
    <2>7. /\ y \in After(deep, t, a)
          /\ Has(t, y, "/") => y + 1 \in After(deep, t, a)
        BY <2>4, <2>6, DeepTo DEF deep
    <2>8. /\ y \in Ends(Append(s.out, deep), t)
          /\ Has(t, y, "/") => y + 1 \in Ends(Append(s.out, deep), t)
        BY <2>2, <2>7, EndsMore DEF Beyond
    <2>9. /\ Write(s, "*").out = Append(s.out, deep) /\ Write(s, "*").star = FALSE
          /\ Run(Write(s, "*")) = Append(s.out, deep)
        BY <2>1 DEF Run
    <2> QED BY <2>8, <2>9 DEF Reaches
<1>2. CASE ~s.star
    <2> DEFINE run == <<"run">>
    <2>1. Write(s, "*") = [out |-> s.out, star |-> TRUE, skip |-> FALSE]
        BY <1>2 DEF Write
    <2>2. Run(s) = s.out /\ Run(Write(s, "*")) = Append(s.out, run) /\ Write(s, "*").skip = FALSE
        BY <1>2, <2>1 DEF Run
    <2>3. run \in Piece /\ s.out \in Seq(Piece)
        OBVIOUS
    <2>4. y \in After(run, t, x)
        BY RunTo
    <2> HIDE DEF run
    <2>5. y \in Ends(Append(s.out, run), t)
        BY <2>2, <2>3, <2>4, EndsMore DEF Reaches, Beyond
    <2> QED BY <2>2, <2>5 DEF Reaches
<1> QED
    BY <1>1, <1>2

\* o is where each name of the path begins in its string t.
Offsets(o, q, t) ==
    \A n \in 1..Len(q) :
        /\ o[n] \in Nat \ {0} /\ o[n] + Len(q[n]) <= Len(t) + 1
        /\ n = 1 => o[n] = 1
        /\ \A i \in 1..Len(q[n]) : t[o[n] + i - 1] = q[n][i] /\ q[n][i] # "/"
        /\ n = Len(q) => o[n] + Len(q[n]) = Len(t) + 1
        /\ n < Len(q) => t[o[n] + Len(q[n])] = "/" /\ o[n + 1] = o[n] + Len(q[n]) + 1
        /\ n > 1 => o[n] - 1 \in 1..Len(t) /\ t[o[n] - 1] = "/"

LEMMA Joined ==
    ASSUME NEW s \in Strings, NEW n \in Names
    PROVE  /\ Len(Join(s, n)) = Len(s) + 1 + Len(n)
           /\ \A i \in 1..Len(n) : Join(s, n)[Len(s) + 1 + i] = n[i]
           /\ Join(s, n)[Len(s) + 1] = "/"
<1>1. n \in Seq(Letters) /\ Len(n) \in Nat
    BY DEF Names, Letters
<1>2. s \in Seq(Letters) /\ Len(s) \in Nat /\ s # <<>> /\ <<"/">> \in Seq(Letters)
    BY DEF Strings, Letters
<1> DEFINE slash == s \o <<"/">>
           t == slash \o n
<1>3. slash \in Seq(Letters) /\ Len(slash) = Len(s) + 1 /\ slash[Len(s) + 1] = "/"
    BY <1>2
<1>4. Join(s, n) = t
    BY <1>2 DEF Join
<1> HIDE DEF slash
<1>5. /\ Len(t) = Len(s) + 1 + Len(n)
      /\ \A i \in 1..Len(n) : t[Len(s) + 1 + i] = n[i]
      /\ t[Len(s) + 1] = "/"
    BY <1>1, <1>2, <1>3
<1> QED
    BY <1>4, <1>5

LEMMA OffsetsExist ==
    ASSUME NEW q \in Seq(Names), Len(q) > 0
    PROVE  Flat(q) \in Strings /\ \E o : Offsets(o, q, Flat(q))
<1>1. PICK g : PathFold(g, q) /\ Flat(q) = g[Len(q)]
    BY FoldJoin DEF PathFold
<1>2. PICK t : t = Flat(q)
    OBVIOUS
<1>3. Len(q) \in Nat /\ Len(q) \in 1..Len(q)
    OBVIOUS
<1>4. t \in Strings /\ Len(t) \in Nat
    BY <1>1, <1>2, <1>3, StringsIn DEF Strings
<1> DEFINE o == [n \in 1..Len(q) |-> IF n = 1 THEN 1 ELSE Len(g[n - 1]) + 2]
<1>5. ASSUME NEW n \in 1..Len(q)
      PROVE  /\ o[n] \in Nat \ {0} /\ o[n] + Len(q[n]) = Len(g[n]) + 1
             /\ n = 1 => o[n] = 1
             /\ \A i \in 1..Len(q[n]) : g[n][o[n] + i - 1] = q[n][i] /\ q[n][i] # "/"
             /\ n > 1 => g[n][o[n] - 1] = "/" /\ o[n] - 1 >= 1
             /\ Len(g[n]) \in Nat /\ Len(q[n]) \in Nat /\ Len(q[n]) > 0
    <2>1. q[n] \in Names /\ Len(q[n]) \in Nat /\ Len(q[n]) > 0 /\ \A i \in 1..Len(q[n]) : q[n][i] # "/"
        BY DEF Names, ToSet
    <2>2. g[n] = Join(g[n - 1], q[n]) /\ g[n] \in Strings
        BY <1>1, StringsIn DEF PathFold
    <2>3. Len(g[n]) \in Nat
        BY <2>2 DEF Strings
    <2>4. CASE n = 1
        <3>1. g[n - 1] = <<>> /\ o[n] = 1
            BY <1>1, <2>4 DEF PathFold
        <3>2. g[n] = q[n]
            BY <2>2, <3>1 DEF Join
        <3> HIDE DEF o
        <3> QED BY <2>1, <2>3, <2>4, <3>1, <3>2
    <2>5. CASE n # 1
        <3>1. n - 1 \in 1..Len(q)
            BY <2>5
        <3>2. g[n - 1] \in Strings /\ o[n] = Len(g[n - 1]) + 2
            BY <1>1, <2>5, <3>1, StringsIn
        <3>3. Len(g[n - 1]) \in Nat /\ g[n - 1] # <<>>
            BY <3>2 DEF Strings
        <3>4. /\ Len(g[n]) = Len(g[n - 1]) + 1 + Len(q[n])
              /\ \A i \in 1..Len(q[n]) : g[n][Len(g[n - 1]) + 1 + i] = q[n][i]
              /\ g[n][Len(g[n - 1]) + 1] = "/"
            <4>1. PICK s \in Strings : s = g[n - 1]
                BY <3>2
            <4>2. PICK u \in Names : u = q[n]
                BY <2>1
            <4>3. /\ Len(Join(s, u)) = Len(s) + 1 + Len(u)
                  /\ \A i \in 1..Len(u) : Join(s, u)[Len(s) + 1 + i] = u[i]
                  /\ Join(s, u)[Len(s) + 1] = "/"
                BY Joined
            <4> QED BY <2>2, <4>1, <4>2, <4>3
        <3> HIDE DEF o
        <3>5. \A i \in 1..Len(q[n]) : o[n] + i - 1 = Len(g[n - 1]) + 1 + i
            BY <3>2, <3>3
        <3>6. \A i \in 1..Len(q[n]) : g[n][o[n] + i - 1] = q[n][i] /\ q[n][i] # "/"
            BY <2>1, <3>4, <3>5
        <3>7. /\ o[n] \in Nat \ {0} /\ o[n] + Len(q[n]) = Len(g[n]) + 1
              /\ o[n] - 1 = Len(g[n - 1]) + 1 /\ o[n] - 1 >= 1
            <4>1. PICK h \in Nat : h = Len(g[n - 1])
                BY <3>3
            <4>2. o[n] = h + 2 /\ Len(g[n]) = h + 1 + Len(q[n]) /\ Len(q[n]) \in Nat
                BY <2>1, <3>2, <3>4, <4>1
            <4>3. PICK l \in Nat : l = Len(q[n])
                BY <4>2
            <4>4. o[n] = h + 2 /\ Len(g[n]) = h + 1 + l
                BY <4>2, <4>3
            <4>5. h + 2 \in Nat \ {0} /\ h + 2 + l = h + 1 + l + 1
                OBVIOUS
            <4>6. h + 2 - 1 = h + 1 /\ h + 2 - 1 >= 1
                OBVIOUS
            <4>7. o[n] \in Nat \ {0}
                BY <4>4, <4>5
            <4>8. o[n] + Len(q[n]) = Len(g[n]) + 1
                BY <4>3, <4>4, <4>5
            <4>9. o[n] - 1 = Len(g[n - 1]) + 1
                BY <4>1, <4>4, <4>6
            <4>10. o[n] - 1 >= 1
                BY <4>4, <4>6
            <4> QED BY <4>7, <4>8, <4>9, <4>10
        <3> QED BY <2>1, <2>3, <2>5, <3>4, <3>6, <3>7
    <2> QED BY <2>4, <2>5
<1>6. \A n \in 1..Len(q) : n < Len(q) => o[n + 1] = Len(g[n]) + 2
    <2> TAKE n \in 1..Len(q)
    <2> HAVE n < Len(q)
    <2>1. n + 1 \in 1..Len(q) /\ n + 1 # 1 /\ (n + 1) - 1 = n
        OBVIOUS
    <2> QED BY <2>1
<1> HIDE DEF o
<1>7. ASSUME NEW n \in 1..Len(q)
      PROVE  /\ o[n] \in Nat \ {0} /\ o[n] + Len(q[n]) <= Len(t) + 1
             /\ n = 1 => o[n] = 1
             /\ \A i \in 1..Len(q[n]) : t[o[n] + i - 1] = q[n][i] /\ q[n][i] # "/"
             /\ n = Len(q) => o[n] + Len(q[n]) = Len(t) + 1
             /\ n < Len(q) => t[o[n] + Len(q[n])] = "/" /\ o[n + 1] = o[n] + Len(q[n]) + 1
             /\ n > 1 => o[n] - 1 \in 1..Len(t) /\ t[o[n] - 1] = "/"
    <2>1. /\ Len(g[n]) <= Len(t) /\ \A y \in 1..Len(g[n]) : t[y] = g[n][y]
          /\ n < Len(q) => Len(g[n]) < Len(t) /\ t[Len(g[n]) + 1] = "/"
        BY <1>1, <1>2, FoldPrefix
    <2>2. /\ o[n] \in Nat \ {0} /\ o[n] + Len(q[n]) = Len(g[n]) + 1
          /\ Len(g[n]) \in Nat /\ Len(q[n]) \in Nat /\ Len(q[n]) > 0
          /\ n = 1 => o[n] = 1
          /\ n > 1 => g[n][o[n] - 1] = "/" /\ o[n] - 1 >= 1
        BY <1>5
    <2>3. \A i \in 1..Len(q[n]) : t[o[n] + i - 1] = q[n][i] /\ q[n][i] # "/"
        <3> TAKE i \in 1..Len(q[n])
        <3>1. o[n] + i - 1 \in 1..Len(g[n])
            BY <2>2
        <3>2. g[n][o[n] + i - 1] = q[n][i] /\ q[n][i] # "/"
            BY <1>5
        <3> QED BY <2>1, <3>1, <3>2
    <2>4. n = Len(q) => o[n] + Len(q[n]) = Len(t) + 1
        BY <1>1, <1>2, <2>2
    <2>5. n < Len(q) => t[o[n] + Len(q[n])] = "/" /\ o[n + 1] = o[n] + Len(q[n]) + 1
        BY <1>6, <2>1, <2>2
    <2>6. n > 1 => o[n] - 1 \in 1..Len(t) /\ t[o[n] - 1] = "/"
        <3> HAVE n > 1
        <3>1. o[n] - 1 \in 1..Len(g[n])
            BY <2>2
        <3> QED BY <1>4, <2>1, <2>2, <3>1
    <2> QED BY <1>4, <2>1, <2>2, <2>3, <2>4, <2>5, <2>6
<1>8. Offsets(o, q, t)
    BY <1>7, Zenon DEF Offsets
<1> QED
    BY <1>2, <1>4, <1>8

-----------------------------------------------------------------------------
(* The segments that have been read so far. *)

\* a is the beginning of s, up to some character of a segment.
Begins(a, s) ==
    /\ a \in Segments /\ s \in Segments /\ Len(a) <= Len(s)
    /\ \A x \in 1..Len(a) - 1 : s[x] = a[x]
    /\ Len(a[Len(a)]) <= Len(s[Len(a)])
    /\ \A i \in 1..Len(a[Len(a)]) : s[Len(a)][i] = a[Len(a)][i]

LEMMA CutBegins ==
    ASSUME NEW a \in Segments, NEW c \in Chars, NEW s, Begins(Cut(a, c), s)
    PROVE  /\ Begins(a, s)
           /\ c = "/" => /\ s[Len(a)] = a[Len(a)] /\ Len(Cut(a, c)) = Len(a) + 1
                         /\ Cut(a, c)[Len(a) + 1] = <<>>
           /\ c # "/" => /\ Len(Cut(a, c)) = Len(a)
                         /\ Len(Cut(a, c)[Len(a)]) = Len(a[Len(a)]) + 1
                         /\ Len(a[Len(a)]) + 1 <= Len(s[Len(a)])
                         /\ s[Len(a)][Len(a[Len(a)]) + 1] = c
<1>1. /\ Len(a) \in Nat /\ Len(a) > 0 /\ a \in Seq(Seq(Chars)) /\ Len(a) \in 1..Len(a)
      /\ a[Len(a)] \in Seq(Chars) /\ Len(a[Len(a)]) \in Nat
    BY DEF Segments
<1>2. CASE c = "/"
    <2>1. Cut(a, c) = Append(a, <<>>) /\ <<>> \in Seq(Chars)
        BY <1>2 DEF Cut
    <2>2. /\ Len(Cut(a, c)) = Len(a) + 1 /\ Cut(a, c)[Len(a) + 1] = <<>>
          /\ \A x \in 1..Len(a) : Cut(a, c)[x] = a[x]
        BY <1>1, <2>1
    <2>3. (Len(a) + 1) - 1 = Len(a) /\ Len(a) + 1 <= Len(s) /\ s \in Segments
        BY <1>1, <2>2 DEF Begins
    <2>4. \A x \in 1..Len(a) : s[x] = a[x]
        BY <2>2, <2>3 DEF Begins
    <2>5. s[Len(a)] = a[Len(a)] /\ Len(a) <= Len(s)
        <3>1. Len(s) \in Nat
            BY <2>3 DEF Segments
        <3> QED BY <1>1, <2>3, <2>4, <3>1
    <2>6. Begins(a, s)
        BY <1>1, <2>3, <2>4, <2>5 DEF Begins
    <2> QED BY <1>1, <1>2, <2>2, <2>5, <2>6
<1>3. CASE c # "/"
    <2> DEFINE u == a[Len(a)]
               v == Append(u, c)
    <2>1. Cut(a, c) = [a EXCEPT ![Len(a)] = v]
        BY <1>3 DEF Cut
    <2>2. Len(v) = Len(u) + 1 /\ v[Len(u) + 1] = c /\ \A i \in 1..Len(u) : v[i] = u[i]
        BY <1>1
    <2> HIDE DEF v
    <2>3. /\ Len(Cut(a, c)) = Len(a) /\ Cut(a, c)[Len(a)] = v
          /\ \A x \in 1..Len(a) - 1 : Cut(a, c)[x] = a[x]
        BY <1>1, <2>1
    <2>4. /\ s \in Segments /\ Len(a) <= Len(s)
          /\ \A x \in 1..Len(a) - 1 : s[x] = a[x]
          /\ Len(v) <= Len(s[Len(a)])
          /\ \A i \in 1..Len(v) : s[Len(a)][i] = v[i]
        BY <2>3 DEF Begins
    <2> HIDE DEF u
    <2>5. Len(u) \in Nat /\ Len(u) + 1 \in 1..Len(v) /\ \A i \in 1..Len(u) : i \in 1..Len(v)
        BY <1>1, <2>2 DEF u
    <2>6. s[Len(a)] \in Seq(Chars) /\ Len(s[Len(a)]) \in Nat
        BY <1>1, <2>4 DEF Segments
    <2>7. /\ Len(u) + 1 <= Len(s[Len(a)]) /\ s[Len(a)][Len(u) + 1] = c
          /\ Len(u) <= Len(s[Len(a)])
          /\ \A i \in 1..Len(u) : s[Len(a)][i] = u[i]
        BY <2>2, <2>4, <2>5, <2>6
    <2>8. Begins(a, s)
        BY <2>4, <2>7 DEF Begins, u
    <2> QED BY <1>3, <2>2, <2>3, <2>7, <2>8 DEF u
<1> QED
    BY <1>2, <1>3

\* Every stage of the cutting is the beginning of the last.
CutStages(g, b) ==
    /\ g[0] = <<<<>>>>
    /\ \A m \in 1..Len(b) : g[m] = Cut(g[m - 1], b[m])
    /\ \A m \in 0..Len(b) : g[m] \in Segments

LEMMA StagesBegin ==
    ASSUME NEW b \in Seq(Chars), NEW g, CutStages(g, b)
    PROVE  \A m \in 0..Len(b) : Begins(g[m], g[Len(b)])
<1> DEFINE n == Len(b)
           s == g[n]
           P == {m \in 0..n : Begins(g[n - m], s)}
<1>1. n \in Nat /\ n \in 0..n
    OBVIOUS
<1>2. Begins(s, s)
    <2>1. s \in Segments
        BY <1>1 DEF CutStages
    <2> HIDE DEF s
    <2>2. Len(s) \in 1..Len(s) /\ Len(s) \in Nat /\ s[Len(s)] \in Seq(Chars)
        BY <2>1 DEF Segments
    <2> QED BY <2>1, <2>2 DEF Begins
<1>3. ASSUME NEW m \in 1..n, m - 1 \in P
      PROVE  m \in P
    <2>1. n - m + 1 \in 1..n /\ (n - m + 1) - 1 = n - m /\ n - m \in 0..n /\ n - (m - 1) = n - m + 1
        BY <1>1
    <2>2. g[n - m + 1] = Cut(g[n - m], b[n - m + 1]) /\ g[n - m] \in Segments /\ b[n - m + 1] \in Chars
        BY <2>1 DEF CutStages
    <2>3. Begins(g[n - m + 1], s)
        BY <1>3, <2>1
    <2>4. Begins(g[n - m], s)
        <3> HIDE DEF s, n
        <3> QED BY <2>2, <2>3, CutBegins
    <2> QED BY <1>1, <2>1, <2>4
<1>4. 0..n \subseteq P
    <2>1. 0 \in P
        BY <1>1, <1>2
    <2> HIDE DEF P, n
    <2> QED BY <1>1, <1>3, <2>1, Counting
<1>5. ASSUME NEW m \in 0..n PROVE Begins(g[m], s)
    <2>1. n - m \in 0..n /\ n - (n - m) = m
        BY <1>1
    <2>2. n - m \in P
        <3> HIDE DEF P, n
        <3> QED BY <1>4, <2>1
    <2>3. Begins(g[n - (n - m)], s)
        BY <2>2
    <2> QED BY <2>1, <2>3
<1> QED
    BY <1>5

-----------------------------------------------------------------------------
(* A pattern each of whose segments, but perhaps the first, takes one name. *)

\* The stars fit every name.
LEMMA StarsFit ==
    ASSUME NEW n \in Seq(Chars), Len(n) > 0
    PROVE  Fits(Stars, n, 1, 1)
<1>1. Len(n) \in Nat /\ Len(Stars) = 2 /\ Stars[1] = "*" /\ Stars[2] = "*"
    BY DEF Stars
<1>2. PICK h : h = [i \in 1..Len(Stars) + 1 |-> IF i = 1 THEN 1 ELSE Len(n) + 1]
    OBVIOUS
<1>3. h \in [1..Len(Stars) + 1 -> 1..Len(n) + 1] /\ h[1] = 1 /\ h[2] = Len(n) + 1 /\ h[3] = Len(n) + 1
    BY <1>1, <1>2
<1>4. \A i \in 1..Len(Stars) : Stars[i] = "*" /\ h[i] <= h[i + 1]
    <2> TAKE i \in 1..Len(Stars)
    <2>1. i = 1 \/ i = 2
        BY <1>1
    <2> QED BY <1>1, <1>3, <2>1
<1>5. h[1] = 1 /\ h[Len(Stars) + 1] = Len(n) + 1
    BY <1>1, <1>3
<1> QED
    BY <1>3, <1>4, <1>5 DEF Fits

\* Without ** before the last, the segments from z on take one name each.
LEMMA OneEach ==
    ASSUME NEW s, Len(s) \in Nat, NEW path, Len(path) \in Nat, NEW z \in 1..Len(s),
           NEW a \in 0..Len(path), From(s, path, z, a),
           \A y \in z..Len(s) - 1 : s[y] # Stars
    PROVE  \A y \in z..Len(s) : /\ a + (y - z) + 1 \in 1..Len(path)
                                /\ s[y] # Stars => Fits(s[y], path[a + (y - z) + 1], 1, 1)
<1> DEFINE n == Len(s) - z
           P == {m \in 0..n : a + m \in 0..Len(path) /\ From(s, path, z + m, a + m)}
<1>1. n \in Nat
    OBVIOUS
<1>2. ASSUME NEW m \in 1..n, m - 1 \in P
      PROVE  m \in P
    <2>1. PICK y \in 1..Len(s) : y = z + (m - 1)
        OBVIOUS
    <2>2. PICK c \in 0..Len(path) : c = a + (m - 1)
        BY <1>2
    <2>3. From(s, path, y, c) /\ s[y] # Stars
        BY <1>2, <2>1, <2>2
    <2>4. PICK b \in 0..Len(path) : Takes(s, path, y, c, b) /\ From(s, path, y + 1, b)
        BY <2>3, FromStep
    <2>5. b = c + 1
        BY <2>3, <2>4 DEF Takes
    <2>6. b = a + m /\ y + 1 = z + m
        BY <2>1, <2>2, <2>5
    <2> QED BY <2>4, <2>6
<1>3. 0..n \subseteq P
    <2>1. 0 \in P
        <3>1. z + 0 = z /\ a + 0 = a /\ 0 \in 0..n
            BY <1>1
        <3> QED BY <3>1
    <2> HIDE DEF P, n
    <2> QED BY <1>1, <1>2, <2>1, Counting
<1>4. ASSUME NEW y \in z..Len(s)
      PROVE  /\ a + (y - z) + 1 \in 1..Len(path)
             /\ s[y] # Stars => Fits(s[y], path[a + (y - z) + 1], 1, 1)
    <2>1. PICK m \in 0..n : m = y - z
        OBVIOUS
    <2>2. m \in P
        <3> HIDE DEF P
        <3> QED BY <1>3
    <2>3. PICK c \in 0..Len(path) : c = a + m
        BY <2>2
    <2>4. From(s, path, y, c) /\ y \in 1..Len(s)
        BY <2>1, <2>2, <2>3
    <2>5. PICK b \in 0..Len(path) : Takes(s, path, y, c, b)
        BY <2>4, FromStep
    <2>6. s[y] # Stars => b = c + 1 /\ Fits(s[y], path[b], 1, 1)
        BY <2>5 DEF Takes
    <2>7. s[y] = Stars => y = Len(s) /\ c < b
        <3> HAVE s[y] = Stars
        <3>1. y = Len(s)
            OBVIOUS
        <3> QED BY <2>5, <3>1 DEF Takes
    <2>8. c + 1 \in 1..Len(path)
        BY <2>6, <2>7
    <2> QED BY <2>1, <2>3, <2>6, <2>8
<1> QED
    BY <1>4

\* The segments of s from x on take one name of q each, the first of which is
\* the one after d.
Aligned(s, q, x, d) ==
    \A y \in x..Len(s) : d + (y - x) + 1 \in 1..Len(q) /\ Fits(s[y], q[d + (y - x) + 1], 1, 1)

LEMMA AlignedExist ==
    ASSUME NEW p, IsPattern(p), ~Between(p), NEW q \in Seq(Names), Denotes(p, q)
    PROVE  \E x \in {1, 2}, d \in Nat :
               /\ Aligned(Split(p), q, x, d) /\ x <= Len(Split(p))
               /\ Anchored(p) => x = 1 /\ d = 0
               /\ x = 2 => Split(p)[1] = Stars
<1>1. PICK s : s = Split(p)
    OBVIOUS
<1>2. s \in Seq(Seq(Chars)) /\ Len(s) \in Nat /\ Len(s) > 0
    BY <1>1, SplitType
<1>3. Len(q) \in Nat /\ \A y \in 1..Len(q) : q[y] \in Seq(Chars) /\ Len(q[y]) > 0
    BY DEF Names
<1>4. \A x \in 1..Len(s) - 1 : s[x] = Stars => x = 1 /\ ~Anchored(p)
    BY <1>1 DEF Between
<1>5. PICK e : e = Effective(p)
    OBVIOUS
<1>6. From(e, q, 1, 0)
    BY <1>5, DenotesFrom
<1>7. CASE Anchored(p)
    <2>1. e = s /\ 0 \in 0..Len(q) /\ 1 \in 1..Len(s)
        BY <1>1, <1>2, <1>3, <1>5, <1>7 DEF Effective
    <2>2. \A y \in 1..Len(s) - 1 : s[y] # Stars
        BY <1>4, <1>7
    <2>3. \A y \in 1..Len(s) : /\ 0 + (y - 1) + 1 \in 1..Len(q)
                               /\ s[y] # Stars => Fits(s[y], q[0 + (y - 1) + 1], 1, 1)
        BY <1>2, <1>3, <1>6, <2>1, <2>2, OneEach
    <2>4. \A y \in 1..Len(s) : Fits(s[y], q[0 + (y - 1) + 1], 1, 1)
        BY <1>3, <2>3, StarsFit
    <2>5. Aligned(s, q, 1, 0)
        BY <2>3, <2>4 DEF Aligned
    <2> QED BY <1>1, <1>2, <2>5
<1>8. CASE ~Anchored(p)
    <2>1. e = <<Stars>> \o s
        BY <1>1, <1>5, <1>8 DEF Effective
    <2>2. Len(e) = Len(s) + 1 /\ e[1] = Stars /\ \A y \in 1..Len(s) : e[y + 1] = s[y]
        <3>1. <<Stars>> \in Seq({Stars} \cup Seq(Chars)) /\ Len(<<Stars>>) = 1 /\ <<Stars>>[1] = Stars
            OBVIOUS
        <3>2. s \in Seq({Stars} \cup Seq(Chars))
            BY <1>2
        <3> QED BY <1>2, <2>1, <3>1, <3>2
    <2>3. PICK b \in 0..Len(q) : From(e, q, 2, b)
        <3>1. 1 \in 1..Len(e) /\ 0 \in 0..Len(q) /\ Len(e) \in Nat /\ 1 + 1 = 2
            BY <1>2, <1>3, <2>2
        <3>2. PICK b \in 0..Len(q) : Takes(e, q, 1, 0, b) /\ From(e, q, 1 + 1, b)
            BY <1>3, <1>6, <3>1, FromStep
        <3> QED BY <3>1, <3>2
    <2>4. PICK x \in {1, 2}, d \in 0..Len(q) :
              /\ x <= Len(s) /\ From(e, q, x + 1, d)
              /\ \A y \in x..Len(s) - 1 : s[y] # Stars
              /\ x = 2 => s[1] = Stars
        <3>1. CASE s[1] = Stars /\ Len(s) > 1
            <4>1. 2 \in 1..Len(e) /\ Len(e) \in Nat
                BY <1>2, <2>2, <3>1
            <4>2. PICK d \in 0..Len(q) : Takes(e, q, 2, b, d) /\ From(e, q, 2 + 1, d)
                BY <1>3, <2>3, <4>1, FromStep
            <4>3. \A y \in 2..Len(s) - 1 : s[y] # Stars
                BY <1>4
            <4> QED BY <1>2, <3>1, <4>2, <4>3
        <3>2. CASE ~(s[1] = Stars /\ Len(s) > 1)
            <4>1. \A y \in 1..Len(s) - 1 : s[y] # Stars
                BY <1>2, <1>4, <3>2
            <4>2. 1 + 1 = 2 /\ 1 <= Len(s)
                BY <1>2
            <4> QED BY <2>3, <4>1, <4>2
        <3> QED BY <3>1, <3>2
    <2>5. x + 1 \in 1..Len(e) /\ Len(e) \in Nat
        BY <1>2, <2>2, <2>4
    <2>6. \A y \in x + 1..Len(e) - 1 : e[y] # Stars
        <3> TAKE y \in x + 1..Len(e) - 1
        <3>1. y - 1 \in x..Len(s) - 1 /\ (y - 1) + 1 = y /\ y - 1 \in 1..Len(s)
            BY <1>2, <2>2, <2>4
        <3> QED BY <2>2, <2>4, <3>1
    <2>7. \A y \in x + 1..Len(e) : /\ d + (y - (x + 1)) + 1 \in 1..Len(q)
                                   /\ e[y] # Stars => Fits(e[y], q[d + (y - (x + 1)) + 1], 1, 1)
        BY <1>3, <2>4, <2>5, <2>6, OneEach
    <2>8. ASSUME NEW y \in x..Len(s)
          PROVE  d + (y - x) + 1 \in 1..Len(q) /\ Fits(s[y], q[d + (y - x) + 1], 1, 1)
        <3>1. y + 1 \in x + 1..Len(e) /\ (y + 1) - (x + 1) = y - x /\ e[y + 1] = s[y]
            BY <1>2, <2>2, <2>4
        <3>2. /\ d + (y - x) + 1 \in 1..Len(q)
              /\ s[y] # Stars => Fits(s[y], q[d + (y - x) + 1], 1, 1)
            BY <2>7, <3>1
        <3> QED BY <1>3, <3>2, StarsFit
    <2>9. Aligned(s, q, x, d)
        BY <2>8 DEF Aligned
    <2> QED BY <1>1, <1>8, <2>4, <2>9
<1> QED
    BY <1>7, <1>8

\* The name that the segment after those of a but its last takes.
Nth(a, x, d) == d + (Len(a) - x) + 1

\* When the segments a have been read and v has been written, a place j in the
\* name the last of them takes is open, from where the rest of it fits.
Placed(a, v, s, q, o, t, x, d) ==
    /\ Len(a) >= x
    /\ \E j \in 1..Len(q[Nth(a, x, d)]) + 1 :
          /\ Fits(s[Len(a)], q[Nth(a, x, d)], Len(a[Len(a)]) + 1, j)
          /\ Reaches(v, t, o[Nth(a, x, d)] + j - 1)

LEMMA PlacedStep ==
    ASSUME NEW q \in Seq(Names), NEW t \in Strings, NEW o, Offsets(o, q, t),
           NEW x \in {1, 2}, NEW d \in Nat, NEW s, Aligned(s, q, x, d),
           NEW a \in Segments, NEW c \in Chars, Begins(Cut(a, c), s),
           NEW v \in Writer, Placed(a, v, s, q, o, t, x, d)
    PROVE  Placed(Cut(a, c), Write(v, c), s, q, o, t, x, d)
<1>1. PICK n : n = Len(a)
    OBVIOUS
<1>2. PICK y : y = Nth(a, x, d)
    OBVIOUS
<1>3. PICK u : u = s[n]
    OBVIOUS
<1>4. PICK l : l = Len(a[n])
    OBVIOUS
<1>5. /\ n \in Nat /\ n >= x /\ l \in Nat /\ s \in Segments /\ Len(s) \in Nat /\ n <= Len(s)
      /\ u \in Seq(Chars) /\ Len(u) \in Nat
    <2>1. Begins(a, s)
        BY CutBegins
    <2>2. s \in Segments /\ n <= Len(s) /\ n \in Nat /\ n > 0 /\ n >= x
        BY <1>1, <2>1 DEF Begins, Segments, Placed
    <2>3. a[n] \in Seq(Chars) /\ s[n] \in Seq(Chars) /\ Len(s) \in Nat
        BY <1>1, <2>2 DEF Segments
    <2> QED BY <1>3, <1>4, <2>2, <2>3
<1>6. y = d + (n - x) + 1 /\ y \in 1..Len(q) /\ Fits(u, q[y], 1, 1)
    <2>1. y = d + (n - x) + 1
        BY <1>1, <1>2 DEF Nth
    <2>2. n \in x..Len(s)
        BY <1>5
    <2> QED BY <1>3, <2>1, <2>2 DEF Aligned
<1>7. PICK w : w = q[y]
    OBVIOUS
<1>8. w \in Seq(Chars) /\ Len(w) \in Nat
    BY <1>6, <1>7 DEF Names
<1>9. PICK e : e = o[y]
    OBVIOUS
<1>10. /\ e \in Nat \ {0} /\ e + Len(w) <= Len(t) + 1
       /\ \A i \in 1..Len(w) : t[e + i - 1] = w[i] /\ w[i] # "/"
       /\ y < Len(q) => t[e + Len(w)] = "/" /\ o[y + 1] = e + Len(w) + 1
    BY <1>6, <1>7, <1>9 DEF Offsets
<1>11. PICK j \in 1..Len(w) + 1 : Fits(u, w, l + 1, j) /\ Reaches(v, t, e + j - 1)
    BY <1>1, <1>2, <1>3, <1>4, <1>7, <1>9 DEF Placed
<1>12. Len(t) \in Nat
    BY DEF Strings
<1>13. CASE c = "/"
    <2>1. u = a[n] /\ Len(Cut(a, c)) = n + 1 /\ Cut(a, c)[n + 1] = <<>>
        BY <1>1, <1>3, <1>13, CutBegins
    <2>2. j = Len(w) + 1
        <3>1. Fits(u, w, Len(u) + 1, j)
            BY <1>4, <1>11, <2>1
        <3> QED BY <1>5, <1>8, <3>1, FitsEnd
    <2>3. n + 1 \in x..Len(s)
        <3>1. n + 1 <= Len(s)
            BY <2>1 DEF Begins
        <3> QED BY <1>5, <3>1
    <2>4. Nth(Cut(a, c), x, d) = y + 1
        BY <1>5, <1>6, <2>1 DEF Nth
    <2>5. y + 1 \in 1..Len(q) /\ Fits(s[n + 1], q[y + 1], 1, 1)
        <3>1. d + ((n + 1) - x) + 1 = y + 1
            BY <1>5, <1>6
        <3> QED BY <2>3, <3>1 DEF Aligned
    <2>6. y < Len(q)
        BY <1>6, <2>5
    <2>7. e + j - 1 = e + Len(w) /\ t[e + Len(w)] = "/" /\ o[y + 1] = e + Len(w) + 1
        BY <1>8, <1>10, <2>2, <2>6
    <2>8. e + Len(w) <= Len(t)
        <3>1. o[y + 1] + Len(q[y + 1]) <= Len(t) + 1 /\ Len(q[y + 1]) > 0 /\ Len(q[y + 1]) \in Nat
            BY <2>5 DEF Offsets, Names
        <3>2. PICK r \in Nat \ {0} : r = Len(q[y + 1])
            BY <3>1
        <3>3. e + Len(w) + 1 + r <= Len(t) + 1
            BY <2>7, <3>1, <3>2
        <3>4. e \in Nat /\ r > 0
            BY <1>10
        <3>5. \A i1, i2, i3, i4 \in Nat : i3 > 0 /\ i1 + i2 + 1 + i3 <= i4 + 1 => i1 + i2 <= i4
            OBVIOUS
        <3> QED BY <1>8, <1>12, <3>3, <3>4, <3>5
    <2>9. Reaches(Write(v, c), t, e + Len(w) + 1)
        <3>1. PICK z : z = e + Len(w)
            OBVIOUS
        <3>2. Reaches(v, t, z) /\ z <= Len(t) /\ t[z] = c
            BY <1>11, <1>13, <2>7, <2>8, <3>1
        <3>3. Reaches(Write(v, c), t, z + 1)
            BY <1>13, <3>2, WriteOne
        <3> QED BY <3>1, <3>3
    <2>10. /\ Len(Cut(a, c)[Len(Cut(a, c))]) + 1 = 1
           /\ o[y + 1] + 1 - 1 = e + Len(w) + 1
           /\ 1 \in 1..Len(q[y + 1]) + 1
        <3>1. Len(<<>>) = 0
            OBVIOUS
        <3>2. Len(q[y + 1]) \in Nat
            BY <2>5 DEF Names
        <3>3. e + Len(w) + 1 \in Nat
            BY <1>8, <1>10
        <3> QED BY <2>1, <2>7, <3>1, <3>2, <3>3
    <2>11. Len(Cut(a, c)) = n + 1 /\ n + 1 >= x
        BY <1>5, <2>1
    <2> QED BY <2>4, <2>5, <2>9, <2>10, <2>11 DEF Placed
<1>14. CASE c # "/"
    <2>1. /\ Len(Cut(a, c)) = n /\ Len(Cut(a, c)[n]) = l + 1
          /\ l + 1 <= Len(u) /\ u[l + 1] = c
        BY <1>1, <1>3, <1>4, <1>14, CutBegins
    <2>2. Nth(Cut(a, c), x, d) = y
        BY <1>6, <2>1 DEF Nth
    <2>3. l + 1 \in 1..Len(u)
        BY <1>5, <2>1
    <2>4. PICK m \in 1..Len(w) + 1 :
              /\ Fits(u, w, (l + 1) + 1, m)
              /\ IF u[l + 1] = "*" THEN j <= m ELSE m = j + 1 /\ u[l + 1] \in {"?", w[j]}
        BY <1>5, <1>8, <1>11, <2>3, FitsTail
    <2>5. Reaches(Write(v, c), t, e + m - 1)
        <3>1. CASE c = "*"
            <4>1. j <= m
                BY <2>1, <2>4, <3>1
            <4>2. e + j - 1 \in Nat /\ e + m - 1 \in Nat
                BY <1>8, <1>10
            <4>3. Flows(t, e + j - 1, e + m - 1)
                <5>1. e + j - 1 <= e + m - 1 /\ e + m - 1 <= Len(t) + 1
                    BY <1>8, <1>10, <1>12, <4>1
                <5>2. ASSUME NEW z \in (e + j - 1)..(e + m - 1) - 1 PROVE t[z] # "/"
                    <6>1. PICK i \in 1..Len(w) : i = z - e + 1
                        BY <1>8, <1>10, <4>1
                    <6>2. e + i - 1 = z
                        BY <1>10, <6>1
                    <6> QED BY <1>10, <6>1, <6>2
                <5> QED BY <5>1, <5>2 DEF Flows
            <4> QED BY <1>11, <3>1, <4>2, <4>3, WriteStar
        <3>2. CASE c # "*"
            <4>1. m = j + 1 /\ c \in {"?", w[j]} /\ j \in 1..Len(w)
                BY <1>8, <2>1, <2>4, <3>2
            <4>2. PICK z : z = e + j - 1
                OBVIOUS
            <4>3. z <= Len(t) /\ t[z] = w[j] /\ z + 1 = e + m - 1
                BY <1>8, <1>10, <1>12, <4>1, <4>2
            <4>4. Reaches(Write(v, c), t, z + 1)
                BY <1>11, <3>2, <4>1, <4>2, <4>3, WriteOne
            <4> QED BY <4>3, <4>4
        <3> QED BY <3>1, <3>2
    <2> QED BY <1>3, <1>5, <1>7, <1>9, <2>1, <2>2, <2>4, <2>5 DEF Placed
<1> QED
    BY <1>13, <1>14

\* When the whole pattern has been written, the end of the last name is open.
LEMMA PlacedEnd ==
    ASSUME NEW q \in Seq(Names), NEW t \in Strings, NEW o, Offsets(o, q, t),
           NEW x \in {1, 2}, NEW d \in Nat, NEW s \in Segments, Aligned(s, q, x, d),
           NEW v, Placed(s, v, s, q, o, t, x, d)
    PROVE  \E e \in Ends(Run(v), t) : e = Len(t) + 1 \/ Has(t, e, "/")
<1>1. PICK n : n = Len(s)
    OBVIOUS
<1>2. PICK y : y = Nth(s, x, d)
    OBVIOUS
<1>3. n \in Nat /\ n >= x /\ n \in x..Len(s) /\ s[n] \in Seq(Chars)
    BY <1>1 DEF Segments, Placed
<1>4. y \in 1..Len(q)
    BY <1>1, <1>2, <1>3 DEF Aligned, Nth
<1>5. PICK w : w = q[y]
    OBVIOUS
<1>6. w \in Seq(Chars) /\ Len(w) \in Nat
    BY <1>4, <1>5 DEF Names
<1>7. PICK j \in 1..Len(w) + 1 : Fits(s[n], w, Len(s[n]) + 1, j) /\ Reaches(v, t, o[y] + j - 1)
    BY <1>1, <1>2, <1>5 DEF Placed
<1>8. j = Len(w) + 1
    BY <1>3, <1>6, <1>7, FitsEnd
<1>9. /\ o[y] \in Nat /\ o[y] + Len(w) <= Len(t) + 1
      /\ y = Len(q) => o[y] + Len(w) = Len(t) + 1
      /\ y < Len(q) => t[o[y] + Len(w)] = "/" /\ o[y + 1] = o[y] + Len(w) + 1
    BY <1>4, <1>5 DEF Offsets
<1>10. o[y] + j - 1 = o[y] + Len(w)
    BY <1>6, <1>8, <1>9
<1>11. o[y] + Len(w) \in Ends(Run(v), t)
    BY <1>7, <1>10 DEF Reaches
<1>12. y < Len(q) => o[y] + Len(w) <= Len(t)
    <2> HAVE y < Len(q)
    <2>1. y + 1 \in 1..Len(q)
        BY <1>4
    <2>2. o[y + 1] + Len(q[y + 1]) <= Len(t) + 1 /\ Len(q[y + 1]) \in Nat /\ Len(q[y + 1]) > 0
        BY <2>1 DEF Offsets, Names
    <2>3. Len(t) \in Nat
        BY DEF Strings
    <2> QED BY <1>6, <1>9, <2>2, <2>3
<1> QED
    BY <1>4, <1>9, <1>11, <1>12 DEF Has

LEMMA EndsEmpty ==
    ASSUME NEW t
    PROVE  Ends(<<>>, t) = {1}
<1>1. PICK r \in Seq(Piece) : r = <<>> /\ Len(r) = 0
    <2>1. <<>> \in Seq(Piece) /\ Len(<<>>) = 0
        OBVIOUS
    <2> QED BY <2>1, Zenon
<1>2. PICK g : g[0] = {1} /\ Ends(r, t) = g[Len(r)]
    BY FoldEnds
<1> QED
    BY <1>1, <1>2

\* (.*/)? takes any number of names.
LEMMA DirsTo ==
    ASSUME NEW q \in Seq(Names), NEW t \in Strings, NEW o, Offsets(o, q, t), NEW n \in 1..Len(q)
    PROVE  o[n] \in Ends(<<<<"dirs">>>>, t)
<1> DEFINE e == <<"dirs">>
<1>1. e \in Piece
    BY DEF Piece, Kinds
<1>2. After(e, t, 1) = {1} \cup {y + 1 : y \in {y \in 1..Len(t) : t[y] = "/"}}
    BY DEF After
<1>3. o[n] \in After(e, t, 1)
    <2>1. n = 1 => o[n] = 1
        BY DEF Offsets
    <2>2. n > 1 => o[n] - 1 \in 1..Len(t) /\ t[o[n] - 1] = "/" /\ o[n] \in Nat
        BY DEF Offsets
    <2>3. n > 1 => o[n] = (o[n] - 1) + 1
        BY <2>2
    <2> HIDE DEF e
    <2> QED BY <1>2, <2>1, <2>2, <2>3
<1> HIDE DEF e
<1>4. Ends(<<>>, t) = {1}
    BY EndsEmpty
<1>5. Append(<<>>, e) = <<e>>
    OBVIOUS
<1>6. Ends(<<e>>, t) = Beyond({1}, e, t)
    <2>1. <<>> \in Seq(Piece)
        OBVIOUS
    <2>2. Ends(Append(<<>>, e), t) = Beyond(Ends(<<>>, t), e, t)
        BY <1>1, <2>1, EndsMore
    <2> QED BY <1>4, <1>5, <2>2
<1>7. o[n] \in Beyond({1}, e, t)
    BY <1>3 DEF Beyond
<1> QED
    BY <1>6, <1>7 DEF e

\* Where the segments that take one name each begin.
LEMMA PlacedStart ==
    ASSUME NEW p, IsPattern(p), NEW q \in Seq(Names), NEW t \in Strings, NEW o, Offsets(o, q, t),
           NEW g, CutStages(g, Body(p)), Split(p) = g[Len(Body(p))], NEW w, WriteStages(w, p),
           NEW d \in Nat, Aligned(Split(p), q, 1, d), Anchored(p) => d = 0
    PROVE  Placed(g[0], w[0], Split(p), q, o, t, 1, d)
<1>1. PICK a : a = g[0]
    OBVIOUS
<1>2. a = <<<<>>>> /\ Len(a) = 1 /\ Len(a[1]) = 0
    BY <1>1 DEF CutStages
<1>3. Nth(a, 1, d) = d + 1
    BY <1>2 DEF Nth
<1>4. d + 1 \in 1..Len(q) /\ Fits(Split(p)[1], q[d + 1], 1, 1)
    <2>1. 1 \in 1..Len(Split(p)) /\ d + (1 - 1) + 1 = d + 1
        BY SplitType
    <2> QED BY <2>1 DEF Aligned
<1>5. o[d + 1] \in Nat /\ Len(q[d + 1]) \in Nat
    BY <1>4 DEF Offsets, Names
<1>6. PICK v : v = w[0]
    OBVIOUS
<1>7. v.skip = FALSE /\ v.star = FALSE /\ v.out = IF Anchored(p) THEN <<>> ELSE <<<<"dirs">>>>
    BY <1>6 DEF WriteStages, Start
<1>8. o[d + 1] \in Ends(v.out, t)
    <2>1. CASE Anchored(p)
        <3>1. o[d + 1] = 1 /\ v.out = <<>>
            BY <1>4, <1>7, <2>1 DEF Offsets
        <3> QED BY <3>1, EndsEmpty
    <2>2. CASE ~Anchored(p)
        BY <1>4, <1>7, <2>2, DirsTo
    <2> QED BY <2>1, <2>2
<1>9. Reaches(v, t, o[d + 1] + 1 - 1)
    <2>1. Run(v) = v.out
        BY <1>7 DEF Run
    <2>2. o[d + 1] + 1 - 1 = o[d + 1]
        BY <1>5
    <2> QED BY <1>7, <1>8, <2>1, <2>2 DEF Reaches
<1>10. 1 \in 1..Len(q[d + 1]) + 1 /\ Len(a[Len(a)]) + 1 = 1 /\ Len(a) >= 1
    BY <1>2, <1>5
<1>11. Fits(Split(p)[Len(a)], q[d + 1], Len(a[Len(a)]) + 1, 1)
    BY <1>2, <1>4, <1>10
<1>12. Placed(a, v, Split(p), q, o, t, 1, d)
    BY <1>3, <1>9, <1>10, <1>11 DEF Placed
<1> QED
    BY <1>1, <1>6, <1>12

\* n segments have been begun, and l characters of the last been read.
Stands(g, m, n, l) == Len(g[m]) = n /\ Len(g[m][n]) = l

\* What the character after m tells of the segments s.
Tells(g, m, n, l, c, s) ==
    /\ c = "/" => Len(s[n]) = l /\ Len(g[m + 1]) = n + 1 /\ g[m + 1][n + 1] = <<>>
    /\ c # "/" => s[n][l + 1] = c /\ l + 1 <= Len(s[n]) /\ Stands(g, m + 1, n, l + 1)

LEMMA StageIs ==
    ASSUME NEW b \in Seq(Chars), NEW g, CutStages(g, b), NEW m \in Nat, m < Len(b),
           NEW n, NEW l, Stands(g, m, n, l)
    PROVE  Tells(g, m, n, l, b[m + 1], g[Len(b)])
<1>0. PICK s : s = g[Len(b)]
    OBVIOUS
<1>1. Len(b) \in Nat /\ m + 1 \in 1..Len(b) /\ (m + 1) - 1 = m /\ m \in 0..Len(b) /\ m + 1 \in 0..Len(b)
    OBVIOUS
<1>2. g[m + 1] = Cut(g[m], b[m + 1]) /\ g[m] \in Segments /\ b[m + 1] \in Chars
    BY <1>1 DEF CutStages
<1>3. Begins(g[m + 1], s)
    BY <1>0, <1>1, StagesBegin
<1>4. PICK a \in Segments, c \in Chars : a = g[m] /\ c = b[m + 1] /\ Begins(Cut(a, c), s)
    BY <1>2, <1>3
<1>5. /\ c = "/" => /\ s[Len(a)] = a[Len(a)] /\ Len(Cut(a, c)) = Len(a) + 1
                    /\ Cut(a, c)[Len(a) + 1] = <<>>
      /\ c # "/" => /\ Len(Cut(a, c)) = Len(a)
                    /\ Len(Cut(a, c)[Len(a)]) = Len(a[Len(a)]) + 1
                    /\ Len(a[Len(a)]) + 1 <= Len(s[Len(a)])
                    /\ s[Len(a)][Len(a[Len(a)]) + 1] = c
    BY <1>4, CutBegins
<1>6. g[m + 1] = Cut(a, c) /\ Len(a) = n /\ Len(a[n]) = l
    BY <1>2, <1>4 DEF Stands
<1>7. /\ c = "/" => Len(s[n]) = l /\ Len(g[m + 1]) = n + 1 /\ g[m + 1][n + 1] = <<>>
      /\ c # "/" => /\ s[n][l + 1] = c /\ l + 1 <= Len(s[n])
                    /\ Len(g[m + 1]) = n /\ Len(g[m + 1][n]) = l + 1
    BY <1>5, <1>6, ZenonT(60)
<1> QED
    BY <1>0, <1>4, <1>7, ZenonT(60) DEF Tells, Stands

\* The same after a ** at the beginning.
LEMMA PlacedBehindStars ==
    ASSUME NEW p, IsPattern(p), ~Anchored(p),
           NEW q \in Seq(Names), NEW t \in Strings, NEW o, Offsets(o, q, t),
           NEW g, CutStages(g, Body(p)), Split(p) = g[Len(Body(p))], NEW w, WriteStages(w, p),
           Split(p)[1] = Stars, Len(Split(p)) > 1,
           NEW d \in Nat, Aligned(Split(p), q, 2, d)
    PROVE  3 \in 0..Len(Body(p)) /\ Placed(g[3], w[3], Split(p), q, o, t, 2, d)
<1>1. PICK b : b = Body(p)
    OBVIOUS
<1>2. PICK s : s = Split(p)
    OBVIOUS
<1>3. b \in Seq(Chars) /\ Len(b) \in Nat /\ CutStages(g, b) /\ s = g[Len(b)]
    BY <1>1, <1>2, BodyIs
<1>4. Len(s[1]) = 2 /\ s[1][1] = "*" /\ s[1][2] = "*" /\ Len(s) # 1 /\ Len(s) \in Nat /\ Len(s) > 1
    <2>1. Len(Stars) = 2 /\ Stars[1] = "*" /\ Stars[2] = "*"
        BY DEF Stars
    <2>2. Len(s) \in Nat /\ Len(s) > 1
        BY <1>2, SplitType
    <2>3. Len(s) # 1
        <3>1. \A e \in Nat : e > 1 => e # 1
            OBVIOUS
        <3> QED BY <2>2, <3>1, Zenon
    <2> QED BY <1>2, <2>1, <2>2, <2>3
<1>5. Stands(g, 0, 1, 0) /\ Len(b) # 0
    <2>1. Len(g[0]) = 1 /\ Len(g[0][1]) = 0
        BY <1>3 DEF CutStages
    <2>2. Len(b) # 0
        BY <1>3, <1>4, <2>1, Zenon
    <2> QED BY <2>1, <2>2 DEF Stands
<1>6. 1 \in 1..Len(b) /\ b[1] = "*" /\ Stands(g, 1, 1, 1)
    <2>1. 1 \in 1..Len(b)
        BY <1>3, <1>5
    <2>2. PICK m, n, l \in Nat : m = 0 /\ n = 1 /\ l = 0 /\ m < Len(b)
        BY <1>3, <2>1
    <2>3. Tells(g, m, n, l, b[m + 1], s)
        <3>1. Stands(g, m, n, l)
            BY <1>5, <2>2
        <3> QED BY <1>3, <2>2, <3>1, StageIs
    <2>4. m + 1 = 1 /\ n + 1 = 2 /\ l + 1 = 1
        BY <2>2
    <2>5. /\ b[1] = "/" => Len(s[1]) = 0
          /\ b[1] # "/" => s[1][1] = b[1] /\ Stands(g, 1, 1, 1)
        BY <2>2, <2>3, <2>4, ZenonT(60) DEF Tells
    <2>6. Len(s[1]) # 0
        BY <1>4
    <2> QED BY <1>4, <2>1, <2>5, <2>6, Zenon
<1>7. 2 \in 1..Len(b) /\ b[2] = "*" /\ Stands(g, 2, 1, 2)
    <2>1. 2 \in 1..Len(b)
        <3>1. Len(g[1]) = 1
            BY <1>6 DEF Stands
        <3>2. Len(b) # 1
            BY <1>3, <1>4, <3>1, Zenon
        <3>3. PICK e \in Nat : e = Len(b)
            BY <1>3
        <3>4. 1 \in 1..e /\ e # 1
            BY <1>6, <3>2, <3>3, Zenon
        <3>5. 2 \in 1..e
            BY <3>4
        <3> QED BY <3>3, <3>5
    <2>2. PICK m, n, l \in Nat : m = 1 /\ n = 1 /\ l = 1 /\ m < Len(b)
        BY <1>3, <2>1
    <2>3. Tells(g, m, n, l, b[m + 1], s)
        <3>1. Stands(g, m, n, l)
            BY <1>6, <2>2
        <3> QED BY <1>3, <2>2, <3>1, StageIs
    <2>4. m + 1 = 2 /\ n + 1 = 2 /\ l + 1 = 2
        BY <2>2
    <2>5. /\ b[2] = "/" => Len(s[1]) = 1
          /\ b[2] # "/" => s[1][2] = b[2] /\ Stands(g, 2, 1, 2)
        BY <2>2, <2>3, <2>4, ZenonT(60) DEF Tells
    <2>6. Len(s[1]) # 1
        BY <1>4
    <2> QED BY <1>4, <2>1, <2>5, <2>6, Zenon
<1>8. 3 \in 1..Len(b) /\ b[3] = "/" /\ Len(g[3]) = 2 /\ g[3][2] = <<>>
    <2>1. 3 \in 1..Len(b)
        <3>1. Len(g[2]) = 1
            BY <1>7 DEF Stands
        <3>2. Len(b) # 2
            BY <1>3, <1>4, <3>1, Zenon
        <3>3. PICK e \in Nat : e = Len(b)
            BY <1>3
        <3>4. 2 \in 1..e /\ e # 2
            BY <1>7, <3>2, <3>3, Zenon
        <3>5. 3 \in 1..e
            BY <3>4
        <3> QED BY <3>3, <3>5
    <2>2. PICK m, n, l \in Nat : m = 2 /\ n = 1 /\ l = 2 /\ m < Len(b)
        BY <1>3, <2>1
    <2>3. Tells(g, m, n, l, b[m + 1], s)
        <3>1. Stands(g, m, n, l)
            BY <1>7, <2>2
        <3> QED BY <1>3, <2>2, <3>1, StageIs
    <2>4. m + 1 = 3 /\ n + 1 = 2 /\ l + 1 = 3
        BY <2>2
    <2>5. /\ b[3] = "/" => Len(g[3]) = 2 /\ g[3][2] = <<>>
          /\ b[3] # "/" => 3 <= Len(s[1])
        BY <2>2, <2>3, <2>4, ZenonT(60) DEF Tells
    <2>6. ~(3 <= Len(s[1]))
        BY <1>4
    <2> QED BY <2>1, <2>5, <2>6, Zenon
<1>9. PICK v : v = w[3]
    OBVIOUS
<1>10. v.out = Append(<<<<"dirs">>>>, <<"deep">>) /\ v.star = FALSE /\ v.skip = FALSE
    <2>1. w[0] = [out |-> <<<<"dirs">>>>, star |-> FALSE, skip |-> FALSE]
        BY DEF WriteStages, Start
    <2>2. w[1] = Write(w[0], "*") /\ w[2] = Write(w[1], "*") /\ w[3] = Write(w[2], "/")
        <3>1. 1 - 1 = 0 /\ 2 - 1 = 1 /\ 3 - 1 = 2
            OBVIOUS
        <3>2. \A m \in 1..Len(b) : w[m] = Write(w[m - 1], b[m])
            BY <1>1 DEF WriteStages
        <3>3. w[1] = Write(w[0], b[1])
            BY <1>6, <3>1, <3>2
        <3>4. w[2] = Write(w[1], b[2])
            BY <1>7, <3>1, <3>2
        <3>5. w[3] = Write(w[2], b[3])
            BY <1>8, <3>1, <3>2
        <3> QED BY <1>6, <1>7, <1>8, <3>3, <3>4, <3>5
    <2>3. w[1] = [out |-> <<<<"dirs">>>>, star |-> TRUE, skip |-> FALSE]
        BY <2>1, <2>2 DEF Write
    <2>4. w[2] = [out |-> Append(<<<<"dirs">>>>, <<"deep">>), star |-> FALSE, skip |-> TRUE]
        <3>1. w[1].skip = FALSE /\ w[1].star = TRUE /\ w[1].out = <<<<"dirs">>>>
            BY <2>3
        <3>2. "*" # "/"
            OBVIOUS
        <3> QED BY <2>2, <3>1, <3>2 DEF Write
    <2>5. w[3] = [w[2] EXCEPT !.skip = FALSE]
        BY <2>2, <2>4 DEF Write
    <2> QED BY <1>9, <2>4, <2>5
<1>11. Nth(g[3], 2, d) = d + 1
    BY <1>8 DEF Nth
<1>12. d + 1 \in 1..Len(q) /\ Fits(s[2], q[d + 1], 1, 1)
    <2>1. 2 \in 2..Len(s) /\ d + (2 - 2) + 1 = d + 1
        BY <1>4
    <2> QED BY <1>2, <2>1 DEF Aligned
<1>13. PICK z : z = o[d + 1]
    OBVIOUS
<1>14. z \in Nat \ {0} /\ Len(q[d + 1]) \in Nat /\ z <= Len(t) + 1
    <2>1. z \in Nat \ {0} /\ Len(q[d + 1]) \in Nat /\ z + Len(q[d + 1]) <= Len(t) + 1
        BY <1>12, <1>13 DEF Offsets, Names
    <2>2. Len(t) \in Nat
        BY DEF Strings
    <2> QED BY <2>1, <2>2
<1>15. z \in Ends(v.out, t)
    <2>1. PICK r : r = <<<<"dirs">>>>
        OBVIOUS
    <2>2. PICK e : e = <<"deep">>
        OBVIOUS
    <2>3. r \in Seq(Piece) /\ e \in Piece
        <3>1. <<"dirs">> \in Piece /\ <<"deep">> \in Piece
            BY DEF Piece, Kinds
        <3> QED BY <2>1, <2>2, <3>1
    <2>4. z \in Ends(r, t)
        BY <1>12, <1>13, <2>1, DirsTo
    <2>5. Flows(t, z, z)
        BY <1>14 DEF Flows
    <2>6. z \in After(e, t, z)
        BY <1>14, <2>2, <2>5, DeepTo
    <2>7. z \in Beyond(Ends(r, t), e, t)
        BY <2>4, <2>6 DEF Beyond
    <2>8. Ends(Append(r, e), t) = Beyond(Ends(r, t), e, t)
        BY <2>3, EndsMore
    <2> QED BY <1>10, <2>1, <2>2, <2>7, <2>8
<1>16. Reaches(v, t, o[d + 1] + 1 - 1)
    <2>1. Run(v) = v.out
        BY <1>10 DEF Run
    <2>2. o[d + 1] + 1 - 1 = z
        BY <1>13, <1>14
    <2> QED BY <1>10, <1>15, <2>1, <2>2 DEF Reaches
<1>17. 1 \in 1..Len(q[d + 1]) + 1 /\ Len(g[3][Len(g[3])]) + 1 = 1 /\ Len(g[3]) >= 2
    <2>1. Len(<<>>) = 0
        OBVIOUS
    <2> QED BY <1>8, <1>14, <2>1
<1>18. Fits(s[Len(g[3])], q[d + 1], Len(g[3][Len(g[3])]) + 1, 1)
    BY <1>8, <1>12, <1>17
<1>19. Placed(g[3], v, s, q, o, t, 2, d)
    BY <1>11, <1>16, <1>17, <1>18 DEF Placed
<1>20. 3 \in 0..Len(b)
    BY <1>8
<1> QED
    BY <1>1, <1>2, <1>9, <1>19, <1>20

\* The regular expression of a pattern matches the path that it denotes.
LEMMA CompileCovers ==
    ASSUME NEW p, IsPattern(p), ~Between(p), NEW q \in Seq(Names), Len(q) > 0, Denotes(p, q)
    PROVE  Len(Flat(q)) + 1 \in Ends(Compile(p), Flat(q))
<1>1. PICK t \in Strings : t = Flat(q)
    BY OffsetsExist
<1>2. PICK o : Offsets(o, q, t)
    BY <1>1, OffsetsExist
<1>3. PICK b \in Seq(Chars) : b = Body(p)
    BY BodyIs
<1>4. PICK g : CutStages(g, b) /\ Split(p) = g[Len(b)]
    BY <1>3, SplitIs DEF CutStages
<1>5. PICK w : WriteStages(w, p) /\ Pieces(p) = Run(w[Len(b)])
    BY <1>3, WriteStagesExist
<1>6. PICK x \in {1, 2}, d \in Nat :
          /\ Aligned(Split(p), q, x, d) /\ x <= Len(Split(p))
          /\ Anchored(p) => x = 1 /\ d = 0
          /\ x = 2 => Split(p)[1] = Stars
    BY AlignedExist
<1>7. PICK s : s = Split(p)
    OBVIOUS
<1>8. s \in Segments /\ Len(b) \in Nat /\ Len(s) \in Nat
    BY <1>4, <1>7, SplitType DEF CutStages, Segments
<1>9. PICK h \in 0..Len(b) : Placed(g[h], w[h], s, q, o, t, x, d)
    <2>1. CASE x = 1
        <3>1. Placed(g[0], w[0], s, q, o, t, x, d) /\ 0 \in 0..Len(b)
            BY <1>2, <1>3, <1>4, <1>5, <1>6, <1>7, <1>8, <2>1, PlacedStart
        <3> QED BY <3>1
    <2>2. CASE x = 2
        <3>1. Len(s) > 1
            BY <1>6, <1>7, <1>8, <2>2
        <3>2. Placed(g[3], w[3], s, q, o, t, x, d) /\ 3 \in 0..Len(b)
            BY <1>2, <1>3, <1>4, <1>5, <1>6, <1>7, <2>2, <3>1, PlacedBehindStars
        <3> QED BY <3>2
    <2> QED BY <2>1, <2>2
<1> DEFINE n == Len(b) - h
           P == {m \in 0..n : Placed(g[h + m], w[h + m], s, q, o, t, x, d)}
<1>10. ASSUME NEW m \in 1..n, m - 1 \in P
       PROVE  m \in P
    <2>1. PICK z \in 1..Len(b) : z = h + m
        BY <1>8
    <2>2. z - 1 = h + (m - 1) /\ z - 1 \in 0..Len(b) /\ z \in 0..Len(b)
        BY <1>8, <2>1
    <2>3. g[z] = Cut(g[z - 1], b[z]) /\ g[z - 1] \in Segments /\ b[z] \in Chars
        BY <1>4, <2>2 DEF CutStages
    <2>4. w[z] = Write(w[z - 1], b[z]) /\ w[z - 1] \in Writer
        BY <1>3, <1>5, <2>2 DEF WriteStages
    <2>5. Begins(g[z], s)
        BY <1>4, <1>7, <2>2, StagesBegin
    <2>6. Placed(g[z - 1], w[z - 1], s, q, o, t, x, d)
        BY <1>10, <2>2
    <2>7. Placed(g[z], w[z], s, q, o, t, x, d)
        BY <1>2, <1>6, <1>7, <2>3, <2>4, <2>5, <2>6, PlacedStep
    <2> QED BY <2>1, <2>7
<1>11. n \in Nat /\ h + n = Len(b) /\ h + 0 = h
    BY <1>8
<1>12. 0..n \subseteq P
    <2>1. 0 \in P
        BY <1>9, <1>11
    <2> HIDE DEF P, n
    <2> QED BY <1>10, <1>11, <2>1, Counting
<1>13. Placed(s, w[Len(b)], s, q, o, t, x, d)
    <2>1. n \in P
        <3> HIDE DEF P, n
        <3> QED BY <1>11, <1>12
    <2>2. Placed(g[h + n], w[h + n], s, q, o, t, x, d)
        BY <2>1
    <2> QED BY <1>4, <1>7, <1>11, <2>2
<1>14. PICK e \in Ends(Pieces(p), t) : e = Len(t) + 1 \/ Has(t, e, "/")
    BY <1>2, <1>5, <1>6, <1>7, <1>8, <1>13, PlacedEnd
<1>15. After(<<"below">>, t, e) = {e} \cup (IF e <= Len(t) /\ t[e] = "/" THEN {Len(t) + 1} ELSE {})
    BY DEF After
<1>16. Len(t) + 1 \in After(<<"below">>, t, e)
    BY <1>14, <1>15 DEF Has
<1>17. Len(t) + 1 \in Ends(Compile(p), t)
    BY <1>14, <1>16, CompileEnds DEF Beyond
<1> QED
    BY <1>1, <1>17

\* The regular expressions of the list leave out whatever glob finds with the
\* same patterns, for every tree and every list without special characters,
\* unless a pattern has a ** before another segment that does not only let it
\* begin anywhere, or a name has a line break.
THEOREM IgnoreCoversTheorem == Spec => []IgnoreCoversGlob
<1>1. GlobInv => IgnoreCoversGlob
    <2> SUFFICES ASSUME GlobInv, pc = "returned", Literal, NEW q \in ToSet(result),
                        LiteralPath(q),
                        ~\E x \in DOMAIN patterns : Between(patterns[x])
                 PROVE  ListMatches(q)
        BY DEF IgnoreCoversGlob
    <2>1. /\ tree \in Trees /\ patterns \in Seq(Patterns) /\ result \in Seq(tree)
          /\ regex = [x \in DOMAIN patterns |-> Compile(patterns[x])]
          /\ \A r \in tree : r \in ToSet(result) => Denoted(r)
        BY DEF GlobInv, ListInv, RegexInv, ReturnInv
    <2>2. q \in tree
        BY <2>1 DEF ToSet
    <2>3. q \in Seq(Names) /\ Len(q) > 0
        BY <2>1, <2>2, PathIs
    <2>4. PICK x \in DOMAIN patterns : Denotes(patterns[x], q)
        BY <2>1, <2>2 DEF Denoted
    <2>5. IsPattern(patterns[x]) /\ ~Between(patterns[x])
        BY <2>1 DEF Patterns
    <2>6. Len(Flat(q)) + 1 \in Ends(Compile(patterns[x]), Flat(q))
        BY <2>3, <2>4, <2>5, CompileCovers
    <2>7. x \in DOMAIN regex /\ regex[x] = Compile(patterns[x])
        BY <2>1
    <2> QED BY <2>6, <2>7 DEF ListMatches
<1> QED
    BY <1>1, GlobInvariant, PTL
=============================================================================
