----------------------------- MODULE TreeProofs -----------------------------
(***************************************************************************)
(* What the operators of Tree return: paths above each other, sorted       *)
(* lists, the walk over two lists, the lines of a tree, the digests of a   *)
(* workspace; then the lists of nodes, and the trees whose lines lead to   *)
(* trees again; last what Merge makes of two lists, and the index and the  *)
(* objects of a whole workspace.                                           *)
(***************************************************************************)
EXTENDS Merge, WellFoundedInduction, TLAPS

AboveDef(above, p) == IF Parent[p] = Root THEN {} ELSE {Parent[p]} \cup above[Parent[p]]
AboveRec == INSTANCE Recursion WITH Def <- AboveDef

SortedDef(upto, x) ==
    IF x[2] = 0 THEN <<>>
    ELSE IF Order[x[2]] \in x[1] THEN Append(upto[<<x[1], x[2] - 1>>], Order[x[2]])
    ELSE upto[<<x[1], x[2] - 1>>]
SortedRec == INSTANCE Recursion WITH Def <- SortedDef

WalkDef(at, x) == IF x[3] = 0 THEN <<1, 1>> ELSE Turn(x[1], x[2], at[<<x[1], x[2], x[3] - 1>>])
WalkRec == INSTANCE Recursion WITH Def <- WalkDef

LinesDef(line, x) == LineOf(x[1], [q \in Paths |-> line[<<x[1], q>>]], x[2])
LinesRec == INSTANCE Recursion WITH Def <- LinesDef

HashesDef(hash, x) ==
    HashOf(x[1], x[2], [q \in Paths \cup {Root} |-> hash[<<x[1], x[2], q>>]], x[3])
HashesRec == INSTANCE Recursion WITH Def <- HashesDef

-----------------------------------------------------------------------------
(* Numbers. *)

LessPairs == {p \in Nat \X Nat : p[1] < p[2]}

LEMMA LessWellFounded == IsWellFoundedOn(LessPairs, Nat)
<1>1. OpToRel(<, Nat) = LessPairs
    BY DEF OpToRel, LessPairs
<1> QED
    BY <1>1, NatLessThanWellFounded, Zenon

\* A set of numbers that is not empty has a smallest one.
LEMMA Smallest ==
    ASSUME NEW S, S \subseteq Nat, S # {}
    PROVE  \E n \in S : \A m \in S : n <= m
<1>1. \E n \in S : \A m \in S : <<m, n>> \notin LessPairs
    BY LessWellFounded, WFMin, Zenon
<1>2. \A m, n \in S : <<m, n>> \notin LessPairs => n <= m
    BY DEF LessPairs
<1> QED
    BY <1>1, <1>2

\* The same, in the form in which Recursion assumes it.
LEMMA WellOrdered ==
    \A P \in SUBSET Nat : P # {} => \E a \in P : \A b \in P : a <= b
BY Smallest

\* What holds at 0 and is kept from each number to the next holds of all: a
\* set that has 0 and each successor.
LEMMA Counting ==
    ASSUME NEW n \in Nat, NEW P, 0 \in P, \A k \in 1..n : k - 1 \in P => k \in P
    PROVE  0..n \subseteq P
<1> DEFINE Bad == {k \in 0..n : k \notin P}
<1>1. SUFFICES ASSUME Bad # {} PROVE FALSE
    OBVIOUS
<1>2. PICK k \in Bad : \A l \in Bad : k <= l
    <2>1. Bad \subseteq Nat
        OBVIOUS
    <2> HIDE DEF Bad
    <2> QED BY <1>1, <2>1, Smallest
<1>3. k \in 1..n /\ k - 1 \notin Bad
    BY <1>2
<1> QED
    BY <1>2, <1>3

-----------------------------------------------------------------------------
(* Paths. *)

LEMMA OrderIsFinite == Len(Order) \in Nat /\ DOMAIN Order = 1..Len(Order)
BY TreeAssumption

LEMMA RankType ==
    /\ Rank \in [Paths -> 1..Len(Order)]
    /\ \A p \in Paths : Order[Rank[p]] = p
    /\ \A k \in 1..Len(Order) : Order[k] \in Paths /\ Rank[Order[k]] = k
<1>1. \A p \in Paths : \E k \in DOMAIN Order : Order[k] = p
    BY DEF Paths, ToSet
<1>2. \A p \in Paths : Rank[p] \in DOMAIN Order /\ Order[Rank[p]] = p
    BY <1>1 DEF Rank
<1>3. \A k \in DOMAIN Order : Order[k] \in Paths
    BY DEF Paths, ToSet
<1>4. \A k \in DOMAIN Order : Rank[Order[k]] = k
    BY <1>2, <1>3, TreeAssumption DEF IsInjective
<1> QED
    BY <1>2, <1>3, <1>4, OrderIsFinite DEF Rank

LEMMA RankInjective == \A p, q \in Paths : Rank[p] = Rank[q] => p = q
BY RankType

LEMMA RankNat == Rank \in [Paths -> Nat]
BY RankType, OrderIsFinite

LEMMA ParentRank == \A p \in Paths : Parent[p] # Root => Parent[p] \in Paths /\ Rank[Parent[p]] < Rank[p]
BY TreeAssumption

\* What holds of a path when it holds of those before it holds of all.
LEMMA Lowest ==
    ASSUME NEW P, P \subseteq Paths, P # {}
    PROVE  \E p \in P : \A q \in P : Rank[p] <= Rank[q]
<1> DEFINE R == {Rank[p] : p \in P}
<1>1. R \subseteq Nat /\ R # {}
    BY RankNat
<1>2. \E n \in R : \A m \in R : n <= m
    <2> HIDE DEF R
    <2> QED BY <1>1, Smallest
<1> QED
    BY <1>2

\* The same from the last to the first.
LEMMA Highest ==
    ASSUME NEW P, P \subseteq Paths, P # {}
    PROVE  \E p \in P : \A q \in P : Rank[q] <= Rank[p]
<1> DEFINE R == {Len(Order) - Rank[p] : p \in P}
<1>1. R \subseteq Nat /\ R # {}
    BY RankType, OrderIsFinite
<1>2. \E n \in R : \A m \in R : n <= m
    <2> HIDE DEF R
    <2> QED BY <1>1, Smallest
<1>3. PICK p \in P : \A m \in R : Len(Order) - Rank[p] <= m
    BY <1>2
<1>4. \A q \in P : Len(Order) - Rank[p] <= Len(Order) - Rank[q]
    BY <1>3
<1> QED
    BY <1>4, RankType, OrderIsFinite

LEMMA AboveIs ==
    \A p \in Paths : Above[p] = IF Parent[p] = Root THEN {} ELSE {Parent[p]} \cup Above[Parent[p]]
<1>1. AboveRec!Local(Paths, Rank)
    BY ParentRank DEF AboveRec!Local, AboveDef
<1>2. \E f : f = [p \in Paths |-> AboveDef(f, p)]
    BY <1>1, RankNat, AboveRec!Recursive, WellOrdered DEF AboveRec!WellOrder
<1>3. Above = [p \in Paths |-> IF Parent[p] = Root THEN {} ELSE {Parent[p]} \cup Above[Parent[p]]]
    BY <1>2 DEF AboveDef, Above
<1> QED
    BY <1>3

\* Above is a partial order, within that of the strings.
LEMMA AboveOrder ==
    \A p \in Paths : \A d \in Above[p] :
        d \in Paths /\ Rank[d] < Rank[p] /\ Above[d] \subseteq Above[p]
<1> DEFINE Good(p) == \A d \in Above[p] : d \in Paths /\ Rank[d] < Rank[p] /\ Above[d] \subseteq Above[p]
           Bad == {p \in Paths : ~Good(p)}
<1>1. SUFFICES ASSUME Bad # {} PROVE FALSE
    OBVIOUS
<1>2. PICK p \in Bad : \A q \in Bad : Rank[p] <= Rank[q]
    <2>1. Bad \subseteq Paths
        OBVIOUS
    <2> HIDE DEF Bad
    <2> QED BY <1>1, <2>1, Lowest
<1>3. CASE Parent[p] = Root
    BY <1>3, AboveIs
<1>4. CASE Parent[p] # Root
    <2>1. Parent[p] \in Paths /\ Rank[Parent[p]] < Rank[p] /\ p \in Paths
        BY <1>4, ParentRank
    <2>2. Good(Parent[p])
        BY <1>2, <2>1, RankNat
    <2>3. Above[p] = {Parent[p]} \cup Above[Parent[p]]
        BY <1>4, <2>1, AboveIs
    <2>4. Good(p)
        BY <2>1, <2>2, <2>3, RankNat
    <2> QED BY <2>4
<1> QED
    BY <1>3, <1>4

LEMMA ParentAbove == \A p \in Paths : Parent[p] # Root => Parent[p] \in Above[p]
BY AboveIs

\* A path and what it is in are below the same directories.
LEMMA AboveParent ==
    \A p \in Paths : \A d \in Above[p] : Parent[p] # Root /\ (d = Parent[p] \/ d \in Above[Parent[p]])
BY AboveIs

-----------------------------------------------------------------------------
(* Lists. *)

\* The ranks of a list of paths go up.
Increasing(list) == \A x, y \in 1..Len(list) : x < y => Rank[list[x]] < Rank[list[y]]

\* The part of Sorted that stands for the first k paths.
IsUpto(u, P) ==
    u = [k \in 0..Len(Order) |->
            IF k = 0 THEN <<>>
            ELSE IF Order[k] \in P THEN Append(u[k - 1], Order[k])
            ELSE u[k - 1]]

LEMMA SortedIs == ASSUME NEW P PROVE \E u : IsUpto(u, P) /\ Sorted(P) = u[Len(Order)]
<1> DEFINE D == {P} \X (0..Len(Order))
           m == [x \in D |-> x[2]]
<1>1. SortedRec!Local(D, m)
    <2> SUFFICES ASSUME NEW x \in D, NEW g, NEW h, \A y \in D : m[y] < m[x] => g[y] = h[y]
                 PROVE  SortedDef(g, x) = SortedDef(h, x)
        BY DEF SortedRec!Local
    <2>1. x[2] # 0 => <<x[1], x[2] - 1>> \in D /\ m[<<x[1], x[2] - 1>>] < m[x]
        BY OrderIsFinite
    <2>2. x[2] # 0 => g[<<x[1], x[2] - 1>>] = h[<<x[1], x[2] - 1>>]
        BY <2>1
    <2> QED BY <2>2 DEF SortedDef
<1>2. m \in [D -> Nat]
    BY OrderIsFinite
<1>3. PICK f : f = [x \in D |-> SortedDef(f, x)]
    <2> HIDE DEF m, D
    <2> QED BY <1>1, <1>2, SortedRec!Recursive, WellOrdered DEF SortedRec!WellOrder
<1> DEFINE u == [k \in 0..Len(Order) |-> f[<<P, k>>]]
<1>4. ASSUME NEW k \in 0..Len(Order)
      PROVE  u[k] = IF k = 0 THEN <<>>
                    ELSE IF Order[k] \in P THEN Append(u[k - 1], Order[k])
                    ELSE u[k - 1]
    <2>1. f[<<P, k>>] = SortedDef(f, <<P, k>>)
        BY <1>3
    <2>2. k # 0 => u[k - 1] = f[<<P, k - 1>>]
        BY OrderIsFinite
    <2> QED BY <2>1, <2>2 DEF SortedDef
<1>5. IsUpto(u, P)
    <2> HIDE DEF u
    <2>1. u = [k \in 0..Len(Order) |-> u[k]]
        BY DEF u
    <2> QED BY <1>4, <2>1 DEF IsUpto
<1>6. \E v : v = [k \in 0..Len(Order) |->
                    IF k = 0 THEN <<>>
                    ELSE IF Order[k] \in P THEN Append(v[k - 1], Order[k])
                    ELSE v[k - 1]]
    BY <1>5 DEF IsUpto
<1> QED
    BY <1>6 DEF Sorted, IsUpto

\* A sorted list holds the paths of the set, each once, in the order.
IsSortedList(list, P) ==
    /\ list \in Seq(P)
    /\ Increasing(list)
    /\ \A p \in P : \E x \in 1..Len(list) : list[x] = p

THEOREM SortedTheorem == ASSUME NEW P, P \subseteq Paths PROVE IsSortedList(Sorted(P), P)
<1>1. PICK u : IsUpto(u, P) /\ Sorted(P) = u[Len(Order)]
    BY SortedIs
<1> DEFINE Good(k) ==
        /\ u[k] \in Seq(P)
        /\ Increasing(u[k])
        /\ \A x \in 1..Len(u[k]) : Rank[u[k][x]] <= k
        /\ \A l \in 1..k : Order[l] \in P => \E x \in 1..Len(u[k]) : u[k][x] = Order[l]
<1>2. u[0] = <<>>
    BY <1>1, OrderIsFinite DEF IsUpto
<1>21. \A k \in 1..Len(Order) :
          u[k] = IF Order[k] \in P THEN Append(u[k - 1], Order[k]) ELSE u[k - 1]
    <2> HIDE DEF Good
    <2> TAKE k \in 1..Len(Order)
    <2>1. k \in 0..Len(Order) /\ k # 0
        BY OrderIsFinite
    <2> QED BY <1>1, <2>1, Zenon DEF IsUpto
<1>3. Good(0)
    BY <1>2 DEF Increasing
<1>4. ASSUME NEW k \in 1..Len(Order), Good(k - 1) PROVE Good(k)
    <2>1. CASE Order[k] \notin P
        <3>1. u[k] = u[k - 1]
            BY <1>21, <2>1
        <3>2. \A p \in P : Rank[p] \in Nat
            BY RankNat
        <3> QED BY <1>4, <2>1, <3>1, <3>2, OrderIsFinite
    <2>2. CASE Order[k] \in P
        <3> DEFINE v == u[k - 1]  w == u[k]
        <3>1. w = Append(v, Order[k])
            BY <1>21, <2>2
        <3>2. v \in Seq(P) /\ Len(v) \in Nat
            BY <1>4
        <3>3. w \in Seq(P) /\ Len(w) = Len(v) + 1
            BY <3>1, <3>2, <2>2
        <3>4. (\A x \in 1..Len(v) : w[x] = v[x]) /\ w[Len(w)] = Order[k]
            BY <3>1, <3>2, <3>3
        <3>5. \A p \in P : Rank[p] \in Nat
            BY RankNat
        <3>6. Rank[Order[k]] = k
            BY RankType
        <3>70. \A x \in 1..Len(v) : Rank[v[x]] <= k - 1 /\ Rank[v[x]] \in Nat
            BY <1>4, <3>2, <3>5
        <3>71. Increasing(v) /\ \A l \in 1..k - 1 : Order[l] \in P => \E x \in 1..Len(v) : v[x] = Order[l]
            BY <1>4
        <3>72. k \in Nat /\ k >= 1
            BY OrderIsFinite
        <3>73. \A x \in 1..Len(w) : x \in 1..Len(v) \/ x = Len(w)
            BY <3>2, <3>3
        <3> HIDE DEF v, w
        <3>7. \A x \in 1..Len(w) : Rank[w[x]] <= k
            BY <3>4, <3>6, <3>70, <3>72, <3>73
        <3>8. Increasing(w)
            <4> SUFFICES ASSUME NEW x \in 1..Len(w), NEW y \in 1..Len(w), x < y
                         PROVE  Rank[w[x]] < Rank[w[y]]
                BY DEF Increasing
            <4>1. x \in 1..Len(v)
                BY <3>2, <3>3, <3>73
            <4>2. CASE y \in 1..Len(v)
                BY <3>4, <3>71, <4>1, <4>2 DEF Increasing
            <4>3. CASE y = Len(w)
                BY <3>4, <3>6, <3>70, <3>72, <4>1, <4>3
            <4> QED BY <3>73, <4>2, <4>3
        <3>9. \A l \in 1..k : Order[l] \in P => \E x \in 1..Len(w) : w[x] = Order[l]
            <4> TAKE l \in 1..k
            <4>1. CASE l = k
                BY <3>2, <3>3, <3>4, <4>1
            <4>2. CASE l # k
                <5>1. l \in 1..k - 1
                    BY <3>72, <4>2
                <5>2. 1..Len(v) \subseteq 1..Len(w)
                    BY <3>2, <3>3
                <5> QED BY <3>4, <3>71, <5>1, <5>2
            <4> QED BY <4>1, <4>2
        <3> USE DEF v, w
        <3> QED BY <3>3, <3>7, <3>8, <3>9
    <2> QED BY <2>1, <2>2
<1> DEFINE Bad == {k \in 0..Len(Order) : ~Good(k)}
<1>5. Bad = {}
    <2>1. SUFFICES ASSUME Bad # {} PROVE FALSE
        OBVIOUS
    <2>2. PICK k \in Bad : \A l \in Bad : k <= l
        <3>1. Bad \subseteq Nat
            BY OrderIsFinite
        <3> HIDE DEF Bad
        <3> QED BY <2>1, <3>1, Smallest
    <2> HIDE DEF Good
    <2>3. k \in 1..Len(Order) /\ k - 1 \notin Bad
        BY <1>3, <2>2, OrderIsFinite
    <2>4. Good(k - 1)
        BY <2>3, OrderIsFinite
    <2> QED BY <1>4, <2>2, <2>3, <2>4
<1>6. Good(Len(Order))
    <2> HIDE DEF Good
    <2> QED BY <1>5, OrderIsFinite
<1>7. \A p \in P : \E x \in 1..Len(Sorted(P)) : Sorted(P)[x] = p
    <2> TAKE p \in P
    <2>1. Rank[p] \in 1..Len(Order) /\ Order[Rank[p]] = p
        BY RankType
    <2> QED BY <1>1, <1>6, <2>1
<1> QED
    BY <1>1, <1>6, <1>7 DEF IsSortedList

LEMMA WalkIs ==
    ASSUME NEW a, NEW b, Len(a) + Len(b) \in Nat
    PROVE  Walk(a, b) = [s \in 0..Len(a) + Len(b) |->
                            IF s = 0 THEN <<1, 1>> ELSE Turn(a, b, Walk(a, b)[s - 1])]
<1> DEFINE n == Len(a) + Len(b)
           D == {a} \X {b} \X (0..n)
           m == [x \in D |-> x[3]]
<1> HIDE DEF n
<1>0. n \in Nat
    BY DEF n
<1>1. WalkRec!Local(D, m)
    <2> SUFFICES ASSUME NEW x \in D, NEW g, NEW h, \A y \in D : m[y] < m[x] => g[y] = h[y]
                 PROVE  WalkDef(g, x) = WalkDef(h, x)
        BY DEF WalkRec!Local
    <2>1. x[3] # 0 => <<x[1], x[2], x[3] - 1>> \in D /\ m[<<x[1], x[2], x[3] - 1>>] < m[x]
        BY <1>0
    <2>2. x[3] # 0 => g[<<x[1], x[2], x[3] - 1>>] = h[<<x[1], x[2], x[3] - 1>>]
        BY <2>1
    <2> QED BY <2>2 DEF WalkDef
<1>2. m \in [D -> Nat]
    BY <1>0
<1>3. PICK f : f = [x \in D |-> WalkDef(f, x)]
    <2> HIDE DEF m, D
    <2> QED BY <1>1, <1>2, WalkRec!Recursive, WellOrdered DEF WalkRec!WellOrder
<1> DEFINE at == [s \in 0..n |-> f[<<a, b, s>>]]
<1>4. ASSUME NEW s \in 0..n
      PROVE  at[s] = IF s = 0 THEN <<1, 1>> ELSE Turn(a, b, at[s - 1])
    <2>1. f[<<a, b, s>>] = WalkDef(f, <<a, b, s>>)
        BY <1>3
    <2>2. s # 0 => at[s - 1] = f[<<a, b, s - 1>>]
        BY <1>0
    <2> QED BY <2>1, <2>2 DEF WalkDef
<1>5. \E w : w = [s \in 0..n |-> IF s = 0 THEN <<1, 1>> ELSE Turn(a, b, w[s - 1])]
    <2>1. at = [s \in 0..n |-> at[s]]
        OBVIOUS
    <2> HIDE DEF at
    <2> QED BY <1>4, <2>1
<1> QED
    BY <1>5 DEF Walk, n

\* The positions stay within the lists, or one past their ends, and one of
\* them goes up in each turn until a list is exhausted.
LEMMA WalkType ==
    ASSUME NEW a \in Seq(Paths), NEW b \in Seq(Paths)
    PROVE  LET at == Walk(a, b) IN
           /\ Len(a) \in Nat /\ Len(b) \in Nat
           /\ DOMAIN at = 0..Len(a) + Len(b)
           /\ at[0] = <<1, 1>>
           /\ \A s \in 1..Len(a) + Len(b) : at[s] = Turn(a, b, at[s - 1])
           /\ \A s \in 0..Len(a) + Len(b) :
                 /\ at[s] \in (1..Len(a) + 1) \X (1..Len(b) + 1)
                 /\ at[s][1] > Len(a) \/ at[s][2] > Len(b) \/ at[s][1] + at[s][2] >= s + 2
<1> DEFINE at == Walk(a, b)
           n == Len(a) + Len(b)
           Fit(s) == /\ at[s] \in (1..Len(a) + 1) \X (1..Len(b) + 1)
                     /\ at[s][1] > Len(a) \/ at[s][2] > Len(b) \/ at[s][1] + at[s][2] >= s + 2
<1>1. Len(a) \in Nat /\ Len(b) \in Nat /\ n \in Nat
    OBVIOUS
<1>2. at = [s \in 0..n |-> IF s = 0 THEN <<1, 1>> ELSE Turn(a, b, at[s - 1])]
    BY <1>1, WalkIs
<1> HIDE DEF at, n
<1>3. DOMAIN at = 0..n /\ at[0] = <<1, 1>> /\ \A s \in 1..n : at[s] = Turn(a, b, at[s - 1])
    <2>1. DOMAIN at = 0..n
        BY <1>2, Zenon
    <2>2. at[0] = <<1, 1>>
        <3>1. 0 \in 0..n
            BY <1>1
        <3> QED BY <1>2, <3>1, Zenon
    <2>3. ASSUME NEW s \in 1..n PROVE at[s] = Turn(a, b, at[s - 1])
        <3>1. s \in 0..n /\ s # 0
            BY <1>1
        <3> QED BY <1>2, <3>1, Zenon
    <2> QED BY <2>1, <2>2, <2>3
<1>4. Fit(0)
    BY <1>1, <1>3
<1>5. ASSUME NEW s \in 1..n, Fit(s - 1) PROVE Fit(s)
    <2> DEFINE m == at[s - 1]
    <2>1. m \in (1..Len(a) + 1) \X (1..Len(b) + 1)
        BY <1>5
    <2>2. m[1] > Len(a) \/ m[2] > Len(b) \/ m[1] + m[2] >= s + 1
        BY <1>1, <1>5
    <2>3. at[s] = Turn(a, b, m)
        BY <1>3
    <2> HIDE DEF m
    <2>4. CASE m[1] > Len(a) \/ m[2] > Len(b)
        BY <2>1, <2>3, <2>4 DEF Turn
    <2>5. CASE ~(m[1] > Len(a) \/ m[2] > Len(b))
        <3>1. m[1] \in 1..Len(a) /\ m[2] \in 1..Len(b)
            BY <1>1, <2>1, <2>5
        <3>2. a[m[1]] \in Paths /\ b[m[2]] \in Paths
            BY <3>1
        <3>3. Rank[a[m[1]]] \in Nat /\ Rank[b[m[2]]] \in Nat
            BY <3>2, RankNat
        <3>4. at[s] = <<IF Rank[a[m[1]]] <= Rank[b[m[2]]] THEN m[1] + 1 ELSE m[1],
                        IF Rank[b[m[2]]] <= Rank[a[m[1]]] THEN m[2] + 1 ELSE m[2]>>
            BY <2>3, <2>5 DEF Turn
        <3>5. at[s] \in {<<m[1] + 1, m[2]>>, <<m[1], m[2] + 1>>, <<m[1] + 1, m[2] + 1>>}
            BY <3>3, <3>4
        <3>6. at[s] \in (1..Len(a) + 1) \X (1..Len(b) + 1)
            <4>1. /\ m[1] \in 1..Len(a) + 1 /\ m[1] + 1 \in 1..Len(a) + 1
                  /\ m[2] \in 1..Len(b) + 1 /\ m[2] + 1 \in 1..Len(b) + 1
                BY <1>1, <3>1
            <4> QED BY <3>5, <4>1
        <3>7. at[s][1] + at[s][2] >= m[1] + m[2] + 1
            BY <3>1, <3>5
        <3>8. at[s][1] + at[s][2] >= s + 2
            BY <1>1, <2>2, <2>5, <3>1, <3>6, <3>7
        <3> QED BY <3>6, <3>8
    <2> QED BY <2>4, <2>5
<1>6. \A s \in 0..n : Fit(s)
    <2> DEFINE P == {s \in 0..n : Fit(s)}
    <2> HIDE DEF Fit
    <2>1. 0 \in P /\ \A s \in 1..n : s - 1 \in P => s \in P
        BY <1>1, <1>4, <1>5
    <2>2. 0..n \subseteq P
        <3> HIDE DEF P
        <3> QED BY <1>1, <2>1, Counting
    <2> QED BY <2>2
<1> QED
    BY <1>1, <1>3, <1>6 DEF at, n

THEOREM MatchesTheorem ==
    ASSUME NEW a \in Seq(Paths), NEW b \in Seq(Paths), NEW m \in Matches(a, b)
    PROVE  m \in (1..Len(a)) \X (1..Len(b)) /\ a[m[1]] = b[m[2]]
<1>1. PICK s \in DOMAIN Walk(a, b) : m = Walk(a, b)[s]
    BY DEF Matches
<1>2. m \in (1..Len(a) + 1) \X (1..Len(b) + 1)
    BY <1>1, WalkType
<1>3. m[1] <= Len(a) /\ m[2] <= Len(b) /\ a[m[1]] = b[m[2]]
    BY DEF Matches, Match
<1> QED
    BY <1>2, <1>3

\* Of two sorted lists, the walk finds every path that is in both.
THEOREM MatchesComplete ==
    ASSUME NEW a \in Seq(Paths), NEW b \in Seq(Paths), Increasing(a), Increasing(b),
           NEW x \in 1..Len(a), NEW y \in 1..Len(b), a[x] = b[y]
    PROVE  \E s \in 1..Len(a) + Len(b) : Walk(a, b)[s - 1] = <<x, y>>
<1> DEFINE at == Walk(a, b)
           n == Len(a) + Len(b)
           Met(s) == (x >= at[s][1] /\ y >= at[s][2]) \/ \E t \in 1..s : at[t - 1] = <<x, y>>
<1>1. /\ Len(a) \in Nat /\ Len(b) \in Nat /\ n \in Nat
      /\ at[0] = <<1, 1>>
      /\ \A s \in 1..n : at[s] = Turn(a, b, at[s - 1])
      /\ \A s \in 0..n : at[s] \in (1..Len(a) + 1) \X (1..Len(b) + 1)
      /\ \A s \in 0..n : at[s][1] > Len(a) \/ at[s][2] > Len(b) \/ at[s][1] + at[s][2] >= s + 2
    BY WalkType
<1> HIDE DEF at, n
<1>2. Met(0)
    BY <1>1
<1>3. ASSUME NEW s \in 1..n, Met(s - 1) PROVE Met(s)
    <2> DEFINE m == at[s - 1]
    <2>1. m \in (1..Len(a) + 1) \X (1..Len(b) + 1) /\ at[s] = Turn(a, b, m)
        BY <1>1
    <2>2. CASE \E t \in 1..s - 1 : at[t - 1] = <<x, y>>
        BY <1>1, <2>2
    <2>3. CASE x >= m[1] /\ y >= m[2]
        <3>1. m[1] \in 1..Len(a) /\ m[2] \in 1..Len(b)
            BY <1>1, <2>1, <2>3
        <3>20. a[m[1]] \in Paths /\ b[m[2]] \in Paths /\ a[x] \in Paths
            <4> HIDE DEF m
            <4> QED BY <3>1
        <3>2. /\ Rank[a[m[1]]] \in Nat /\ Rank[b[m[2]]] \in Nat
              /\ Rank[a[x]] \in Nat /\ Rank[a[x]] = Rank[b[y]]
            BY <3>20, RankNat
        <3>3. x # m[1] => Rank[a[m[1]]] < Rank[a[x]]
            <4> HIDE DEF m
            <4>1. x # m[1] => m[1] < x
                BY <2>3, <3>1
            <4> QED BY <3>1, <4>1 DEF Increasing
        <3>4. y # m[2] => Rank[b[m[2]]] < Rank[b[y]]
            <4> HIDE DEF m
            <4>1. y # m[2] => m[2] < y
                BY <2>3, <3>1
            <4> QED BY <3>1, <4>1 DEF Increasing
        <3>5. CASE x = m[1] /\ y = m[2]
            <4>1. m = <<x, y>> /\ s \in 1..s
                BY <2>1, <3>5
            <4> QED BY <4>1
        <3>6. CASE x # m[1] \/ y # m[2]
            <4>1. at[s] = <<IF Rank[a[m[1]]] <= Rank[b[m[2]]] THEN m[1] + 1 ELSE m[1],
                            IF Rank[b[m[2]]] <= Rank[a[m[1]]] THEN m[2] + 1 ELSE m[2]>>
                BY <1>1, <2>1, <3>1 DEF Turn
            <4> HIDE DEF m
            <4>2. CASE Rank[a[m[1]]] < Rank[b[m[2]]]
                <5>1. x # m[1]
                    BY <3>2, <3>4, <4>2
                <5>2. at[s][1] = m[1] + 1 /\ at[s][2] = m[2]
                    BY <3>2, <4>1, <4>2
                <5> QED BY <2>3, <3>1, <5>1, <5>2
            <4>3. CASE Rank[a[m[1]]] > Rank[b[m[2]]]
                <5>1. y # m[2]
                    BY <3>2, <3>3, <4>3
                <5>2. at[s][1] = m[1] /\ at[s][2] = m[2] + 1
                    BY <3>2, <4>1, <4>3
                <5> QED BY <2>3, <3>1, <5>1, <5>2
            <4>4. CASE Rank[a[m[1]]] = Rank[b[m[2]]]
                <5>1. x # m[1] /\ y # m[2]
                    BY <3>2, <3>3, <3>4, <3>6, <4>4
                <5>2. at[s][1] = m[1] + 1 /\ at[s][2] = m[2] + 1
                    BY <3>2, <4>1, <4>4
                <5> QED BY <2>3, <3>1, <5>1, <5>2
            <4> QED BY <3>2, <4>2, <4>3, <4>4
        <3> QED BY <3>5, <3>6
    <2> QED BY <1>3, <2>2, <2>3
<1>4. \A s \in 0..n : Met(s)
    <2> DEFINE P == {s \in 0..n : Met(s)}
    <2> HIDE DEF Met
    <2>1. 0 \in P /\ \A s \in 1..n : s - 1 \in P => s \in P
        BY <1>1, <1>2, <1>3
    <2>2. 0..n \subseteq P
        <3> HIDE DEF P
        <3> QED BY <1>1, <2>1, Counting
    <2> QED BY <2>2
<1>5. at[n][1] > Len(a) \/ at[n][2] > Len(b)
    BY <1>1 DEF n
<1>6. ~(x >= at[n][1] /\ y >= at[n][2])
    BY <1>1, <1>5
<1>7. n \in 0..n
    BY <1>1
<1>8. \E t \in 1..n : at[t - 1] = <<x, y>>
    BY <1>4, <1>6, <1>7
<1> QED
    BY <1>8 DEF at, n

-----------------------------------------------------------------------------
(* Trees and workspaces. *)

LEMMA LinesIs ==
    ASSUME NEW root
    PROVE  Lines(root) = [p \in Paths |-> LineOf(root, Lines(root), p)]
<1> DEFINE D == {root} \X Paths
           m == [x \in D |-> Rank[x[2]]]
<1>1. LinesRec!Local(D, m)
    <2> SUFFICES ASSUME NEW x \in D, NEW g, NEW h, \A y \in D : m[y] < m[x] => g[y] = h[y]
                 PROVE  LinesDef(g, x) = LinesDef(h, x)
        BY DEF LinesRec!Local
    <2> DEFINE v == [q \in Paths |-> g[<<x[1], q>>]]
               w == [q \in Paths |-> h[<<x[1], q>>]]
    <2>1. Parent[x[2]] # Root => v[Parent[x[2]]] = w[Parent[x[2]]]
        BY ParentRank
    <2>2. LineOf(x[1], v, x[2]) = LineOf(x[1], w, x[2])
        <3> HIDE DEF v, w
        <3> QED BY <2>1 DEF LineOf
    <2> QED BY <2>2 DEF LinesDef
<1>2. m \in [D -> Nat]
    BY RankNat
<1>3. PICK f : f = [x \in D |-> LinesDef(f, x)]
    <2> HIDE DEF m, D
    <2> QED BY <1>1, <1>2, LinesRec!Recursive, WellOrdered DEF LinesRec!WellOrder
<1> DEFINE line == [p \in Paths |-> f[<<root, p>>]]
<1>4. line = [p \in Paths |-> LineOf(root, line, p)]
    <2>1. \A p \in Paths : f[<<root, p>>] = LinesDef(f, <<root, p>>)
        BY <1>3
    <2> QED BY <2>1 DEF LinesDef
<1>5. \E l : l = [p \in Paths |-> LineOf(root, l, p)]
    <2> HIDE DEF line
    <2> QED BY <1>4
<1> QED
    BY <1>5 DEF Lines

LEMMA HashesIs ==
    ASSUME NEW disk, NEW list, DOMAIN disk \subseteq Paths
    PROVE  Hashes(disk, list) =
               [p \in Paths \cup {Root} |-> HashOf(disk, list, Hashes(disk, list), p)]
<1> DEFINE D == {disk} \X {list} \X (Paths \cup {Root})
           below(p) == IF p = Root THEN Len(Order) + 1 ELSE Len(Order) - Rank[p]
           m == [x \in D |-> below(x[3])]
<1>0. /\ \A p \in Paths \cup {Root} : below(p) \in Nat
      /\ \A p \in Paths : below(p) < below(Parent[p])
    BY RankType, OrderIsFinite, TreeAssumption
<1> HIDE DEF below
<1>1. HashesRec!Local(D, m)
    <2> SUFFICES ASSUME NEW x \in D, NEW g, NEW h, \A y \in D : m[y] < m[x] => g[y] = h[y]
                 PROVE  HashesDef(g, x) = HashesDef(h, x)
        BY DEF HashesRec!Local
    <2> DEFINE v == [q \in Paths \cup {Root} |-> g[<<x[1], x[2], q>>]]
               w == [q \in Paths \cup {Root} |-> h[<<x[1], x[2], q>>]]
    <2>1. x[3] \in Paths \cup {Root} /\ x[1] = disk /\ x[2] = list
        OBVIOUS
    <2>2. ASSUME NEW q \in Paths, Parent[q] = x[3] PROVE v[q] = w[q]
        <3>1. <<x[1], x[2], q>> \in D /\ m[<<x[1], x[2], q>>] < m[x]
            BY <1>0, <2>1, <2>2
        <3>2. g[<<x[1], x[2], q>>] = h[<<x[1], x[2], q>>]
            BY <3>1
        <3> QED BY <3>2
    <2>3. DirHash(disk, list, v, x[3]) = DirHash(disk, list, w, x[3])
        <3> DEFINE Q == {q \in Listed(disk, list) : Parent[q] = x[3]}
        <3> HIDE DEF v, w
        <3>1. \A q \in Q : v[q] = w[q]
            BY <2>2 DEF Listed
        <3> HIDE DEF Q
        <3>2. {Line(Node(q, disk[q], v[q])) : q \in Q} = {Line(Node(q, disk[q], w[q])) : q \in Q}
            BY <3>1
        <3> QED BY <3>2 DEF DirHash, Q
    <2>4. HashOf(disk, list, v, x[3]) = HashOf(disk, list, w, x[3])
        <3> HIDE DEF v, w
        <3> QED BY <2>3 DEF HashOf
    <2> QED BY <2>1, <2>4 DEF HashesDef
<1>2. m \in [D -> Nat]
    BY <1>0
<1>3. PICK f : f = [x \in D |-> HashesDef(f, x)]
    <2> HIDE DEF m, D
    <2> QED BY <1>1, <1>2, HashesRec!Recursive, WellOrdered DEF HashesRec!WellOrder
<1> DEFINE hash == [p \in Paths \cup {Root} |-> f[<<disk, list, p>>]]
<1>4. hash = [p \in Paths \cup {Root} |-> HashOf(disk, list, hash, p)]
    <2>1. \A p \in Paths \cup {Root} : f[<<disk, list, p>>] = HashesDef(f, <<disk, list, p>>)
        BY <1>3
    <2> QED BY <2>1 DEF HashesDef
<1>5. \E l : l = [p \in Paths \cup {Root} |-> HashOf(disk, list, l, p)]
    <2> HIDE DEF hash
    <2> QED BY <1>4
<1> QED
    BY <1>5 DEF Hashes

\* A list that is made of another, position by position.
LEMMA MappedList ==
    ASSUME NEW P, NEW list \in Seq(P), NEW new, DOMAIN new = DOMAIN list,
           new = [x \in DOMAIN new |-> new[x]]
    PROVE  new \in Seq(ToSet(new)) /\ Len(new) = Len(list) /\ DOMAIN new = 1..Len(list)
<1>1. DOMAIN new = 1..Len(list) /\ Len(list) \in Nat
    OBVIOUS
<1>2. \A x \in 1..Len(list) : new[x] \in ToSet(new)
    BY <1>1 DEF ToSet
<1>3. new \in [1..Len(list) -> ToSet(new)]
    BY <1>1, <1>2
<1>4. new \in Seq(ToSet(new))
    BY <1>1, <1>3
<1> QED
    BY <1>1, <1>4

\* A list of nodes.
IsList(nodes) == nodes \in Seq(ToSet(nodes)) /\ \A x \in 1..Len(nodes) : nodes[x].path \in Paths

LEMMA PathsOfList ==
    ASSUME NEW nodes, IsList(nodes)
    PROVE  /\ PathsOf(nodes) \in Seq(Paths)
           /\ Len(PathsOf(nodes)) = Len(nodes) /\ Len(nodes) \in Nat
           /\ DOMAIN nodes = 1..Len(nodes)
           /\ \A x \in 1..Len(nodes) : PathsOf(nodes)[x] = nodes[x].path
<1>1. DOMAIN nodes = 1..Len(nodes) /\ Len(nodes) \in Nat
    BY DEF IsList
<1>2. PathsOf(nodes) = [x \in 1..Len(nodes) |-> nodes[x].path]
    BY <1>1 DEF PathsOf
<1> QED
    BY <1>1, <1>2 DEF IsList

\* The line of a tree for a path, if it has one.
LEMMA LineInIs ==
    ASSUME NEW t, NEW p \in Paths
    PROVE  \/ LineIn(t, p) = NoLine /\ ~\E l \in t : Len(l) = 5 /\ l[1] = Name[p]
           \/ LineIn(t, p) \in t /\ Len(LineIn(t, p)) = 5 /\ LineIn(t, p)[1] = Name[p]
BY DEF LineIn

ListedIn(root) == {p \in Paths : Lines(root)[p] # NoLine}

LEMMA ListingIs ==
    ASSUME NEW root
    PROVE  /\ IsList(Listing(root))
           /\ PathsOf(Listing(root)) = Sorted(ListedIn(root))
           /\ \A x \in 1..Len(Listing(root)) :
                 LET p == Sorted(ListedIn(root))[x]
                     line == Lines(root)[p]
                 IN  /\ p \in ListedIn(root)
                     /\ Listing(root)[x] = [path |-> p, type |-> line[2], mode |-> line[3],
                                            target |-> line[4], hash |-> line[5], time |-> 0]
<1> DEFINE list == Sorted(ListedIn(root))
           line == Lines(root)
           new == Listing(root)
<1>1. list \in Seq(ListedIn(root))
    BY SortedTheorem DEF IsSortedList, ListedIn
<1>2. new = [x \in DOMAIN list |->
                [path |-> list[x], type |-> line[list[x]][2], mode |-> line[list[x]][3],
                 target |-> line[list[x]][4], hash |-> line[list[x]][5], time |-> 0]]
    BY DEF Listing, ListedIn
<1> HIDE DEF list, line, new
<1>3. new \in Seq(ToSet(new)) /\ Len(new) = Len(list) /\ DOMAIN new = 1..Len(list)
    BY <1>1, <1>2, MappedList
<1>4. DOMAIN list = 1..Len(list) /\ \A x \in 1..Len(list) : list[x] \in ListedIn(root)
    BY <1>1
<1>5. \A x \in 1..Len(list) :
         new[x] = [path |-> list[x], type |-> line[list[x]][2], mode |-> line[list[x]][3],
                   target |-> line[list[x]][4], hash |-> line[list[x]][5], time |-> 0]
    BY <1>2, <1>4
<1>6. \A x \in 1..Len(list) : new[x].path = list[x] /\ list[x] \in Paths
    <2>1. ListedIn(root) \subseteq Paths
        BY DEF ListedIn
    <2>2. ASSUME NEW x \in 1..Len(list) PROVE new[x].path = list[x]
        <3> DEFINE r == [path |-> list[x], type |-> line[list[x]][2], mode |-> line[list[x]][3],
                         target |-> line[list[x]][4], hash |-> line[list[x]][5], time |-> 0]
        <3>1. new[x] = r
            BY <1>5, Zenon
        <3>2. r.path = list[x]
            OBVIOUS
        <3> HIDE DEF r
        <3> QED BY <3>1, <3>2
    <2> QED BY <1>4, <2>1, <2>2
<1>7. IsList(new)
    BY <1>3, <1>6 DEF IsList
<1>8. PathsOf(new) = list
    <2>1. PathsOf(new) = [x \in 1..Len(list) |-> new[x].path]
        BY <1>3 DEF PathsOf
    <2>2. list = [x \in 1..Len(list) |-> list[x]]
        BY <1>1, <1>4
    <2> QED BY <1>6, <2>1, <2>2
<1> QED
    BY <1>3, <1>4, <1>5, <1>7, <1>8 DEF list, line, new

\* A set of digests in which the lines of every tree lead to digests of the
\* set, those of files to digests of files.
IsEntryOf(G, type, h) ==
    /\ h \in G
    /\ type \in {"file", "dir", "link"}
    /\ type = "file" => \E c : h = FileHash(c)

IsCache(G) ==
    /\ NoHash \in G
    /\ \A h \in G : \A l \in h : Len(l) = 5 => IsEntryOf(G, l[2], l[5])

LEMMA LinesOfCache ==
    ASSUME NEW G, IsCache(G), NEW root \in G
    PROVE  \A p \in ListedIn(root) : IsEntryOf(G, Lines(root)[p][2], Lines(root)[p][5])
<1> DEFINE Good(l) == IsEntryOf(G, l[2], l[5])
           Bad == {p \in Paths : ~(Lines(root)[p] = NoLine \/ Good(Lines(root)[p]))}
<1>1. Bad = {}
    <2>1. SUFFICES ASSUME Bad # {} PROVE FALSE
        OBVIOUS
    <2>2. PICK p \in Bad : \A q \in Bad : Rank[p] <= Rank[q]
        <3>1. Bad \subseteq Paths
            OBVIOUS
        <3> HIDE DEF Bad
        <3> QED BY <2>1, <3>1, Lowest
    <2> DEFINE t == IF Parent[p] = Root THEN root ELSE Lines(root)[Parent[p]][5]
    <2>3. Lines(root)[p] = LineIn(t, p)
        BY <2>2, LinesIs DEF LineOf
    <2>4. t \in G
        <3>1. CASE Parent[p] = Root
            BY <3>1
        <3>2. CASE Parent[p] # Root
            <4>1. Parent[p] \in Paths /\ Rank[Parent[p]] < Rank[p]
                BY <2>2, <3>2, ParentRank
            <4>2. Parent[p] \notin Bad
                BY <2>2, <4>1, RankNat
            <4>3. NoLine[5] \in G
                BY DEF NoLine, IsCache
            <4> QED BY <3>2, <4>1, <4>2, <4>3 DEF IsEntryOf
        <3> QED BY <3>1, <3>2
    <2> HIDE DEF t
    <2>5. LineIn(t, p) = NoLine \/ Good(LineIn(t, p))
        BY <2>2, <2>4, LineInIs DEF IsCache
    <2> QED BY <2>2, <2>3, <2>5
<1> QED
    BY <1>1 DEF ListedIn

\* A file, and a directory of what the set has, can be added to it.
LEMMA AddedFile ==
    ASSUME NEW G, IsCache(G), NEW c
    PROVE  IsCache(G \cup {FileHash(c)})
<1>1. \A l \in FileHash(c) : Len(l) # 5
    BY DEF FileHash
<1> QED
    BY <1>1 DEF IsCache, IsEntryOf

LEMMA AddedTree ==
    ASSUME NEW G, IsCache(G), NEW N, \A n \in N : IsEntryOf(G, n.type, n.hash)
    PROVE  IsCache(G \cup {TreeHash({Line(n) : n \in N})})
<1>1. Len(<<"tree">>) # 5
    OBVIOUS
<1>2. \A n : Len(Line(n)) = 5 /\ Line(n)[5] = n.hash /\ Line(n)[2] = n.type
    BY DEF Line
<1>3. \A l \in TreeHash({Line(n) : n \in N}) : l = <<"tree">> \/ \E n \in N : l = Line(n)
    BY DEF TreeHash
<1> HIDE DEF Line
<1>4. \A l \in TreeHash({Line(n) : n \in N}) :
          Len(l) = 5 => IsEntryOf(G, l[2], l[5])
    BY <1>1, <1>2, <1>3
<1> QED
    BY <1>4 DEF IsCache, IsEntryOf

\* The digests of a workspace, with those of some cache, are a cache.
LEMMA HashesOfCache ==
    ASSUME NEW G, IsCache(G), NEW disk, NEW list, DOMAIN disk \subseteq Paths,
           \A p \in DOMAIN disk : disk[p].type \in {"file", "dir", "link"}
    PROVE  IsCache(G \cup {Hashes(disk, list)[p] : p \in DOMAIN disk \cup {Root}})
<1> DEFINE hash == Hashes(disk, list)
           K == G \cup {hash[p] : p \in DOMAIN disk \cup {Root}}
<1>1. \A p \in DOMAIN disk \cup {Root} : hash[p] = HashOf(disk, list, hash, p)
    BY HashesIs
<1> HIDE DEF hash
<1>2. Root \notin Paths
    BY TreeAssumption
<1>3. \A p \in DOMAIN disk : disk[p].type = "file" => hash[p] = FileHash(disk[p].data)
    BY <1>1, <1>2 DEF HashOf
<1>4. ASSUME NEW h \in K, NEW l \in h, Len(l) = 5
      PROVE  IsEntryOf(K, l[2], l[5])
    <2>1. CASE h \in G
        BY <1>4, <2>1 DEF IsCache, IsEntryOf
    <2>2. ASSUME NEW p \in DOMAIN disk \cup {Root}, h = hash[p]
          PROVE  IsEntryOf(K, l[2], l[5])
        <3>1. CASE p # Root /\ disk[p].type = "file"
            <4>1. h = FileHash(disk[p].data)
                BY <1>1, <2>2, <3>1 DEF HashOf
            <4> QED BY <1>4, <4>1 DEF FileHash
        <3>2. CASE p # Root /\ disk[p].type = "link"
            <4>1. h = NoHash
                BY <1>1, <2>2, <3>2 DEF HashOf
            <4> QED BY <1>4, <4>1 DEF NoHash
        <3>3. CASE ~(p # Root /\ disk[p].type = "file") /\ ~(p # Root /\ disk[p].type = "link")
            <4>1. h = DirHash(disk, list, hash, p)
                BY <1>1, <2>2, <3>3, Zenon DEF HashOf
            <4>2. PICK q \in Listed(disk, list) : l = Line(Node(q, disk[q], hash[q]))
                <5>1. l # <<"tree">>
                    BY <1>4
                <5> QED BY <4>1, <5>1 DEF DirHash, TreeHash
            <4>3. l[5] = hash[q] /\ l[2] = disk[q].type
                BY <4>2 DEF Line, Node
            <4>4. q \in DOMAIN disk
                BY DEF Listed
            <4> QED BY <1>3, <4>3, <4>4 DEF IsEntryOf
        <3> QED BY <3>1, <3>2, <3>3
    <2> QED BY <2>1, <2>2
<1>5. NoHash \in K
    BY DEF IsCache
<1> QED
    <2> HIDE DEF K
    <2>1. IsCache(K)
        BY <1>4, <1>5 DEF IsCache
    <2> QED BY <2>1 DEF K, hash

LEMMA UnionOfCaches ==
    ASSUME NEW C, C # {}, \A G \in C : IsCache(G)
    PROVE  IsCache(UNION C)
<1>1. NoHash \in UNION C
    BY DEF IsCache
<1>2. ASSUME NEW h \in UNION C, NEW l \in h, Len(l) = 5 PROVE IsEntryOf(UNION C, l[2], l[5])
    <2>1. PICK G \in C : h \in G
        OBVIOUS
    <2>2. IsEntryOf(G, l[2], l[5])
        BY <1>2, <2>1 DEF IsCache
    <2> QED BY <2>1, <2>2 DEF IsEntryOf
<1> QED
    BY <1>1, <1>2 DEF IsCache

\* The index of a workspace.
LEMMA IndexOfIs ==
    ASSUME NEW disk, NEW list, DOMAIN disk \subseteq Paths
    PROVE  /\ IsList(IndexOf(disk, list))
           /\ PathsOf(IndexOf(disk, list)) = Sorted(Listed(disk, list))
           /\ \A x \in 1..Len(IndexOf(disk, list)) :
                 LET p == Sorted(Listed(disk, list))[x]
                 IN  /\ p \in Listed(disk, list)
                     /\ IndexOf(disk, list)[x] = Node(p, disk[p], Hashes(disk, list)[p])
<1> DEFINE found == Sorted(Listed(disk, list))
           hash == Hashes(disk, list)
           new == IndexOf(disk, list)
<1>1. found \in Seq(Listed(disk, list)) /\ Listed(disk, list) \subseteq Paths
    BY SortedTheorem DEF IsSortedList, Listed
<1>2. new = [x \in DOMAIN found |-> Node(found[x], disk[found[x]], hash[found[x]])]
    BY DEF IndexOf
<1> HIDE DEF found, hash, new
<1>3. new \in Seq(ToSet(new)) /\ Len(new) = Len(found) /\ DOMAIN new = 1..Len(found)
    BY <1>1, <1>2, MappedList
<1>4. DOMAIN found = 1..Len(found) /\ \A x \in 1..Len(found) : found[x] \in Listed(disk, list)
    BY <1>1
<1>5. \A x \in 1..Len(found) : new[x] = Node(found[x], disk[found[x]], hash[found[x]])
    BY <1>2, <1>4
<1>6. \A x \in 1..Len(found) : new[x].path = found[x] /\ found[x] \in Paths
    <2> TAKE x \in 1..Len(found)
    <2>1. new[x] = Node(found[x], disk[found[x]], hash[found[x]]) /\ found[x] \in Paths
        BY <1>1, <1>4, <1>5
    <2>2. Node(found[x], disk[found[x]], hash[found[x]]).path = found[x]
        BY DEF Node
    <2> QED BY <2>1, <2>2
<1>7. IsList(new)
    BY <1>3, <1>6 DEF IsList
<1>8. PathsOf(new) = found
    <2>1. PathsOf(new) = [x \in 1..Len(found) |-> new[x].path]
        BY <1>3 DEF PathsOf
    <2>2. found = [x \in 1..Len(found) |-> found[x]]
        BY <1>1, <1>4
    <2> QED BY <1>6, <2>1, <2>2
<1> QED
    BY <1>3, <1>4, <1>5, <1>7, <1>8 DEF found, hash, new

\* Of two directories that a path is below, one is below the other.
LEMMA AboveChain ==
    \A p \in Paths : \A a, b \in Above[p] : a = b \/ a \in Above[b] \/ b \in Above[a]
<1> DEFINE Good(p) == \A a, b \in Above[p] : a = b \/ a \in Above[b] \/ b \in Above[a]
           Bad == {p \in Paths : ~Good(p)}
<1>1. SUFFICES ASSUME Bad # {} PROVE FALSE
    OBVIOUS
<1>2. PICK p \in Bad : \A q \in Bad : Rank[p] <= Rank[q]
    <2>1. Bad \subseteq Paths
        OBVIOUS
    <2> HIDE DEF Bad
    <2> QED BY <1>1, <2>1, Lowest
<1>3. CASE Parent[p] = Root
    BY <1>3, AboveIs
<1>4. CASE Parent[p] # Root
    <2>1. Parent[p] \in Paths /\ Rank[Parent[p]] < Rank[p] /\ p \in Paths
        BY <1>4, ParentRank
    <2>2. Good(Parent[p])
        BY <1>2, <2>1, RankNat
    <2>3. Above[p] = {Parent[p]} \cup Above[Parent[p]]
        BY <1>4, <2>1, AboveIs
    <2>4. Good(p)
        BY <2>2, <2>3
    <2> QED BY <2>4
<1> QED
    BY <1>3, <1>4

-----------------------------------------------------------------------------
(* The shape of a list, and what is in a directory of it. *)

\* The paths that no pattern leaves out.
Seen(ig) == {p \in Paths : ({p} \cup Above[p]) \cap ig = {}}

Ordered(list) == \A x, y \in 1..Len(list) : x < y => Rank[list[x].path] < Rank[list[y].path]

Dirs(list) == {x \in 1..Len(list) : list[x].type = "dir"}
Within(list, d) == {x \in 1..Len(list) : Parent[list[x].path] = d}
Kids(list, d) == {list[x].path : x \in Within(list, d)}
TreeOf(list, d) == TreeHash({Line(list[x]) : x \in Within(list, d)})

\* The paths in d for which a tree has a line.
Held(h, d) == {q \in Paths : Parent[q] = d /\ LineIn(h, q) # NoLine}

\* The directory of every node is one of the list.
Shaped(list, ig) ==
    /\ Ordered(list)
    /\ \A x \in 1..Len(list) :
          /\ list[x].path \in Seen(ig)
          /\ Parent[list[x].path] = Root \/ \E y \in Dirs(list) : list[y].path = Parent[list[x].path]

LEMMA SeenParent ==
    ASSUME NEW ig, NEW p \in Paths
    PROVE  /\ p \in Seen(ig) /\ Parent[p] # Root => Parent[p] \in Seen(ig)
           /\ p \notin ig /\ (Parent[p] = Root \/ Parent[p] \in Seen(ig)) => p \in Seen(ig)
<1>1. CASE Parent[p] = Root
    BY <1>1, AboveIs DEF Seen
<1>2. CASE Parent[p] # Root
    <2>1. Parent[p] \in Paths /\ Above[p] = {Parent[p]} \cup Above[Parent[p]]
        BY <1>2, ParentRank, AboveIs
    <2> QED BY <1>2, <2>1 DEF Seen
<1> QED
    BY <1>1, <1>2

LEMMA OrderedIs ==
    ASSUME NEW list, IsList(list)
    PROVE  /\ Len(list) \in Nat /\ DOMAIN list = 1..Len(list)
           /\ Ordered(list) <=> Increasing(PathsOf(list))
           /\ Ordered(list) => \A x, y \in 1..Len(list) : list[x].path = list[y].path => x = y
<1>1. /\ PathsOf(list) \in Seq(Paths) /\ Len(PathsOf(list)) = Len(list) /\ Len(list) \in Nat
      /\ DOMAIN list = 1..Len(list)
      /\ \A x \in 1..Len(list) : PathsOf(list)[x] = list[x].path
    BY PathsOfList
<1>2. Ordered(list) <=> Increasing(PathsOf(list))
    BY <1>1 DEF Ordered, Increasing
<1>3. ASSUME Ordered(list), NEW x \in 1..Len(list), NEW y \in 1..Len(list), list[x].path = list[y].path
      PROVE  x = y
    <2>1. list[x].path \in Paths /\ list[y].path \in Paths
        BY DEF IsList
    <2>2. Rank[list[x].path] \in Nat /\ Rank[list[y].path] \in Nat
        BY <2>1, RankNat
    <2>3. ~(x < y) /\ ~(y < x)
        BY <1>3, <2>2 DEF Ordered
    <2> QED BY <1>1, <2>3
<1> QED
    BY <1>1, <1>2, <1>3

\* What create_dirtree writes.
LEMMA ChildrenLines ==
    ASSUME NEW list, IsList(list), NEW d
    PROVE  TreeHash({Line(n) : n \in ChildrenOf(list, d)}) = TreeOf(list, d)
<1>1. DOMAIN list = 1..Len(list)
    BY PathsOfList
<1>2. {Line(n) : n \in ChildrenOf(list, d)} = {Line(list[x]) : x \in Within(list, d)}
    BY <1>1 DEF ChildrenOf, Within, ToSet
<1> QED
    BY <1>2 DEF TreeOf

\* Two lists with the same lines.
SameLines(a, b) ==
    /\ Len(b) = Len(a)
    /\ \A x \in 1..Len(a) :
          /\ b[x].path = a[x].path /\ b[x].type = a[x].type /\ b[x].mode = a[x].mode
          /\ b[x].target = a[x].target /\ b[x].hash = a[x].hash

LEMMA SameLinesIs ==
    ASSUME NEW a, NEW b, SameLines(a, b)
    PROVE  /\ Dirs(b) = Dirs(a)
           /\ \A d : Within(b, d) = Within(a, d) /\ Kids(b, d) = Kids(a, d) /\ TreeOf(b, d) = TreeOf(a, d)
           /\ \A ig : Shaped(a, ig) => Shaped(b, ig)
<1>1. Dirs(b) = Dirs(a)
    BY DEF Dirs, SameLines
<1>2. ASSUME NEW d
      PROVE  Within(b, d) = Within(a, d) /\ Kids(b, d) = Kids(a, d) /\ TreeOf(b, d) = TreeOf(a, d)
    <2>1. Within(b, d) = Within(a, d)
        BY DEF Within, SameLines
    <2>2. \A x \in Within(a, d) : b[x].path = a[x].path /\ Line(b[x]) = Line(a[x])
        BY DEF SameLines, Line, Within
    <2> QED BY <2>1, <2>2 DEF Kids, TreeOf
<1>3. ASSUME NEW ig, Shaped(a, ig) PROVE Shaped(b, ig)
    <2>1. Ordered(b)
        BY <1>3 DEF Shaped, Ordered, SameLines
    <2>2. ASSUME NEW x \in 1..Len(b)
          PROVE  /\ b[x].path \in Seen(ig)
                 /\ Parent[b[x].path] = Root \/ \E y \in Dirs(b) : b[y].path = Parent[b[x].path]
        <3>1. x \in 1..Len(a) /\ b[x].path = a[x].path /\ \A y \in Dirs(a) : b[y].path = a[y].path
            BY DEF SameLines, Dirs
        <3> QED BY <1>1, <1>3, <3>1 DEF Shaped
    <2> QED BY <2>1, <2>2 DEF Shaped
<1> QED
    BY <1>1, <1>2, <1>3

Typed(list) == \A x \in 1..Len(list) : list[x].type \in {"file", "dir", "link"}

\* A list that has each path once.
Single(list) == \A x, y \in 1..Len(list) : list[x].path = list[y].path => x = y

\* The lines of the tree of a directory are those of its nodes.
IsTreeOf(h, list, d) ==
    /\ h # NoHash
    /\ Held(h, d) = Kids(list, d)
    /\ \A x \in Within(list, d) : LineIn(h, list[x].path) = Line(list[x])
    /\ h = TreeHash({LineIn(h, q) : q \in Held(h, d)})

LEMMA SingleLines ==
    ASSUME NEW list, IsList(list), Single(list), Typed(list), NEW d
    PROVE  IsTreeOf(TreeOf(list, d), list, d)
<1> DEFINE h == TreeOf(list, d)
<1>0. \A x \in 1..Len(list) : list[x].type \in {"file", "dir", "link"}
    BY DEF Typed
<1>1. \A x \in 1..Len(list) : list[x].path \in Paths
    BY DEF IsList
<1>2. \A n : Len(Line(n)) = 5 /\ Line(n)[1] = Name[n.path] /\ Line(n)[2] = n.type
    BY DEF Line
<1>3. \A l \in h : l = <<"tree">> \/ \E x \in Within(list, d) : l = Line(list[x])
    BY DEF TreeOf, TreeHash
<1>4. \A x \in Within(list, d) : Line(list[x]) \in h
    BY DEF TreeOf, TreeHash
<1>5. <<"tree">> \in h /\ Len(<<"tree">>) # 5
    BY DEF TreeOf, TreeHash
<1> HIDE DEF h
<1>6. ASSUME NEW l \in h, Len(l) = 5, NEW q \in Paths, Parent[q] = d, l[1] = Name[q]
      PROVE  \E x \in Within(list, d) : l = Line(list[x]) /\ list[x].path = q
    <2>1. PICK x \in Within(list, d) : l = Line(list[x])
        BY <1>3, <1>5, <1>6
    <2>2. Name[list[x].path] = Name[q] /\ Parent[list[x].path] = d /\ list[x].path \in Paths
        BY <1>1, <1>2, <1>6, <2>1 DEF Within
    <2>3. list[x].path = q
        BY <1>6, <2>2, TreeAssumption
    <2> QED BY <2>1, <2>3
<1>7. ASSUME NEW x \in Within(list, d)
      PROVE  LineIn(h, list[x].path) = Line(list[x])
    <2>1. x \in 1..Len(list) /\ Parent[list[x].path] = d /\ list[x].path \in Paths
        BY <1>1 DEF Within
    <2>2. Line(list[x]) \in h /\ Len(Line(list[x])) = 5 /\ Line(list[x])[1] = Name[list[x].path]
        BY <1>2, <1>4
    <2> DEFINE l == LineIn(h, list[x].path)
    <2>3. l \in h /\ Len(l) = 5 /\ l[1] = Name[list[x].path]
        BY <2>1, <2>2, LineInIs
    <2> HIDE DEF l
    <2>4. PICK y \in Within(list, d) : l = Line(list[y]) /\ list[y].path = list[x].path
        BY <1>6, <2>1, <2>3
    <2>5. y = x
        BY <2>1, <2>4 DEF Within, Single
    <2> QED BY <2>4, <2>5 DEF l
<1>8. \A x \in Within(list, d) : Line(list[x]) # NoLine
    <2>1. NoLine[2] = "none"
        BY DEF NoLine
    <2> QED BY <1>0, <1>2, <2>1 DEF Within
<1>9. Held(h, d) = Kids(list, d)
    <2>1. ASSUME NEW q \in Held(h, d) PROVE q \in Kids(list, d)
        <3>1. q \in Paths /\ Parent[q] = d /\ LineIn(h, q) # NoLine
            BY DEF Held
        <3>2. LineIn(h, q) \in h /\ Len(LineIn(h, q)) = 5 /\ LineIn(h, q)[1] = Name[q]
            BY <3>1, LineInIs
        <3> QED BY <1>6, <3>1, <3>2 DEF Kids
    <2>2. ASSUME NEW q \in Kids(list, d) PROVE q \in Held(h, d)
        <3>1. PICK x \in Within(list, d) : q = list[x].path
            BY DEF Kids
        <3>2. Parent[q] = d /\ q \in Paths
            BY <1>1, <3>1 DEF Within
        <3> QED BY <1>7, <1>8, <3>1, <3>2 DEF Held
    <2> QED BY <2>1, <2>2
<1>10. {LineIn(h, q) : q \in Held(h, d)} = {Line(list[x]) : x \in Within(list, d)}
    BY <1>7, <1>9 DEF Kids
<1>11. h = TreeHash({LineIn(h, q) : q \in Held(h, d)})
    BY <1>10 DEF h, TreeOf
<1>12. h # NoHash
    BY <1>5 DEF NoHash
<1> QED
    BY <1>7, <1>9, <1>11, <1>12 DEF h, IsTreeOf

LEMMA TreeLines ==
    ASSUME NEW list, IsList(list), Ordered(list), NEW d,
           \A x \in 1..Len(list) : list[x].type \in {"file", "dir", "link"}
    PROVE  LET h == TreeOf(list, d) IN
           /\ h # NoHash
           /\ Held(h, d) = Kids(list, d)
           /\ \A x \in Within(list, d) : LineIn(h, list[x].path) = Line(list[x])
           /\ h = TreeHash({LineIn(h, q) : q \in Held(h, d)})
<1>1. Single(list) /\ Typed(list)
    BY OrderedIs DEF Single, Typed
<1> QED
    BY <1>1, SingleLines DEF IsTreeOf

-----------------------------------------------------------------------------
(* Trees that lead to trees: pairs of a directory and the digest of one. *)

FormedLine(ig, F, q, l) ==
    /\ q \in Seen(ig)
    /\ l = <<Name[q], l[2], l[3], l[4], l[5]>>
    /\ l[2] \in {"file", "dir", "link"}
    /\ l[2] = "dir" => <<q, l[5]>> \in F
    /\ l[2] = "link" => l[5] = NoHash
    /\ l[2] # "link" => l[4] = ""

IsTree(ig, F, d, h) ==
    /\ h = TreeHash({LineIn(h, q) : q \in Held(h, d)})
    /\ \A q \in Held(h, d) : FormedLine(ig, F, q, LineIn(h, q))

IsForest(ig, F) == \A x \in F : IsTree(ig, F, x[1], x[2])

\* The directories of a list that have a digest are those of a forest.
Formed(F, list) ==
    \A x \in 1..Len(list) :
        LET n == list[x] IN
        /\ n.type = "dir" => n.hash = NoHash \/ <<n.path, n.hash>> \in F
        /\ n.type = "link" => n.hash = NoHash
        /\ n.type # "link" => n.target = ""

LEMMA LargerForest ==
    ASSUME NEW ig, NEW F, NEW K, F \subseteq K
    PROVE  /\ \A q, l : FormedLine(ig, F, q, l) => FormedLine(ig, K, q, l)
           /\ \A d, h : IsTree(ig, F, d, h) => IsTree(ig, K, d, h)
           /\ \A list : Formed(F, list) => Formed(K, list)
<1>1. \A q, l : FormedLine(ig, F, q, l) => FormedLine(ig, K, q, l)
    BY DEF FormedLine
<1>2. \A d, h : IsTree(ig, F, d, h) => IsTree(ig, K, d, h)
    BY <1>1 DEF IsTree
<1>3. \A list : Formed(F, list) => Formed(K, list)
    BY DEF Formed
<1> QED
    BY <1>1, <1>2, <1>3

LEMMA UnionOfForests ==
    ASSUME NEW ig, NEW C, \A F \in C : IsForest(ig, F)
    PROVE  IsForest(ig, UNION C)
<1> SUFFICES ASSUME NEW x \in UNION C PROVE IsTree(ig, UNION C, x[1], x[2])
    BY DEF IsForest
<1>1. PICK F \in C : x \in F
    OBVIOUS
<1>2. IsTree(ig, F, x[1], x[2]) /\ F \subseteq UNION C
    BY <1>1 DEF IsForest
<1> QED
    BY <1>2, LargerForest

LEMMA TreeIsTree ==
    ASSUME NEW ig, NEW F, NEW list, IsList(list), Ordered(list), Typed(list), Formed(F, list), NEW d,
           \A x \in Within(list, d) :
              list[x].path \in Seen(ig) /\ (list[x].type = "dir" => list[x].hash # NoHash)
    PROVE  IsTree(ig, F, d, TreeOf(list, d))
<1> DEFINE h == TreeOf(list, d)
<1>1. /\ Held(h, d) = Kids(list, d)
      /\ \A x \in Within(list, d) : LineIn(h, list[x].path) = Line(list[x])
      /\ h = TreeHash({LineIn(h, q) : q \in Held(h, d)})
    BY TreeLines DEF Typed
<1> HIDE DEF h
<1>2. ASSUME NEW q \in Held(h, d) PROVE FormedLine(ig, F, q, LineIn(h, q))
    <2>1. PICK x \in Within(list, d) : list[x].path = q
        BY <1>1 DEF Kids
    <2>2. LineIn(h, q) = <<Name[q], list[x].type, list[x].mode, list[x].target, list[x].hash>>
        BY <1>1, <2>1 DEF Line
    <2>3. x \in 1..Len(list)
        BY DEF Within
    <2> DEFINE l == LineIn(h, q)
               n == list[x]
    <2>4. /\ l[2] = n.type /\ l[4] = n.target /\ l[5] = n.hash
          /\ l = <<Name[q], l[2], l[3], l[4], l[5]>>
        BY <2>2
    <2>5. /\ n.path = q /\ q \in Seen(ig) /\ n.type \in {"file", "dir", "link"}
          /\ n.type = "dir" => <<n.path, n.hash>> \in F
          /\ n.type = "link" => n.hash = NoHash
          /\ n.type # "link" => n.target = ""
        BY <2>1, <2>3 DEF Formed, Typed
    <2> HIDE DEF l, n
    <2>6. FormedLine(ig, F, q, l)
        BY <2>4, <2>5 DEF FormedLine
    <2> QED BY <2>6 DEF l
<1> QED
    BY <1>1, <1>2 DEF IsTree, h

LEMMA AddedToForest ==
    ASSUME NEW ig, NEW F, IsForest(ig, F), NEW d, NEW h, IsTree(ig, F, d, h)
    PROVE  IsForest(ig, F \cup {<<d, h>>})
<1> SUFFICES ASSUME NEW x \in F \cup {<<d, h>>} PROVE IsTree(ig, F, x[1], x[2])
    BY LargerForest DEF IsForest
<1> QED
    BY DEF IsForest

\* The directories of a workspace, and the trees of them.
DirsOf(disk, ig) == {Root} \cup {p \in Listed(disk, ig) : disk[p].type = "dir"}
TreesIn(disk, ig) == {<<p, Hashes(disk, ig)[p]>> : p \in DirsOf(disk, ig)}

\* The index of a workspace, and the digests of its directories.
LEMMA IndexOfTrees ==
    ASSUME NEW disk, NEW ig, DOMAIN disk \subseteq Paths,
           \A p \in DOMAIN disk :
              /\ disk[p].type \in {"file", "dir", "link"}
              /\ Parent[p] # Root => Parent[p] \in DOMAIN disk /\ disk[Parent[p]].type = "dir"
    PROVE  LET list == IndexOf(disk, ig) IN
           /\ IsList(list) /\ Shaped(list, ig) /\ Typed(list) /\ Formed(TreesIn(disk, ig), list)
           /\ IsForest(ig, TreesIn(disk, ig))
           /\ \A d : Kids(list, d) = {q \in Listed(disk, ig) : Parent[q] = d}
           /\ \A d \in DirsOf(disk, ig) : Hashes(disk, ig)[d] = TreeOf(list, d)
<1> DEFINE list == IndexOf(disk, ig)
           hash == Hashes(disk, ig)
           L == Listed(disk, ig)
           dirs == {Root} \cup {p \in L : disk[p].type = "dir"}
           F == {<<p, hash[p]>> : p \in dirs}
           paths == Sorted(L)
<1>1. L = Seen(ig) \cap DOMAIN disk
    BY DEF Listed, Seen
<1>2. /\ IsList(list) /\ PathsOf(list) = paths
      /\ \A x \in 1..Len(list) : paths[x] \in L /\ list[x] = Node(paths[x], disk[paths[x]], hash[paths[x]])
    BY IndexOfIs
<1>3. IsSortedList(paths, L)
    BY SortedTheorem DEF Listed
<1>4. Root \notin Paths
    BY TreeAssumption
<1>5. \A p \in DOMAIN disk \cup {Root} : hash[p] = HashOf(disk, ig, hash, p)
    BY HashesIs
<1> HIDE DEF list, hash, L, paths
<1>6. \A x \in 1..Len(list) :
          LET p == paths[x] IN
          /\ p \in L /\ list[x].path = p /\ list[x].type = disk[p].type
          /\ list[x].hash = hash[p] /\ list[x].target = Target(disk[p])
          /\ Line(list[x]) = Line(Node(p, disk[p], hash[p]))
    BY <1>2 DEF Node
<1>7. Len(paths) = Len(list) /\ Len(list) \in Nat
    BY <1>2, PathsOfList
<1>8. \A p \in L : \E x \in 1..Len(list) : paths[x] = p
    BY <1>3, <1>7 DEF IsSortedList
<1>9. Ordered(list)
    BY <1>2, <1>3, OrderedIs DEF IsSortedList
<1>10. Shaped(list, ig)
    <2> SUFFICES ASSUME NEW x \in 1..Len(list)
                 PROVE  /\ list[x].path \in Seen(ig)
                        /\ Parent[list[x].path] = Root \/
                              \E y \in Dirs(list) : list[y].path = Parent[list[x].path]
        BY <1>9 DEF Shaped
    <2> DEFINE p == list[x].path
    <2>1. p \in Seen(ig) /\ p \in DOMAIN disk /\ p \in Paths
        BY <1>1, <1>6 DEF Seen
    <2> HIDE DEF p
    <2>2. ASSUME Parent[p] # Root PROVE \E y \in Dirs(list) : list[y].path = Parent[p]
        <3>1. Parent[p] \in L /\ disk[Parent[p]].type = "dir"
            BY <1>1, <2>1, <2>2, SeenParent
        <3>2. PICK y \in 1..Len(list) : paths[y] = Parent[p]
            BY <1>8, <3>1
        <3> QED BY <1>6, <3>1, <3>2 DEF Dirs
    <2> QED BY <2>1, <2>2 DEF p
<1>11. Typed(list)
    BY <1>1, <1>6 DEF Typed
<1>12. ASSUME NEW d PROVE Kids(list, d) = {q \in L : Parent[q] = d}
    BY <1>6, <1>8 DEF Kids, Within
<1>13. \A x \in 1..Len(list) : list[x].type = "dir" => <<list[x].path, list[x].hash>> \in F
    BY <1>6
<1>14. Formed(F, list)
    <2> SUFFICES ASSUME NEW x \in 1..Len(list)
                 PROVE  /\ list[x].type = "link" => list[x].hash = NoHash
                        /\ list[x].type # "link" => list[x].target = ""
        BY <1>13 DEF Formed
    <2>1. paths[x] \in DOMAIN disk /\ paths[x] # Root
        BY <1>1, <1>4, <1>6
    <2>2. ASSUME list[x].type = "link" PROVE list[x].hash = NoHash
        <3>1. disk[paths[x]].type = "link" /\ list[x].hash = hash[paths[x]]
            BY <1>6, <2>2
        <3>2. hash[paths[x]] = HashOf(disk, ig, hash, paths[x])
            BY <1>5, <2>1
        <3> QED BY <2>1, <3>1, <3>2 DEF HashOf
    <2>3. ASSUME list[x].type # "link" PROVE list[x].target = ""
        <3>1. disk[paths[x]].type # "link" /\ list[x].target = Target(disk[paths[x]])
            BY <1>6, <2>3
        <3> QED BY <3>1 DEF Target
    <2> QED BY <2>2, <2>3
<1>15. ASSUME NEW d \in dirs PROVE hash[d] = TreeOf(list, d)
    <2>1. hash[d] = DirHash(disk, ig, hash, d)
        BY <1>1, <1>5 DEF HashOf
    <2>2. {Line(Node(q, disk[q], hash[q])) : q \in {q \in L : Parent[q] = d}}
             = {Line(list[x]) : x \in Within(list, d)}
        <3>1. ASSUME NEW q \in L, Parent[q] = d
              PROVE  \E x \in Within(list, d) : Line(list[x]) = Line(Node(q, disk[q], hash[q]))
            BY <1>6, <1>8, <3>1 DEF Within
        <3>2. ASSUME NEW x \in Within(list, d)
              PROVE  \E q \in L : Parent[q] = d /\ Line(list[x]) = Line(Node(q, disk[q], hash[q]))
            BY <1>6 DEF Within
        <3> QED BY <3>1, <3>2
    <2> QED BY <2>1, <2>2 DEF DirHash, TreeOf, L
<1>16. IsForest(ig, F)
    <2> SUFFICES ASSUME NEW d \in dirs PROVE IsTree(ig, F, d, hash[d])
        BY DEF IsForest
    <2>1. ASSUME NEW x \in Within(list, d)
          PROVE  list[x].path \in Seen(ig) /\ (list[x].type = "dir" => list[x].hash # NoHash)
        <3>1. x \in 1..Len(list)
            BY DEF Within
        <3>2. list[x].path \in Seen(ig)
            BY <1>10, <3>1 DEF Shaped
        <3>3. ASSUME list[x].type = "dir" PROVE list[x].hash # NoHash
            <4>1. paths[x] \in dirs
                BY <1>6, <3>1, <3>3
            <4>2. list[x].hash = TreeOf(list, paths[x])
                BY <1>6, <1>15, <3>1, <4>1
            <4> QED BY <4>2 DEF TreeOf, TreeHash, NoHash
        <3> QED BY <3>2, <3>3
    <2>2. IsTree(ig, F, d, TreeOf(list, d))
        <3> HIDE DEF F, dirs
        <3> QED BY <1>2, <1>9, <1>11, <1>14, <2>1, TreeIsTree
    <2> QED BY <1>15, <2>2
<1>17. dirs = DirsOf(disk, ig)
    BY DEF DirsOf, L
<1>18. F = TreesIn(disk, ig)
    BY <1>17 DEF TreesIn, hash
<1> HIDE DEF dirs, F
<1> QED
    BY <1>2, <1>10, <1>11, <1>12, <1>14, <1>15, <1>16, <1>17, <1>18 DEF list, hash, L

\* What is listed below a tree of a forest.
LEMMA ListedForest ==
    ASSUME NEW ig, NEW F, IsForest(ig, F), NEW G, IsCache(G), NEW t \in G, <<Root, t>> \in F
    PROVE  \A p \in ListedIn(t) :
              LET d == Parent[p]
                  h == IF d = Root THEN t ELSE Lines(t)[d][5]
              IN  /\ d = Root \/ (d \in ListedIn(t) /\ Lines(t)[d][2] = "dir")
                  /\ <<d, h>> \in F
                  /\ FormedLine(ig, F, p, Lines(t)[p])
                  /\ Lines(t)[p] = LineIn(h, p)
<1> DEFINE tree(p) == IF Parent[p] = Root THEN t ELSE Lines(t)[Parent[p]][5]
           Good(p) == /\ Parent[p] = Root \/ (Parent[p] \in ListedIn(t) /\ Lines(t)[Parent[p]][2] = "dir")
                      /\ <<Parent[p], tree(p)>> \in F
                      /\ FormedLine(ig, F, p, Lines(t)[p])
                      /\ Lines(t)[p] = LineIn(tree(p), p)
           Bad == {p \in ListedIn(t) : ~Good(p)}
<1>1. SUFFICES ASSUME Bad # {} PROVE FALSE
    OBVIOUS
<1>2. PICK p \in Bad : \A q \in Bad : Rank[p] <= Rank[q]
    <2>1. Bad \subseteq Paths
        BY DEF ListedIn
    <2> HIDE DEF Bad
    <2> QED BY <1>1, <2>1, Lowest
<1>3. p \in Paths /\ p \in ListedIn(t) /\ Lines(t)[p] # NoLine
    BY <1>2 DEF ListedIn
<1>4. Lines(t)[p] = LineIn(tree(p), p)
    BY <1>3, LinesIs DEF LineOf
<1>5. PICK l \in tree(p) : Len(l) = 5
    <2> HIDE DEF tree
    <2> QED BY <1>3, <1>4, LineInIs
<1>6. /\ Parent[p] = Root \/ (Parent[p] \in ListedIn(t) /\ Lines(t)[Parent[p]][2] = "dir")
      /\ <<Parent[p], tree(p)>> \in F
    <2>1. CASE Parent[p] = Root
        BY <2>1
    <2>2. CASE Parent[p] # Root
        <3> DEFINE d == Parent[p]
        <3>1. d \in Paths /\ Rank[d] < Rank[p] /\ tree(p) = Lines(t)[d][5]
            BY <1>3, <2>2, ParentRank
        <3>2. d \in ListedIn(t)
            <4>1. SUFFICES ASSUME Lines(t)[d] = NoLine PROVE FALSE
                BY <3>1 DEF ListedIn
            <4>2. NoLine[5] = {}
                BY DEF NoLine, NoHash
            <4> HIDE DEF tree, d
            <4>3. tree(p) = {}
                BY <3>1, <4>1, <4>2
            <4> QED BY <1>5, <4>3
        <3>3. FormedLine(ig, F, d, Lines(t)[d])
            <4>1. d \notin Bad
                BY <1>2, <1>3, <3>1, RankNat
            <4> QED BY <3>2, <4>1
        <3>4. IsEntryOf(G, Lines(t)[d][2], Lines(t)[d][5])
            BY <3>2, LinesOfCache
        <3> HIDE DEF tree, d
        <3>5. Lines(t)[d][2] # "link"
            <4>1. SUFFICES ASSUME Lines(t)[d][2] = "link" PROVE FALSE
                OBVIOUS
            <4>2. tree(p) = {}
                BY <3>1, <3>3, <4>1 DEF FormedLine, NoHash
            <4> QED BY <1>5, <4>2
        <3>6. Lines(t)[d][2] # "file"
            <4>1. SUFFICES ASSUME Lines(t)[d][2] = "file" PROVE FALSE
                OBVIOUS
            <4>2. PICK c : tree(p) = FileHash(c)
                BY <3>1, <3>4, <4>1 DEF IsEntryOf
            <4>3. l = <<"file", c>>
                BY <1>5, <4>2 DEF FileHash
            <4> QED BY <1>5, <4>3
        <3>7. Lines(t)[d][2] = "dir" /\ <<d, tree(p)>> \in F
            BY <3>1, <3>3, <3>5, <3>6 DEF FormedLine
        <3> QED BY <3>2, <3>7 DEF d
    <2> QED BY <2>1, <2>2
<1>7. FormedLine(ig, F, p, Lines(t)[p])
    <2> HIDE DEF tree
    <2>1. IsTree(ig, F, Parent[p], tree(p))
        <3>1. <<Parent[p], tree(p)>>[1] = Parent[p] /\ <<Parent[p], tree(p)>>[2] = tree(p)
            OBVIOUS
        <3> QED BY <1>6, <3>1 DEF IsForest
    <2>2. p \in Held(tree(p), Parent[p])
        BY <1>3, <1>4 DEF Held
    <2> QED BY <1>4, <2>1, <2>2 DEF IsTree
<1>8. Good(p)
    BY <1>4, <1>6, <1>7
<1> QED
    BY <1>2, <1>8

\* The digest of every directory is that of its nodes.
IsTreeList(F, list) ==
    \A x \in Dirs(list) :
        LET n == list[x] IN
        /\ Held(n.hash, n.path) = Kids(list, n.path)
        /\ n.hash = TreeOf(list, n.path)
        /\ <<n.path, n.hash>> \in F

\* The index that is made of a tree.
LEMMA ListingForest ==
    ASSUME NEW ig, NEW F, IsForest(ig, F), NEW G, IsCache(G), NEW t \in G, <<Root, t>> \in F
    PROVE  LET list == Listing(t) IN
           /\ IsList(list) /\ Shaped(list, ig) /\ Typed(list) /\ Formed(F, list)
           /\ IsTreeList(F, list) /\ t = TreeOf(list, Root)
<1> DEFINE list == Listing(t)
           L == ListedIn(t)
           paths == Sorted(L)
           line == Lines(t)
           tree(p) == IF Parent[p] = Root THEN t ELSE line[Parent[p]][5]
<1>1. /\ IsList(list) /\ PathsOf(list) = paths
      /\ \A x \in 1..Len(list) :
            /\ paths[x] \in L
            /\ list[x] = [path |-> paths[x], type |-> line[paths[x]][2], mode |-> line[paths[x]][3],
                          target |-> line[paths[x]][4], hash |-> line[paths[x]][5], time |-> 0]
    BY ListingIs
<1>2. L \subseteq Paths /\ IsSortedList(paths, L)
    BY SortedTheorem DEF ListedIn
<1>3. \A p \in L :
          /\ Parent[p] = Root \/ (Parent[p] \in L /\ line[Parent[p]][2] = "dir")
          /\ <<Parent[p], tree(p)>> \in F
          /\ FormedLine(ig, F, p, line[p])
          /\ line[p] = LineIn(tree(p), p)
    BY ListedForest
<1>4. \A p \in L : tree(p) = IF Parent[p] = Root THEN t ELSE line[Parent[p]][5]
    OBVIOUS
<1>0. \A q \in Paths : Parent[q] # Root => line[q] = LineIn(line[Parent[q]][5], q)
    BY LinesIs DEF LineOf
<1>02. \A q \in Paths : Parent[q] = Root => line[q] = LineIn(t, q)
    BY LinesIs DEF LineOf
<1>01. \A q \in Paths : q \in L <=> line[q] # NoLine
    BY DEF ListedIn
<1> HIDE DEF list, L, paths, line, tree
<1>5. \A x \in 1..Len(list) :
          LET p == paths[x]
              n == list[x]
          IN  /\ p \in L /\ p \in Paths
              /\ n.path = p /\ n.type = line[p][2] /\ n.mode = line[p][3]
              /\ n.target = line[p][4] /\ n.hash = line[p][5]
    <2> TAKE x \in 1..Len(list)
    <2> DEFINE l == line[paths[x]]
               r == [path |-> paths[x], type |-> l[2], mode |-> l[3],
                     target |-> l[4], hash |-> l[5], time |-> 0]
    <2>1. list[x] = r
        BY <1>1, Zenon
    <2>2. r.path = paths[x] /\ r.type = l[2] /\ r.mode = l[3] /\ r.target = l[4] /\ r.hash = l[5]
        OBVIOUS
    <2>3. paths[x] \in L /\ paths[x] \in Paths
        BY <1>1, <1>2
    <2> HIDE DEF r
    <2>4. /\ list[x].path = paths[x] /\ list[x].type = l[2] /\ list[x].mode = l[3]
          /\ list[x].target = l[4] /\ list[x].hash = l[5]
        BY <2>1, <2>2
    <2> QED BY <2>3, <2>4
<1>6. Len(paths) = Len(list) /\ Len(list) \in Nat
    BY <1>1, PathsOfList
<1>7. \A p \in L : \E x \in 1..Len(list) : paths[x] = p
    BY <1>2, <1>6 DEF IsSortedList
<1>8. Ordered(list)
    BY <1>1, <1>2, OrderedIs DEF IsSortedList
<1>9. \A x \in 1..Len(list) : FormedLine(ig, F, paths[x], line[paths[x]])
    BY <1>3, <1>5
<1>10. Typed(list)
    BY <1>5, <1>9 DEF Typed, FormedLine
<1>11. Formed(F, list)
    BY <1>5, <1>9 DEF Formed, FormedLine
<1>12. Shaped(list, ig)
    <2> SUFFICES ASSUME NEW x \in 1..Len(list)
                 PROVE  /\ list[x].path \in Seen(ig)
                        /\ Parent[list[x].path] = Root \/
                              \E y \in Dirs(list) : list[y].path = Parent[list[x].path]
        BY <1>8 DEF Shaped
    <2>1. list[x].path \in Seen(ig)
        BY <1>5, <1>9 DEF FormedLine
    <2>2. ASSUME Parent[list[x].path] # Root
          PROVE  \E y \in Dirs(list) : list[y].path = Parent[list[x].path]
        <3>1. Parent[paths[x]] \in L /\ line[Parent[paths[x]]][2] = "dir"
            BY <1>3, <1>5, <2>2
        <3>2. PICK y \in 1..Len(list) : paths[y] = Parent[paths[x]]
            BY <1>7, <3>1
        <3> QED BY <1>5, <3>1, <3>2 DEF Dirs
    <2> QED BY <2>1, <2>2
<1>13. ASSUME NEW p, NEW h, <<p, h>> \in F, \A q \in Paths : Parent[q] = p => line[q] = LineIn(h, q)
       PROVE  Held(h, p) = Kids(list, p) /\ h = TreeOf(list, p)
    <2>1. h = TreeHash({LineIn(h, q) : q \in Held(h, p)})
        <3>1. <<p, h>>[1] = p /\ <<p, h>>[2] = h
            OBVIOUS
        <3> QED BY <1>13, <3>1 DEF IsForest, IsTree
    <2>2. Held(h, p) = Kids(list, p)
        <3>1. ASSUME NEW q \in Held(h, p) PROVE q \in Kids(list, p)
            <4>1. q \in Paths /\ Parent[q] = p /\ q \in L
                BY <1>01, <1>13 DEF Held
            <4>2. PICK y \in 1..Len(list) : paths[y] = q
                BY <1>7, <4>1
            <4> QED BY <1>5, <4>1, <4>2 DEF Kids, Within
        <3>2. ASSUME NEW q \in Kids(list, p) PROVE q \in Held(h, p)
            <4>1. q \in Paths /\ Parent[q] = p /\ q \in L
                BY <1>5 DEF Kids, Within
            <4> QED BY <1>01, <1>13, <4>1 DEF Held
        <3> QED BY <3>1, <3>2
    <2>3. \A y \in Within(list, p) : Line(list[y]) = LineIn(h, list[y].path)
        <3> TAKE y \in Within(list, p)
        <3>1. y \in 1..Len(list) /\ Parent[paths[y]] = p
            BY <1>5 DEF Within
        <3> DEFINE l == line[paths[y]]
        <3>2. l = LineIn(h, paths[y])
            BY <1>5, <1>13, <3>1
        <3>3. l = <<Name[paths[y]], l[2], l[3], l[4], l[5]>>
            BY <1>9, <3>1 DEF FormedLine
        <3>4. Line(list[y]) = <<Name[paths[y]], l[2], l[3], l[4], l[5]>>
            BY <1>5, <3>1 DEF Line
        <3> HIDE DEF l
        <3>5. list[y].path = paths[y]
            BY <1>5, <3>1
        <3> QED BY <3>2, <3>3, <3>4, <3>5
    <2>4. {LineIn(h, q) : q \in Held(h, p)} = {Line(list[y]) : y \in Within(list, p)}
        BY <2>2, <2>3 DEF Kids
    <2> QED BY <2>1, <2>2, <2>4 DEF TreeOf
<1>14. IsTreeList(F, list)
    <2> SUFFICES ASSUME NEW x \in Dirs(list)
                 PROVE  LET n == list[x] IN
                        /\ Held(n.hash, n.path) = Kids(list, n.path)
                        /\ n.hash = TreeOf(list, n.path)
                        /\ <<n.path, n.hash>> \in F
        BY DEF IsTreeList
    <2> DEFINE p == paths[x]
               h == line[p][5]
    <2>1. x \in 1..Len(list) /\ p \in L /\ p \in Paths /\ p # Root /\ line[p][2] = "dir"
        BY <1>5, TreeAssumption DEF Dirs
    <2>2. list[x].path = p /\ list[x].hash = h
        BY <1>5, <2>1
    <2>3. <<p, h>> \in F
        BY <1>9, <2>1 DEF FormedLine
    <2>4. \A q \in Paths : Parent[q] = p => line[q] = LineIn(h, q)
        BY <1>0, <2>1
    <2> HIDE DEF p, h
    <2> QED BY <1>13, <2>2, <2>3, <2>4
<1>15. t = TreeOf(list, Root)
    <2>1. \A q \in Paths : Parent[q] = Root => line[q] = LineIn(t, q)
        BY <1>02
    <2> QED BY <1>13, <2>1
<1> QED
    BY <1>1, <1>10, <1>11, <1>12, <1>14, <1>15 DEF list

\* What is listed below the tree of a list whose directories have theirs: its
\* nodes, and nothing else.
LEMMA ListedNodes ==
    ASSUME NEW list, IsList(list), Ordered(list), Typed(list), NEW t, t = TreeOf(list, Root),
           \A x \in Dirs(list) : list[x].hash = TreeOf(list, list[x].path),
           \A x \in 1..Len(list) : list[x].type = "file" => \E c : list[x].hash = FileHash(c),
           \A x \in 1..Len(list) : list[x].type = "link" => list[x].hash = NoHash
    PROVE  \A p \in ListedIn(t) : \E x \in 1..Len(list) : list[x].path = p /\ Lines(t)[p] = Line(list[x])
<1> DEFINE line == Lines(t)
           Good(p) == \E x \in 1..Len(list) : list[x].path = p /\ line[p] = Line(list[x])
           Bad == {p \in ListedIn(t) : ~Good(p)}
<1>1. SUFFICES ASSUME Bad # {} PROVE FALSE
    OBVIOUS
<1>2. PICK p \in Bad : \A q \in Bad : Rank[p] <= Rank[q]
    <2>1. Bad \subseteq Paths
        BY DEF ListedIn
    <2> HIDE DEF Bad
    <2> QED BY <1>1, <2>1, Lowest
<1>3. p \in Paths /\ line[p] # NoLine
    BY <1>2 DEF ListedIn
<1>4. line[p] = LineIn(IF Parent[p] = Root THEN t ELSE line[Parent[p]][5], p)
    BY <1>3, LinesIs DEF LineOf
<1> HIDE DEF line
\* The digest under which p is listed is that of its directory.
<1>5. ASSUME NEW d, Parent[p] = d, line[p] = LineIn(TreeOf(list, d), p)
      PROVE  FALSE
    <2>1. p \in Held(TreeOf(list, d), d)
        BY <1>3, <1>5 DEF Held
    <2>2. /\ Held(TreeOf(list, d), d) = Kids(list, d)
          /\ \A x \in Within(list, d) : LineIn(TreeOf(list, d), list[x].path) = Line(list[x])
        BY TreeLines DEF Typed
    <2>3. PICK x \in Within(list, d) : list[x].path = p
        BY <2>1, <2>2 DEF Kids
    <2>4. Good(p)
        BY <1>5, <2>2, <2>3 DEF Within
    <2> QED BY <1>2, <2>4
<1>6. CASE Parent[p] = Root
    <2>1. line[p] = LineIn(TreeOf(list, Root), p)
        BY <1>4, <1>6
    <2> QED BY <1>5, <1>6, <2>1
<1>7. CASE Parent[p] # Root
    <2> DEFINE d == Parent[p]
    <2>1. d \in Paths /\ Rank[d] < Rank[p] /\ Rank[d] \in Nat /\ Rank[p] \in Nat
        BY <1>3, <1>7, ParentRank, RankNat
    <2>2. line[p] = LineIn(line[d][5], p)
        BY <1>4, <1>7
    <2> HIDE DEF d
    <2>3. \E l \in line[d][5] : Len(l) = 5
        BY <1>3, <2>2, LineInIs
    <2>4. line[d] # NoLine
        <3>1. NoLine[5] = {}
            BY DEF NoLine, NoHash
        <3> QED BY <2>3, <3>1
    <2>5. d \in ListedIn(t)
        BY <2>1, <2>4 DEF ListedIn, line
    <2>6. PICK y \in 1..Len(list) : list[y].path = d /\ line[d] = Line(list[y])
        <3>1. d \notin Bad
            BY <1>2, <2>1
        <3> QED BY <2>5, <3>1
    <2>7. line[d][5] = list[y].hash
        BY <2>6 DEF Line
    <2>8. list[y].type # "link"
        BY <2>3, <2>7 DEF NoHash
    <2>9. list[y].type # "file"
        <3>1. SUFFICES ASSUME list[y].type = "file" PROVE FALSE
            OBVIOUS
        <3>2. PICK c : list[y].hash = FileHash(c)
            BY <3>1
        <3>3. \A l \in FileHash(c) : Len(l) = 2
            BY DEF FileHash
        <3> QED BY <2>3, <2>7, <3>2, <3>3
    <2>10. list[y].hash = TreeOf(list, d)
        BY <2>6, <2>8, <2>9 DEF Typed, Dirs
    <2> QED BY <1>5, <2>2, <2>7, <2>10 DEF d
<1> QED
    BY <1>6, <1>7

\* The objects of the tree are those of the nodes.
LEMMA ObjectsOfNodes ==
    ASSUME NEW list, IsList(list), Ordered(list), Typed(list), NEW t, t = TreeOf(list, Root),
           \A x \in Dirs(list) : list[x].hash = TreeOf(list, list[x].path),
           \A x \in 1..Len(list) : list[x].type = "file" => \E c : list[x].hash = FileHash(c),
           \A x \in 1..Len(list) : list[x].type = "link" => list[x].hash = NoHash
    PROVE  \A h \in ObjectsOf(t) :
              h = t \/ \E x \in 1..Len(list) : list[x].type # "link" /\ h = list[x].hash
<1> TAKE h \in ObjectsOf(t)
<1> SUFFICES ASSUME h # t
             PROVE  \E x \in 1..Len(list) : list[x].type # "link" /\ h = list[x].hash
    OBVIOUS
<1>1. PICK n \in ToSet(Listing(t)) : n.type # "link" /\ h = n.hash
    BY DEF ObjectsOf
<1>2. DOMAIN Listing(t) = 1..Len(Listing(t))
    BY ListingIs, PathsOfList
<1>3. PICK k \in 1..Len(Listing(t)) : n = Listing(t)[k]
    BY <1>2 DEF ToSet
<1> DEFINE p == Sorted(ListedIn(t))[k]
           line == Lines(t)[p]
           r == [path |-> p, type |-> line[2], mode |-> line[3],
                 target |-> line[4], hash |-> line[5], time |-> 0]
<1>4. p \in ListedIn(t) /\ n = r
    <2>1. p \in ListedIn(t) /\ Listing(t)[k] = r
        BY ListingIs, Zenon
    <2> QED BY <1>3, <2>1
<1>5. r.type = line[2] /\ r.hash = line[5]
    OBVIOUS
<1> HIDE DEF r, p
<1>6. PICK x \in 1..Len(list) : list[x].path = p /\ line = Line(list[x])
    BY <1>4, ListedNodes
<1>7. line[2] = list[x].type /\ line[5] = list[x].hash
    BY <1>6 DEF Line
<1> QED
    BY <1>1, <1>4, <1>5, <1>7

ChildrenDef(upto, x) ==
    IF x[3] = 0 THEN <<>>
    ELSE IF Parent[x[1][x[3]].path] = x[2] THEN Append(upto[<<x[1], x[2], x[3] - 1>>], x[1][x[3]])
    ELSE upto[<<x[1], x[2], x[3] - 1>>]
ChildrenRec == INSTANCE Recursion WITH Def <- ChildrenDef

CombinedDef(rest, z) ==
    MergeTurn(z[1], z[2], z[3],
              [m \in (1..Len(z[1]) + 1) \X (1..Len(z[2]) + 1) |-> rest[<<z[1], z[2], z[3], m>>]], z[4])
CombinedRec == INSTANCE Recursion WITH Def <- CombinedDef

MergeDef(merged, z) ==
    Combined(Children(z[1], z[3]), Children(z[2], z[3]),
             [d \in Paths \cup {Root} |-> merged[<<z[1], z[2], d>>]])
MergeRec == INSTANCE Recursion WITH Def <- MergeDef

\* Each node is listed below the tree, and its object is one of it.
LEMMA NodesListed ==
    ASSUME NEW list, IsList(list), Typed(list), NEW ig, Shaped(list, ig), NEW t, t = TreeOf(list, Root),
           \A x \in Dirs(list) : list[x].hash = TreeOf(list, list[x].path)
    PROVE  \A x \in 1..Len(list) : Lines(t)[list[x].path] = Line(list[x])
<1> DEFINE line == Lines(t)
           Bad == {p \in Paths : \E x \in 1..Len(list) : list[x].path = p /\ line[p] # Line(list[x])}
<1>1. SUFFICES ASSUME Bad # {} PROVE FALSE
    BY DEF IsList
<1>2. PICK p \in Bad : \A q \in Bad : Rank[p] <= Rank[q]
    <2>1. Bad \subseteq Paths
        OBVIOUS
    <2> HIDE DEF Bad
    <2> QED BY <1>1, <2>1, Lowest
<1>3. PICK x \in 1..Len(list) : list[x].path = p /\ line[p] # Line(list[x])
    BY <1>2
<1>4. p \in Paths /\ line[p] = LineIn(IF Parent[p] = Root THEN t ELSE line[Parent[p]][5], p)
    BY <1>2, LinesIs DEF LineOf
<1> HIDE DEF line
<1>5. ASSUME NEW d, Parent[p] = d, line[p] = LineIn(TreeOf(list, d), p)
      PROVE  FALSE
    <2>1. x \in Within(list, d)
        BY <1>3, <1>5 DEF Within
    <2>2. Single(list) /\ Typed(list)
        BY OrderedIs DEF Single, Shaped
    <2>3. IsTreeOf(TreeOf(list, d), list, d)
        BY <2>2, SingleLines
    <2>4. LineIn(TreeOf(list, d), list[x].path) = Line(list[x])
        BY <2>1, <2>3 DEF IsTreeOf
    <2> QED BY <1>3, <1>5, <2>4
<1>6. CASE Parent[p] = Root
    BY <1>4, <1>5, <1>6
<1>7. CASE Parent[p] # Root
    <2>1. PICK y \in Dirs(list) : list[y].path = Parent[p]
        BY <1>3, <1>7 DEF Shaped
    <2>2. Parent[p] \in Paths /\ Rank[Parent[p]] < Rank[p] /\ Rank[Parent[p]] \in Nat /\ Rank[p] \in Nat
        BY <1>4, <1>7, ParentRank, RankNat
    <2>3. Parent[p] \notin Bad
        BY <1>2, <2>2
    <2>4. line[Parent[p]] = Line(list[y])
        BY <2>1, <2>2, <2>3 DEF Dirs
    <2>5. line[Parent[p]][5] = TreeOf(list, Parent[p])
        BY <2>1, <2>4 DEF Line
    <2> QED BY <1>4, <1>5, <1>7, <2>5
<1> QED
    BY <1>6, <1>7

LEMMA NodesAreObjects ==
    ASSUME NEW list, IsList(list), Typed(list), NEW ig, Shaped(list, ig), NEW t, t = TreeOf(list, Root),
           \A x \in Dirs(list) : list[x].hash = TreeOf(list, list[x].path)
    PROVE  \A x \in 1..Len(list) : list[x].type # "link" => list[x].hash \in ObjectsOf(t)
<1> SUFFICES ASSUME NEW x \in 1..Len(list), list[x].type # "link"
             PROVE  list[x].hash \in ObjectsOf(t)
    OBVIOUS
<1>1. PICK p : p = list[x].path
    OBVIOUS
<1>2. PICK line : line = Lines(t)[p]
    OBVIOUS
<1>3. line = Line(list[x]) /\ p \in Paths
    BY <1>1, <1>2, NodesListed DEF IsList
<1>4. line[2] = list[x].type /\ line[5] = list[x].hash
    BY <1>3 DEF Line
<1>5. line # NoLine
    <2>1. NoLine[2] = "none"
        BY DEF NoLine
    <2> QED BY <1>4, <2>1 DEF Typed
<1>6. p \in ListedIn(t)
    BY <1>2, <1>3, <1>5 DEF ListedIn
<1>7. PICK k \in 1..Len(Listing(t)) : Listing(t)[k].type = line[2] /\ Listing(t)[k].hash = line[5]
    <2>1. PICK found : found = Sorted(ListedIn(t))
        OBVIOUS
    <2>2. IsSortedList(found, ListedIn(t))
        BY <2>1, SortedTheorem DEF ListedIn
    <2>3. PICK k \in 1..Len(found) : found[k] = p
        BY <1>6, <2>2 DEF IsSortedList
    <2>4. Len(Listing(t)) = Len(found)
        BY <2>1, ListingIs, PathsOfList
    <2>5. Listing(t)[k] = [path |-> p, type |-> line[2], mode |-> line[3],
                           target |-> line[4], hash |-> line[5], time |-> 0]
        BY <1>2, <2>1, <2>3, <2>4, ListingIs
    <2> QED BY <2>4, <2>5
<1>8. Listing(t)[k] \in ToSet(Listing(t))
    <2>1. DOMAIN Listing(t) = 1..Len(Listing(t))
        BY ListingIs, PathsOfList
    <2> QED BY <2>1 DEF ToSet
<1> QED
    BY <1>4, <1>7, <1>8 DEF ObjectsOf

-----------------------------------------------------------------------------
(* Merged lists. *)

\* The part of Children that stands for the first k nodes.
IsPart(u, list, d) ==
    u = [k \in 0..Len(list) |->
            IF k = 0 THEN <<>>
            ELSE IF Parent[list[k].path] = d THEN Append(u[k - 1], list[k])
            ELSE u[k - 1]]

LEMMA PartIs ==
    ASSUME NEW list, Len(list) \in Nat, NEW d
    PROVE  \E u : IsPart(u, list, d) /\ Children(list, d) = u[Len(list)]
<1> DEFINE n == Len(list)
           D == {list} \X {d} \X (0..n)
           m == [x \in D |-> x[3]]
<1>0. n \in Nat
    OBVIOUS
<1> HIDE DEF n
<1>1. ChildrenRec!Local(D, m)
    <2> SUFFICES ASSUME NEW x \in D, NEW g, NEW h, \A y \in D : m[y] < m[x] => g[y] = h[y]
                 PROVE  ChildrenDef(g, x) = ChildrenDef(h, x)
        BY DEF ChildrenRec!Local
    <2>1. x[3] # 0 => <<x[1], x[2], x[3] - 1>> \in D /\ m[<<x[1], x[2], x[3] - 1>>] < m[x]
        BY <1>0
    <2>2. x[3] # 0 => g[<<x[1], x[2], x[3] - 1>>] = h[<<x[1], x[2], x[3] - 1>>]
        BY <2>1
    <2> QED BY <2>2 DEF ChildrenDef
<1>2. m \in [D -> Nat]
    BY <1>0
<1>3. PICK f : f = [x \in D |-> ChildrenDef(f, x)]
    <2> HIDE DEF m, D
    <2> QED BY <1>1, <1>2, ChildrenRec!Recursive, WellOrdered DEF ChildrenRec!WellOrder
<1> DEFINE u == [k \in 0..n |-> f[<<list, d, k>>]]
<1>4. ASSUME NEW k \in 0..n
      PROVE  u[k] = IF k = 0 THEN <<>>
                    ELSE IF Parent[list[k].path] = d THEN Append(u[k - 1], list[k])
                    ELSE u[k - 1]
    <2>1. f[<<list, d, k>>] = ChildrenDef(f, <<list, d, k>>)
        BY <1>3
    <2>2. k # 0 => u[k - 1] = f[<<list, d, k - 1>>]
        BY <1>0
    <2> QED BY <2>1, <2>2 DEF ChildrenDef
<1>5. IsPart(u, list, d)
    <2> HIDE DEF u
    <2>1. u = [k \in 0..n |-> u[k]]
        BY DEF u
    <2> QED BY <1>4, <2>1 DEF IsPart, n
<1>6. \E v : v = [k \in 0..Len(list) |->
                    IF k = 0 THEN <<>>
                    ELSE IF Parent[list[k].path] = d THEN Append(v[k - 1], list[k])
                    ELSE v[k - 1]]
    BY <1>5 DEF IsPart
<1> QED
    BY <1>6 DEF Children, IsPart

\* The lists that are made from each pair of positions of two lists on.
IsRest(w, x, y, below) ==
    w = [m \in (1..Len(x) + 1) \X (1..Len(y) + 1) |-> MergeTurn(x, y, below, w, m)]

LEMMA CombinedIs ==
    ASSUME NEW x, NEW y, Len(x) \in Nat, Len(y) \in Nat, NEW below
    PROVE  \E w : IsRest(w, x, y, below) /\ Combined(x, y, below) = w[<<1, 1>>]
<1>0. PICK a, b \in Nat : a = Len(x) /\ b = Len(y)
    OBVIOUS
<1> DEFINE P == (1..a + 1) \X (1..b + 1)
           D == {x} \X {y} \X {below} \X P
           m == [z \in D |-> a + b + 2 - z[4][1] - z[4][2]]
<1>1. CombinedRec!Local(D, m)
    <2> SUFFICES ASSUME NEW z \in D, NEW g, NEW h, \A v \in D : m[v] < m[z] => g[v] = h[v]
                 PROVE  CombinedDef(g, z) = CombinedDef(h, z)
        BY DEF CombinedRec!Local
    <2>1. PICK i \in 1..a + 1, j \in 1..b + 1 : z = <<x, y, below, <<i, j>>>>
        OBVIOUS
    <2>2. ASSUME NEW k \in 1..a + 1, NEW l \in 1..b + 1, k + l > i + j
          PROVE  g[<<x, y, below, <<k, l>>>>] = h[<<x, y, below, <<k, l>>>>]
        <3>1. <<x, y, below, <<k, l>>>> \in D
            OBVIOUS
        <3>2. m[<<x, y, below, <<k, l>>>>] = a + b + 2 - k - l /\ m[z] = a + b + 2 - i - j
            BY <2>1
        <3>3. a + b + 2 - k - l < a + b + 2 - i - j
            BY <2>2
        <3> QED BY <3>1, <3>2, <3>3
    <2> DEFINE v == [q \in P |-> g[<<x, y, below, q>>]]
               w == [q \in P |-> h[<<x, y, below, q>>]]
    <2>3. i <= a => v[<<i + 1, j>>] = w[<<i + 1, j>>]
        BY <2>2
    <2>4. i <= a /\ j <= b => v[<<i + 1, j + 1>>] = w[<<i + 1, j + 1>>]
        BY <2>2
    <2>5. j <= b => v[<<i, j + 1>>] = w[<<i, j + 1>>]
        BY <2>2
    <2>6. /\ CombinedDef(g, z) = MergeTurn(x, y, below, v, <<i, j>>)
          /\ CombinedDef(h, z) = MergeTurn(x, y, below, w, <<i, j>>)
        BY <2>1, <1>0, Zenon DEF CombinedDef
    <2> HIDE DEF v, w
    <2>7. MergeTurn(x, y, below, v, <<i, j>>) = MergeTurn(x, y, below, w, <<i, j>>)
        <3>1. CASE i > a /\ j > b
            BY <1>0, <3>1 DEF MergeTurn
        <3>2. CASE j > b /\ i <= a
            BY <1>0, <2>3, <3>2 DEF MergeTurn
        <3>3. CASE j <= b
            BY <1>0, <2>3, <2>4, <2>5, <3>3 DEF MergeTurn
        <3> QED BY <3>1, <3>2, <3>3
    <2> QED BY <2>6, <2>7
<1>2. m \in [D -> Nat]
    OBVIOUS
<1>3. PICK f : f = [z \in D |-> CombinedDef(f, z)]
    <2> HIDE DEF m, D
    <2> QED BY <1>1, <1>2, CombinedRec!Recursive, WellOrdered DEF CombinedRec!WellOrder
<1> DEFINE w == [q \in P |-> f[<<x, y, below, q>>]]
<1>4. w = [q \in P |-> MergeTurn(x, y, below, w, q)]
    <2>1. \A q \in P : f[<<x, y, below, q>>] = CombinedDef(f, <<x, y, below, q>>)
        BY <1>3
    <2>2. \A q \in P : CombinedDef(f, <<x, y, below, q>>) = MergeTurn(x, y, below, w, q)
        BY <1>0, Zenon DEF CombinedDef
    <2>3. w = [q \in P |-> w[q]]
        OBVIOUS
    <2>4. \A q \in P : w[q] = MergeTurn(x, y, below, w, q)
        BY <2>1, <2>2
    <2> HIDE DEF w, P
    <2> QED BY <2>3, <2>4, Zenon
<1>5. IsRest(w, x, y, below)
    <2> HIDE DEF w
    <2> QED BY <1>0, <1>4 DEF IsRest
<1>6. \E v : v = [q \in (1..Len(x) + 1) \X (1..Len(y) + 1) |-> MergeTurn(x, y, below, v, q)]
    <2> HIDE DEF w
    <2> QED BY <1>5 DEF IsRest
<1> QED
    BY <1>6 DEF Combined, IsRest

\* The nodes of one directory are in the order of their paths.
Siblings(list) ==
    \A x, y \in 1..Len(list) :
        x < y /\ Parent[list[x].path] = Parent[list[y].path] => Rank[list[x].path] < Rank[list[y].path]

\* The children of d among the first k nodes of a list.
ArePart(c, list, d, k) ==
    /\ c \in Seq(ToSet(list))
    /\ \A e \in 1..Len(c) : \E x \in 1..k : c[e] = list[x] /\ Parent[list[x].path] = d
    /\ \A x \in 1..k : Parent[list[x].path] = d => \E e \in 1..Len(c) : c[e] = list[x]
    /\ Siblings(list) => \A e, l \in 1..Len(c) : e < l => Rank[c[e].path] < Rank[c[l].path]

LEMMA NextPart ==
    ASSUME NEW list, IsList(list), NEW d, NEW k \in 1..Len(list), NEW c, ArePart(c, list, d, k - 1)
    PROVE  ArePart(IF Parent[list[k].path] = d THEN Append(c, list[k]) ELSE c, list, d, k)
<1>0. Len(list) \in Nat /\ k \in Nat /\ k >= 1 /\ DOMAIN list = 1..Len(list)
    BY OrderedIs
<1>00. /\ c \in Seq(ToSet(list))
       /\ \A e \in 1..Len(c) : \E x \in 1..k - 1 : c[e] = list[x] /\ Parent[list[x].path] = d
       /\ \A x \in 1..k - 1 : Parent[list[x].path] = d => \E e \in 1..Len(c) : c[e] = list[x]
       /\ Siblings(list) => \A e, l \in 1..Len(c) : e < l => Rank[c[e].path] < Rank[c[l].path]
    BY DEF ArePart
<1>01. \A x \in 1..k : x = k \/ x \in 1..k - 1
    BY <1>0
<1>02. 1..k - 1 \subseteq 1..k
    BY <1>0
<1>1. CASE Parent[list[k].path] # d
    <2>1. \A x \in 1..k : Parent[list[x].path] = d => \E e \in 1..Len(c) : c[e] = list[x]
        BY <1>00, <1>01, <1>1
    <2>2. \A e \in 1..Len(c) : \E x \in 1..k : c[e] = list[x] /\ Parent[list[x].path] = d
        BY <1>00, <1>02
    <2>3. ArePart(c, list, d, k)
        BY <1>00, <2>1, <2>2, Zenon DEF ArePart
    <2> QED BY <1>1, <2>3
<1>2. CASE Parent[list[k].path] = d
    <2>0. PICK w : w = Append(c, list[k])
        OBVIOUS
    <2>1. list[k] \in ToSet(list)
        BY <1>0 DEF ToSet
    <2>2. w \in Seq(ToSet(list)) /\ Len(w) = Len(c) + 1 /\ Len(c) \in Nat
        BY <1>00, <2>0, <2>1
    <2>3. (\A e \in 1..Len(c) : w[e] = c[e]) /\ w[Len(w)] = list[k]
        BY <1>00, <2>0, <2>1, <2>2
    <2>4. \A e \in 1..Len(w) : e = Len(w) \/ e \in 1..Len(c)
        BY <2>2
    <2>5. \A e \in 1..Len(w) : \E x \in 1..k : w[e] = list[x] /\ Parent[list[x].path] = d
        <3> TAKE e \in 1..Len(w)
        <3>1. CASE e = Len(w)
            BY <1>0, <1>2, <2>3, <3>1
        <3>2. CASE e \in 1..Len(c)
            BY <1>00, <1>02, <2>3, <3>2
        <3> QED BY <2>4, <3>1, <3>2
    <2>6. \A x \in 1..k : Parent[list[x].path] = d => \E e \in 1..Len(w) : w[e] = list[x]
        <3>1. 1..Len(c) \subseteq 1..Len(w) /\ Len(w) \in 1..Len(w)
            BY <2>2
        <3> TAKE x \in 1..k
        <3>2. CASE x = k
            BY <2>3, <3>1, <3>2
        <3>3. CASE x \in 1..k - 1
            BY <1>00, <2>3, <3>1, <3>3
        <3> QED BY <1>01, <3>2, <3>3
    <2>7. ASSUME Siblings(list), NEW e \in 1..Len(w), NEW l \in 1..Len(w), e < l
          PROVE  Rank[w[e].path] < Rank[w[l].path]
        <3>1. e \in 1..Len(c)
            BY <2>2, <2>4, <2>7
        <3>2. CASE l \in 1..Len(c)
            BY <1>00, <2>3, <2>7, <3>1, <3>2
        <3>3. CASE l = Len(w)
            <4>1. PICK x \in 1..k - 1 : c[e] = list[x] /\ Parent[list[x].path] = d
                BY <1>00, <3>1
            <4>2. x \in 1..Len(list) /\ x < k
                BY <1>0
            <4>3. Rank[list[x].path] < Rank[list[k].path]
                BY <1>2, <2>7, <4>1, <4>2 DEF Siblings
            <4> QED BY <2>3, <3>1, <3>3, <4>1, <4>3
        <3> QED BY <2>4, <3>2, <3>3
    <2>8. ArePart(w, list, d, k)
        BY <2>2, <2>5, <2>6, <2>7 DEF ArePart
    <2> QED BY <1>2, <2>0, <2>8
<1> QED
    BY <1>1, <1>2

\* The children of a directory, in their order.
LEMMA ChildrenAre ==
    ASSUME NEW list, IsList(list), NEW d
    PROVE  ArePart(Children(list, d), list, d, Len(list))
<1>0. Len(list) \in Nat /\ DOMAIN list = 1..Len(list)
    BY OrderedIs
<1>1. PICK u : IsPart(u, list, d) /\ Children(list, d) = u[Len(list)]
    BY <1>0, PartIs
<1> DEFINE P == {k \in 0..Len(list) : ArePart(u[k], list, d, k)}
<1>2. 0 \in P
    <2>1. u[0] = <<>>
        BY <1>0, <1>1 DEF IsPart
    <2>2. ArePart(<<>>, list, d, 0)
        BY <1>0 DEF ArePart
    <2> QED BY <1>0, <2>1, <2>2
<1>3. ASSUME NEW k \in 1..Len(list), k - 1 \in P PROVE k \in P
    <2>1. k \in 0..Len(list) /\ k # 0
        BY <1>0
    <2>2. u[k] = IF Parent[list[k].path] = d THEN Append(u[k - 1], list[k]) ELSE u[k - 1]
        BY <1>1, <2>1, Zenon DEF IsPart
    <2>3. ArePart(u[k], list, d, k)
        BY <1>3, <2>2, NextPart, Zenon
    <2> QED BY <2>1, <2>3
<1>4. 0..Len(list) \subseteq P
    <2> HIDE DEF P
    <2> QED BY <1>0, <1>2, <1>3, Counting
<1> QED
    BY <1>0, <1>1, <1>4

\* The walk looks below the nodes of the two lists, and nowhere else.
LEMMA CombinedLocal ==
    ASSUME NEW x, NEW y, Len(x) \in Nat, Len(y) \in Nat, NEW g, NEW h,
           \A i \in 1..Len(x) : g[x[i].path] = h[x[i].path],
           \A j \in 1..Len(y) : g[y[j].path] = h[y[j].path]
    PROVE  Combined(x, y, g) = Combined(x, y, h)
<1>0. PICK a, b \in Nat : a = Len(x) /\ b = Len(y)
    OBVIOUS
<1>1. PICK v : IsRest(v, x, y, g) /\ Combined(x, y, g) = v[<<1, 1>>]
    BY CombinedIs
<1>2. PICK w : IsRest(w, x, y, h) /\ Combined(x, y, h) = w[<<1, 1>>]
    BY CombinedIs
<1>3. /\ \A i \in 1..a : Kept(x[i], g) = Kept(x[i], h)
      /\ \A j \in 1..b : Kept(y[j], g) = Kept(y[j], h)
    BY <1>0 DEF Kept
<1>4. \A m \in (1..a + 1) \X (1..b + 1) :
          v[m] = MergeTurn(x, y, g, v, m) /\ w[m] = MergeTurn(x, y, h, w, m)
    BY <1>0, <1>1, <1>2 DEF IsRest
<1> DEFINE P == {s \in 0..a + b : \A i \in 1..a + 1, j \in 1..b + 1 :
                    a + b + 2 - i - j <= s => v[<<i, j>>] = w[<<i, j>>]}
<1>5. ASSUME NEW i \in 1..a + 1, NEW j \in 1..b + 1,
             \A k \in 1..a + 1, l \in 1..b + 1 : k + l > i + j => v[<<k, l>>] = w[<<k, l>>]
      PROVE  v[<<i, j>>] = w[<<i, j>>]
    <2>1. /\ v[<<i, j>>] = MergeTurn(x, y, g, v, <<i, j>>)
          /\ w[<<i, j>>] = MergeTurn(x, y, h, w, <<i, j>>)
        BY <1>4
    <2>2. i <= a => v[<<i + 1, j>>] = w[<<i + 1, j>>] /\ Kept(x[i], g) = Kept(x[i], h)
        BY <1>3, <1>5
    <2>3. i <= a /\ j <= b => v[<<i + 1, j + 1>>] = w[<<i + 1, j + 1>>]
        BY <1>5
    <2>4. j <= b => v[<<i, j + 1>>] = w[<<i, j + 1>>] /\ Kept(y[j], g) = Kept(y[j], h)
        BY <1>3, <1>5
    <2>5. MergeTurn(x, y, g, v, <<i, j>>) = MergeTurn(x, y, h, w, <<i, j>>)
        <3>1. CASE i > a /\ j > b
            BY <1>0, <3>1 DEF MergeTurn
        <3>2. CASE j > b /\ i <= a
            BY <1>0, <2>2, <3>2 DEF MergeTurn
        <3>3. CASE j <= b
            BY <1>0, <2>2, <2>3, <2>4, <3>3 DEF MergeTurn
        <3> QED BY <3>1, <3>2, <3>3
    <2> QED BY <2>1, <2>5
<1>6. 0 \in P
    <2>1. ASSUME NEW i \in 1..a + 1, NEW j \in 1..b + 1, a + b + 2 - i - j <= 0
          PROVE  v[<<i, j>>] = w[<<i, j>>]
        <3>1. \A k \in 1..a + 1, l \in 1..b + 1 : ~(k + l > i + j)
            BY <2>1
        <3> QED BY <1>5, <3>1
    <2> QED BY <2>1
<1>7. ASSUME NEW s \in 1..a + b, s - 1 \in P PROVE s \in P
    <2>1. ASSUME NEW i \in 1..a + 1, NEW j \in 1..b + 1, a + b + 2 - i - j <= s
          PROVE  v[<<i, j>>] = w[<<i, j>>]
        <3>1. ASSUME NEW k \in 1..a + 1, NEW l \in 1..b + 1, k + l > i + j
              PROVE  v[<<k, l>>] = w[<<k, l>>]
            <4>1. a + b + 2 - k - l <= s - 1
                BY <2>1, <3>1
            <4> QED BY <1>7, <4>1
        <3> QED BY <1>5, <3>1
    <2> QED BY <2>1
<1>8. 0..a + b \subseteq P
    <2>1. a + b \in Nat
        OBVIOUS
    <2> HIDE DEF P
    <2> QED BY <1>6, <1>7, <2>1, Counting
<1>9. v[<<1, 1>>] = w[<<1, 1>>]
    <2>1. a + b \in 0..a + b
        OBVIOUS
    <2>2. a + b \in P
        <3> HIDE DEF P
        <3> QED BY <1>8, <2>1
    <2> QED BY <2>2
<1> QED
    BY <1>1, <1>2, <1>9

\* What a merge makes of each directory.
IsMerge(f, a, b) ==
    f = [d \in Paths \cup {Root} |-> Combined(Children(a, d), Children(b, d), f)]

LEMMA MergeIs ==
    ASSUME NEW a, NEW b, IsList(a), IsList(b)
    PROVE  \E f : IsMerge(f, a, b) /\ Merge(a, b) = f[Root]
<1> DEFINE D == {a} \X {b} \X (Paths \cup {Root})
           deep(p) == IF p = Root THEN Len(Order) + 1 ELSE Len(Order) - Rank[p]
           m == [z \in D |-> deep(z[3])]
<1>0. /\ \A p \in Paths \cup {Root} : deep(p) \in Nat
      /\ \A p \in Paths : deep(p) < deep(Parent[p])
    BY RankType, OrderIsFinite, TreeAssumption
<1> HIDE DEF deep
<1>1. MergeRec!Local(D, m)
    <2> SUFFICES ASSUME NEW z \in D, NEW g, NEW h, \A y \in D : m[y] < m[z] => g[y] = h[y]
                 PROVE  MergeDef(g, z) = MergeDef(h, z)
        BY DEF MergeRec!Local
    <2> DEFINE v == [q \in Paths \cup {Root} |-> g[<<z[1], z[2], q>>]]
               w == [q \in Paths \cup {Root} |-> h[<<z[1], z[2], q>>]]
    <2>1. PICK d : d \in Paths \cup {Root} /\ z = <<a, b, d>>
        OBVIOUS
    <2>2. ASSUME NEW q \in Paths, Parent[q] = d PROVE v[q] = w[q]
        <3>1. <<a, b, q>> \in D /\ m[<<a, b, q>>] < m[z]
            BY <1>0, <2>1, <2>2
        <3>2. g[<<a, b, q>>] = h[<<a, b, q>>]
            BY <3>1
        <3> QED BY <2>1, <3>2
    <2> HIDE DEF v, w, m
    <2>3. PICK x, y : x = Children(a, d) /\ y = Children(b, d)
        OBVIOUS
    <2>4. /\ Len(x) \in Nat /\ \A i \in 1..Len(x) : v[x[i].path] = w[x[i].path]
          /\ Len(y) \in Nat /\ \A j \in 1..Len(y) : v[y[j].path] = w[y[j].path]
        <3>1. ASSUME NEW list, IsList(list), NEW c, c = Children(list, d)
              PROVE  Len(c) \in Nat /\ \A i \in 1..Len(c) : v[c[i].path] = w[c[i].path]
            <4>1. ArePart(c, list, d, Len(list))
                BY <3>1, ChildrenAre
            <4>2. \A i \in 1..Len(c) : c[i].path \in Paths /\ Parent[c[i].path] = d
                BY <3>1, <4>1 DEF ArePart, IsList
            <4>3. Len(c) \in Nat
                BY <4>1 DEF ArePart
            <4> QED BY <2>2, <4>2, <4>3
        <3> QED BY <2>3, <3>1
    <2>5. Combined(x, y, v) = Combined(x, y, w)
        BY <2>4, CombinedLocal
    <2>6. MergeDef(g, z) = Combined(x, y, v) /\ MergeDef(h, z) = Combined(x, y, w)
        BY <2>1, <2>3 DEF MergeDef, v, w
    <2> QED BY <2>5, <2>6
<1>2. m \in [D -> Nat]
    BY <1>0
<1>3. PICK f : f = [z \in D |-> MergeDef(f, z)]
    <2> HIDE DEF m, D
    <2> QED BY <1>1, <1>2, MergeRec!Recursive, WellOrdered DEF MergeRec!WellOrder
<1> DEFINE e == [d \in Paths \cup {Root} |-> f[<<a, b, d>>]]
<1>4. IsMerge(e, a, b)
    <2>1. \A d \in Paths \cup {Root} : f[<<a, b, d>>] = MergeDef(f, <<a, b, d>>)
        BY <1>3
    <2>2. \A d \in Paths \cup {Root} :
              MergeDef(f, <<a, b, d>>) = Combined(Children(a, d), Children(b, d), e)
        BY DEF MergeDef
    <2>3. e = [d \in Paths \cup {Root} |-> e[d]]
        OBVIOUS
    <2>4. \A d \in Paths \cup {Root} : e[d] = Combined(Children(a, d), Children(b, d), e)
        BY <2>1, <2>2
    <2> HIDE DEF e
    <2> QED BY <2>3, <2>4, Zenon DEF IsMerge
<1>5. \E l : l = [d \in Paths \cup {Root} |-> Combined(Children(a, d), Children(b, d), l)]
    <2> HIDE DEF e
    <2> QED BY <1>4 DEF IsMerge
<1> QED
    BY <1>5 DEF Merge, IsMerge

Has(list, n) == \E x \in 1..Len(list) : list[x] = n

\* p is below d, or all paths are.
Beneath(d, p) == d = Root \/ d \in Above[p]

\* A list of what is below d: every node is in a directory of the list, and is
\* or is below one of the children of d.
IsBranch(list, d) ==
    /\ IsList(list) /\ Siblings(list)
    /\ \A x \in 1..Len(list) :
          /\ \E y \in 1..Len(list) :
                Parent[list[y].path] = d /\ (y = x \/ list[y].path \in Above[list[x].path])
          /\ \/ Parent[list[x].path] = d
             \/ \E y \in 1..Len(list) : list[y].type = "dir" /\ list[y].path = Parent[list[x].path]

LEMMA UnderBranch ==
    ASSUME NEW d \in Paths \cup {Root}, NEW list, IsBranch(list, d), NEW x \in 1..Len(list)
    PROVE  Beneath(d, list[x].path)
<1>1. PICK y \in 1..Len(list) : Parent[list[y].path] = d /\ (y = x \/ list[y].path \in Above[list[x].path])
    BY DEF IsBranch
<1>2. list[x].path \in Paths /\ list[y].path \in Paths
    BY DEF IsBranch, IsList
<1>3. d # Root => d \in Above[list[y].path]
    BY <1>1, <1>2, ParentAbove
<1> QED
    BY <1>1, <1>2, <1>3, AboveOrder DEF Beneath

\* Two children of a directory have nothing below them in common.
LEMMA ApartBelow ==
    ASSUME NEW p \in Paths, NEW q \in Paths, Parent[p] = Parent[q], p # q, NEW e \in Paths
    PROVE  ~(p \in {e} \cup Above[e] /\ q \in {e} \cup Above[e])
<1>1. p \notin Above[q] /\ q \notin Above[p]
    <2>1. ASSUME NEW r \in Paths, NEW s \in Paths, Parent[r] = Parent[s], r \in Above[s] PROVE FALSE
        <3>1. Parent[s] # Root /\ (r = Parent[s] \/ r \in Above[Parent[s]])
            BY <2>1, AboveParent
        <3>2. Parent[r] \in Paths /\ Rank[Parent[r]] < Rank[r]
            BY <2>1, <3>1, ParentRank
        <3>3. r = Parent[r] \/ Rank[r] < Rank[Parent[r]]
            BY <2>1, <3>1, <3>2, AboveOrder
        <3>4. Rank[r] \in Nat /\ Rank[Parent[r]] \in Nat
            BY <3>2, RankNat
        <3> QED BY <3>2, <3>3, <3>4
    <2> QED BY <2>1
<1> QED
    BY <1>1, AboveChain

\* A node, what is below it, and a list.
Joined(n, t, w) == (<<n>> \o t) \o w

IsJoined(s, n, t, w) ==
    /\ IsList(s)
    /\ Len(t) \in Nat /\ Len(w) \in Nat
    /\ Len(s) = 1 + Len(t) + Len(w)
    /\ s[1] = n
    /\ \A x \in 1..Len(t) : s[1 + x] = t[x]
    /\ \A x \in 1..Len(w) : s[1 + Len(t) + x] = w[x]

LEMMA JoinedIs ==
    ASSUME NEW n, n.path \in Paths, NEW t, IsList(t), NEW w, IsList(w), NEW s, s = Joined(n, t, w)
    PROVE  IsJoined(s, n, t, w)
<1> DEFINE V == {n} \cup ToSet(t) \cup ToSet(w)
<1>1. t \in Seq(ToSet(t)) /\ w \in Seq(ToSet(w))
    BY DEF IsList
<1>2. t \in Seq(V) /\ w \in Seq(V) /\ n \in V
    <2>1. ToSet(t) \subseteq V /\ ToSet(w) \subseteq V
        OBVIOUS
    <2> HIDE DEF V
    <2>2. \A A, v : v \in Seq(A) /\ A \subseteq V => v \in Seq(V)
        OBVIOUS
    <2> QED BY <1>1, <2>1, <2>2 DEF V
<1> HIDE DEF V
<1>3. /\ s \in Seq(V) /\ Len(t) \in Nat /\ Len(w) \in Nat /\ Len(s) = 1 + Len(t) + Len(w)
      /\ s[1] = n
      /\ \A x \in 1..Len(t) : s[1 + x] = t[x]
      /\ \A x \in 1..Len(w) : s[1 + Len(t) + x] = w[x]
    <2> DEFINE h == <<n>> \o t
    <2>1. h \in Seq(V) /\ Len(h) = 1 + Len(t) /\ h[1] = n /\ \A x \in 1..Len(t) : h[1 + x] = t[x]
        BY <1>2
    <2> HIDE DEF h
    <2>2. s = h \o w
        BY DEF h, Joined
    <2>3. Len(t) \in Nat /\ Len(w) \in Nat
        BY <1>2
    <2>40. /\ h \o w \in Seq(V) /\ Len(h \o w) = Len(h) + Len(w)
           /\ \A x \in 1..Len(h) : (h \o w)[x] = h[x]
           /\ \A x \in 1..Len(w) : (h \o w)[Len(h) + x] = w[x]
        <3>1. \A u, v \in Seq(V) :
                 /\ u \o v \in Seq(V) /\ Len(u \o v) = Len(u) + Len(v)
                 /\ \A x \in 1..Len(u) : (u \o v)[x] = u[x]
                 /\ \A x \in 1..Len(v) : (u \o v)[Len(u) + x] = v[x]
            OBVIOUS
        <3> QED BY <1>2, <2>1, <3>1, Zenon
    <2>4. s \in Seq(V) /\ Len(s) = Len(h) + Len(w)
        BY <2>2, <2>40, Zenon
    <2>5. \A x \in 1..Len(h) : s[x] = h[x]
        BY <2>2, <2>40, Zenon
    <2>6. \A x \in 1..Len(w) : s[Len(h) + x] = w[x]
        BY <2>2, <2>40, Zenon
    <2>7. \A x \in 1..Len(t) : 1 + x \in 1..Len(h)
        BY <2>1, <2>3
    <2> QED BY <2>1, <2>3, <2>4, <2>5, <2>6, <2>7
<1>4. s \in Seq(ToSet(s))
    <2>1. s = [x \in DOMAIN s |-> s[x]]
        BY <1>3
    <2> QED BY <1>3, <2>1, MappedList, Zenon
<1>5. \A x \in 1..Len(s) : \/ x = 1
                           \/ \E y \in 1..Len(t) : x = 1 + y
                           \/ \E y \in 1..Len(w) : x = 1 + Len(t) + y
    <2> TAKE x \in 1..Len(s)
    <2>1. CASE x = 1
        BY <2>1
    <2>2. CASE x \in 2..1 + Len(t)
        <3>1. x - 1 \in 1..Len(t) /\ x = 1 + (x - 1)
            BY <1>3, <2>2
        <3> QED BY <3>1
    <2>3. CASE x > 1 + Len(t)
        <3>1. x - 1 - Len(t) \in 1..Len(w) /\ x = 1 + Len(t) + (x - 1 - Len(t))
            BY <1>3, <2>3
        <3> QED BY <3>1
    <2> QED BY <1>3, <2>1, <2>2, <2>3
<1>6. \A x \in 1..Len(s) : s[x].path \in Paths
    BY <1>3, <1>5 DEF IsList
<1> QED
    BY <1>3, <1>4, <1>6 DEF IsList, IsJoined

\* Where each position of such a list comes from.
LEMMA JoinedFrom ==
    ASSUME NEW n, n.path \in Paths, NEW t, IsList(t), NEW w, IsList(w), NEW s, s = Joined(n, t, w),
           NEW x \in 1..Len(s)
    PROVE  \/ x = 1 /\ s[x] = n
           \/ \E y \in 1..Len(t) : x = 1 + y /\ s[x] = t[y]
           \/ \E y \in 1..Len(w) : x = 1 + Len(t) + y /\ s[x] = w[y]
<1>1. /\ IsList(s)
      /\ Len(t) \in Nat /\ Len(w) \in Nat
      /\ Len(s) = 1 + Len(t) + Len(w)
      /\ s[1] = n
      /\ \A y \in 1..Len(t) : s[1 + y] = t[y]
      /\ \A y \in 1..Len(w) : s[1 + Len(t) + y] = w[y]
    <2>1. IsJoined(s, n, t, w)
        BY JoinedIs, ZenonT(60)
    <2> QED BY <2>1 DEF IsJoined
<1>2. CASE x = 1
    BY <1>1, <1>2
<1>3. CASE x \in 2..1 + Len(t)
    <2>1. x - 1 \in 1..Len(t) /\ x = 1 + (x - 1)
        BY <1>1, <1>3
    <2> QED BY <1>1, <2>1
<1>4. CASE x > 1 + Len(t)
    <2>1. x - 1 - Len(t) \in 1..Len(w) /\ x = 1 + Len(t) + (x - 1 - Len(t))
        BY <1>1, <1>4
    <2> QED BY <1>1, <2>1
<1> QED
    BY <1>1, <1>2, <1>3, <1>4

IsJoinedBranch(s, n, t, w, d) ==
    /\ IsBranch(s, d)
    /\ \A m : Has(s, m) <=> m = n \/ Has(t, m) \/ Has(w, m)
    /\ \A x \in 1..Len(s) : Parent[s[x].path] = d => s[x] = n \/ Has(w, s[x])

LEMMA JoinedBranch ==
    ASSUME NEW d \in Paths \cup {Root}, NEW n, n.path \in Paths, Parent[n.path] = d,
           NEW t, IsBranch(t, n.path), Len(t) = 0 \/ n.type = "dir",
           NEW w, IsBranch(w, d),
           \A x \in 1..Len(w) : Parent[w[x].path] = d => Rank[n.path] < Rank[w[x].path],
           NEW s, s = Joined(n, t, w)
    PROVE  IsJoinedBranch(s, n, t, w, d)
<1>1. /\ IsList(t) /\ Siblings(t) /\ IsList(w) /\ Siblings(w)
    BY DEF IsBranch
<1>2. /\ IsList(s)
      /\ Len(t) \in Nat /\ Len(w) \in Nat
      /\ Len(s) = 1 + Len(t) + Len(w)
      /\ s[1] = n
      /\ \A y \in 1..Len(t) : s[1 + y] = t[y]
      /\ \A y \in 1..Len(w) : s[1 + Len(t) + y] = w[y]
    <2>1. IsJoined(s, n, t, w)
        BY <1>1, JoinedIs, ZenonT(60)
    <2> QED BY <2>1 DEF IsJoined
<1>3. /\ 1 \in 1..Len(s)
      /\ \A y \in 1..Len(t) : 1 + y \in 1..Len(s)
      /\ \A y \in 1..Len(w) : 1 + Len(t) + y \in 1..Len(s)
    BY <1>2
<1>4. \A x \in 1..Len(s) :
         \/ x = 1 /\ s[x] = n
         \/ \E y \in 1..Len(t) : x = 1 + y /\ s[x] = t[y]
         \/ \E y \in 1..Len(w) : x = 1 + Len(t) + y /\ s[x] = w[y]
    BY <1>1, JoinedFrom
<1>5. \A m : Has(s, m) <=> m = n \/ Has(t, m) \/ Has(w, m)
    <2>1. ASSUME NEW m, Has(s, m) PROVE m = n \/ Has(t, m) \/ Has(w, m)
        BY <1>4, <2>1 DEF Has
    <2>2. ASSUME NEW m, m = n \/ Has(t, m) \/ Has(w, m) PROVE Has(s, m)
        <3>1. CASE m = n
            BY <1>2, <1>3, <3>1 DEF Has
        <3>2. CASE Has(t, m)
            BY <1>2, <1>3, <3>2 DEF Has
        <3>3. CASE Has(w, m)
            BY <1>2, <1>3, <3>3 DEF Has
        <3> QED BY <2>2, <3>1, <3>2, <3>3
    <2> QED BY <2>1, <2>2
<1>6. ASSUME NEW y \in 1..Len(t)
      PROVE  /\ t[y].path \in Paths /\ n.path \in Above[t[y].path]
             /\ Parent[t[y].path] # d
             /\ n.path \in {Parent[t[y].path]} \cup Above[Parent[t[y].path]] /\ Parent[t[y].path] \in Paths
    <2>1. Beneath(n.path, t[y].path) /\ n.path # Root
        BY UnderBranch, TreeAssumption
    <2>2. t[y].path \in Paths
        BY <1>1 DEF IsList
    <2>3. n.path \in Above[t[y].path]
        BY <2>1 DEF Beneath
    <2>4. Parent[t[y].path] # Root /\ (n.path = Parent[t[y].path] \/ n.path \in Above[Parent[t[y].path]])
        BY <2>2, <2>3, AboveParent
    <2>5. Parent[t[y].path] \in Paths
        BY <2>2, <2>4, ParentRank
    <2>6. Parent[t[y].path] # d
        <3>1. SUFFICES ASSUME Parent[t[y].path] = d PROVE FALSE
            OBVIOUS
        <3>2. d \in Paths /\ Rank[d] < Rank[n.path]
            BY <2>5, <3>1, ParentRank, TreeAssumption
        <3>3. n.path = d \/ Rank[n.path] < Rank[d]
            BY <2>4, <2>5, <3>1, AboveOrder
        <3>4. Rank[d] \in Nat /\ Rank[n.path] \in Nat
            BY <3>2, RankNat
        <3> QED BY <3>2, <3>3, <3>4
    <2> QED BY <2>2, <2>3, <2>4, <2>5, <2>6
<1>7. \A x \in 1..Len(s) : Parent[s[x].path] = d => s[x] = n \/ Has(w, s[x])
    BY <1>4, <1>6 DEF Has
<1>8. ASSUME NEW y \in 1..Len(w) PROVE n.path \notin {w[y].path} \cup Above[w[y].path]
    <2>1. PICK z \in 1..Len(w) : Parent[w[z].path] = d /\ (z = y \/ w[z].path \in Above[w[y].path])
        BY DEF IsBranch
    <2>2. w[z].path \in Paths /\ w[y].path \in Paths
        BY <1>1 DEF IsList
    <2>3. Rank[n.path] < Rank[w[z].path] /\ Rank[n.path] \in Nat
        BY <2>1, RankNat
    <2>4. n.path # w[z].path
        BY <2>3
    <2> QED BY <2>1, <2>2, <2>4, ApartBelow
<1>9. Siblings(s)
    <2> SUFFICES ASSUME NEW x \in 1..Len(s), NEW z \in 1..Len(s), x < z,
                        Parent[s[x].path] = Parent[s[z].path]
                 PROVE  Rank[s[x].path] < Rank[s[z].path]
        BY DEF Siblings
    <2>1. CASE x = 1 /\ s[x] = n
        <3>1. Parent[s[z].path] = d
            BY <2>1
        <3>2. CASE z = 1
            BY <2>1, <3>2
        <3>3. CASE \E y \in 1..Len(t) : z = 1 + y /\ s[z] = t[y]
            BY <1>6, <3>1, <3>3
        <3>4. CASE \E y \in 1..Len(w) : z = 1 + Len(t) + y /\ s[z] = w[y]
            BY <2>1, <3>1, <3>4
        <3> QED BY <1>4, <3>2, <3>3, <3>4
    <2>2. ASSUME NEW y \in 1..Len(t), x = 1 + y, s[x] = t[y] PROVE Rank[s[x].path] < Rank[s[z].path]
        <3>1. z # 1
            BY <2>2
        <3>2. ASSUME NEW v \in 1..Len(t), z = 1 + v, s[z] = t[v] PROVE Rank[s[x].path] < Rank[s[z].path]
            <4>1. y < v
                BY <2>2, <3>2
            <4>2. Parent[t[y].path] = Parent[t[v].path]
                BY <2>2, <3>2
            <4>3. Rank[t[y].path] < Rank[t[v].path]
                BY <1>1, <4>1, <4>2 DEF Siblings
            <4> QED BY <2>2, <3>2, <4>3
        <3>3. ASSUME NEW v \in 1..Len(w), s[z] = w[v] PROVE FALSE
            <4>1. Parent[w[v].path] = Parent[t[y].path]
                BY <2>2, <3>3
            <4>2. n.path \in {Parent[w[v].path]} \cup Above[Parent[w[v].path]] /\ Parent[w[v].path] \in Paths
                BY <1>6, <4>1
            <4>3. w[v].path \in Paths /\ Parent[w[v].path] # Root
                BY <1>1, <4>2, TreeAssumption DEF IsList
            <4>4. n.path \in Above[w[v].path]
                BY <4>2, <4>3, AboveIs
            <4> QED BY <1>8, <4>4
        <3> QED BY <1>4, <3>1, <3>2, <3>3
    <2>3. ASSUME NEW y \in 1..Len(w), x = 1 + Len(t) + y, s[x] = w[y] PROVE Rank[s[x].path] < Rank[s[z].path]
        <3>1. PICK v \in 1..Len(w) : z = 1 + Len(t) + v /\ s[z] = w[v]
            <4>1. z # 1 /\ \A u \in 1..Len(t) : z # 1 + u
                BY <1>2, <2>3
            <4> QED BY <1>4, <4>1
        <3>2. y < v
            BY <1>2, <2>3, <3>1
        <3>3. Parent[w[y].path] = Parent[w[v].path]
            BY <2>3, <3>1
        <3>4. Rank[w[y].path] < Rank[w[v].path]
            BY <1>1, <3>2, <3>3 DEF Siblings
        <3> QED BY <2>3, <3>1, <3>4
    <2> QED BY <1>4, <2>1, <2>2, <2>3
<1>10. ASSUME NEW x \in 1..Len(s)
       PROVE  \E y \in 1..Len(s) : Parent[s[y].path] = d /\ (y = x \/ s[y].path \in Above[s[x].path])
    <2>1. CASE x = 1 /\ s[x] = n
        BY <2>1
    <2>2. CASE \E y \in 1..Len(t) : x = 1 + y /\ s[x] = t[y]
        <3>1. n.path \in Above[s[x].path]
            BY <1>6, <2>2
        <3> QED BY <1>2, <1>3, <3>1
    <2>3. ASSUME NEW y \in 1..Len(w), x = 1 + Len(t) + y, s[x] = w[y]
          PROVE  \E z \in 1..Len(s) : Parent[s[z].path] = d /\ (z = x \/ s[z].path \in Above[s[x].path])
        <3>1. PICK z \in 1..Len(w) : Parent[w[z].path] = d /\ (z = y \/ w[z].path \in Above[w[y].path])
            BY DEF IsBranch
        <3>2. 1 + Len(t) + z \in 1..Len(s) /\ s[1 + Len(t) + z] = w[z]
            BY <1>2, <1>3
        <3>3. CASE z = y
            BY <2>3, <3>1, <3>3
        <3>4. CASE w[z].path \in Above[w[y].path]
            BY <2>3, <3>1, <3>2, <3>4
        <3> QED BY <3>1, <3>3, <3>4
    <2> QED BY <1>4, <2>1, <2>2, <2>3
<1>11. ASSUME NEW x \in 1..Len(s)
       PROVE  \/ Parent[s[x].path] = d
              \/ \E y \in 1..Len(s) : s[y].type = "dir" /\ s[y].path = Parent[s[x].path]
    <2>1. CASE x = 1 /\ s[x] = n
        BY <2>1
    <2>2. ASSUME NEW y \in 1..Len(t), x = 1 + y, s[x] = t[y]
          PROVE  \E z \in 1..Len(s) : s[z].type = "dir" /\ s[z].path = Parent[s[x].path]
        <3>1. n.type = "dir"
            BY <1>2
        <3>2. \/ Parent[t[y].path] = n.path
              \/ \E z \in 1..Len(t) : t[z].type = "dir" /\ t[z].path = Parent[t[y].path]
            BY DEF IsBranch
        <3>3. CASE Parent[t[y].path] = n.path
            BY <1>2, <1>3, <2>2, <3>1, <3>3
        <3>4. ASSUME NEW z \in 1..Len(t), t[z].type = "dir" /\ t[z].path = Parent[t[y].path]
              PROVE  \E v \in 1..Len(s) : s[v].type = "dir" /\ s[v].path = Parent[s[x].path]
            <4>1. 1 + z \in 1..Len(s) /\ s[1 + z] = t[z]
                BY <1>2, <1>3
            <4> QED BY <2>2, <3>4, <4>1
        <3> QED BY <3>2, <3>3, <3>4
    <2>3. ASSUME NEW y \in 1..Len(w), x = 1 + Len(t) + y, s[x] = w[y]
          PROVE  \/ Parent[s[x].path] = d
                 \/ \E z \in 1..Len(s) : s[z].type = "dir" /\ s[z].path = Parent[s[x].path]
        <3>1. \/ Parent[w[y].path] = d
              \/ \E z \in 1..Len(w) : w[z].type = "dir" /\ w[z].path = Parent[w[y].path]
            BY DEF IsBranch
        <3>2. ASSUME NEW z \in 1..Len(w), w[z].type = "dir" /\ w[z].path = Parent[w[y].path]
              PROVE  \E v \in 1..Len(s) : s[v].type = "dir" /\ s[v].path = Parent[s[x].path]
            <4>1. 1 + Len(t) + z \in 1..Len(s) /\ s[1 + Len(t) + z] = w[z]
                BY <1>2, <1>3
            <4> QED BY <2>3, <3>2, <4>1
        <3> QED BY <2>3, <3>1, <3>2
    <2> QED BY <1>4, <2>1, <2>2, <2>3
<1>12. IsBranch(s, d)
    BY <1>2, <1>9, <1>10, <1>11 DEF IsBranch
<1> QED
    BY <1>5, <1>7, <1>12 DEF IsJoinedBranch

\* The children of one directory, in the order of their paths.
AreChildren(x, d) ==
    /\ IsList(x)
    /\ \A i \in 1..Len(x) : Parent[x[i].path] = d
    /\ \A i, j \in 1..Len(x) : i < j => Rank[x[i].path] < Rank[x[j].path]

\* The nodes that the walk takes from the positions i and j on.
Taken(x, y, i, j) ==
    {y[l] : l \in j..Len(y)} \cup
    {x[k] : k \in {k \in i..Len(x) : \A l \in j..Len(y) : y[l].path # x[k].path}}

\* w lists the nodes of S, which are children of d, and what is below them.
ListsAll(w, S, d, below) ==
    /\ IsBranch(w, d)
    /\ \A m : Has(w, m) <=> \E n \in S : m = n \/ (n.type = "dir" /\ Has(below[n.path], m))
    /\ \A x \in 1..Len(w) : Parent[w[x].path] = d => w[x] \in S

LEMMA EmptyBranch ==
    ASSUME NEW d
    PROVE  IsBranch(<<>>, d) /\ Len(<<>>) = 0 /\ \A m : ~Has(<<>>, m)
<1>1. PICK r : r = <<>> /\ Len(r) = 0
    OBVIOUS
<1>2. r \in Seq(ToSet(r))
    BY <1>1
<1>3. IsBranch(r, d) /\ \A m : ~Has(r, m)
    BY <1>1, <1>2 DEF IsBranch, IsList, Siblings, Has
<1> QED
    BY <1>1, <1>3

LEMMA KeptFirst ==
    ASSUME NEW d \in Paths \cup {Root}, NEW n, n.path \in Paths, Parent[n.path] = d,
           NEW below, n.type = "dir" => IsBranch(below[n.path], n.path),
           NEW S, NEW w, ListsAll(w, S, d, below),
           \A e \in S : Rank[n.path] < Rank[e.path],
           NEW s, s = Kept(n, below) \o w
    PROVE  ListsAll(s, {n} \cup S, d, below)
<1>1. PICK t : t = IF n.type = "dir" THEN below[n.path] ELSE <<>>
    OBVIOUS
<1>2. s = Joined(n, t, w)
    BY <1>1 DEF Joined, Kept
<1>3. IsBranch(t, n.path) /\ (Len(t) = 0 \/ n.type = "dir")
    <2>1. CASE n.type = "dir"
        BY <1>1, <2>1
    <2>2. CASE n.type # "dir"
        BY <1>1, <2>2, EmptyBranch
    <2> QED BY <2>1, <2>2
<1>4. \A m : Has(t, m) <=> n.type = "dir" /\ Has(below[n.path], m)
    <2>1. CASE n.type = "dir"
        BY <1>1, <2>1
    <2>2. CASE n.type # "dir"
        BY <1>1, <2>2, EmptyBranch
    <2> QED BY <2>1, <2>2
<1>5. /\ IsBranch(w, d)
      /\ \A m : Has(w, m) <=> \E e \in S : m = e \/ (e.type = "dir" /\ Has(below[e.path], m))
      /\ \A x \in 1..Len(w) : Parent[w[x].path] = d => w[x] \in S
    BY DEF ListsAll
<1>6. \A x \in 1..Len(w) : Parent[w[x].path] = d => Rank[n.path] < Rank[w[x].path]
    BY <1>5
<1>7. /\ IsBranch(s, d)
      /\ \A m : Has(s, m) <=> m = n \/ Has(t, m) \/ Has(w, m)
      /\ \A x \in 1..Len(s) : Parent[s[x].path] = d => s[x] = n \/ Has(w, s[x])
    <2>1. IsJoinedBranch(s, n, t, w, d)
        BY <1>2, <1>3, <1>5, <1>6, JoinedBranch, ZenonT(60)
    <2> QED BY <2>1 DEF IsJoinedBranch
<1>8. ASSUME NEW m
      PROVE  Has(s, m) <=> \E e \in {n} \cup S : m = e \/ (e.type = "dir" /\ Has(below[e.path], m))
    BY <1>4, <1>5, <1>7
<1>9. ASSUME NEW x \in 1..Len(s), Parent[s[x].path] = d PROVE s[x] \in {n} \cup S
    BY <1>5, <1>7, <1>9 DEF Has
<1> QED
    BY <1>7, <1>8, <1>9 DEF ListsAll

\* The first node of what is left, and the positions after it.
IsFirst(x, y, i, j, d, n, k, l) ==
    /\ k \in 1..Len(x) + 1 /\ l \in 1..Len(y) + 1 /\ k + l > i + j
    /\ n.path \in Paths /\ Parent[n.path] = d
    /\ Taken(x, y, i, j) = {n} \cup Taken(x, y, k, l)
    /\ \A e \in Taken(x, y, k, l) : Rank[n.path] < Rank[e.path]

HasFirst(x, y, i, j, d, below, w) ==
    \E n : \E k \in 1..Len(x) + 1, l \in 1..Len(y) + 1 :
        /\ IsFirst(x, y, i, j, d, n, k, l)
        /\ MergeTurn(x, y, below, w, <<i, j>>) = Kept(n, below) \o w[<<k, l>>]

LEMMA MergeTurnIs ==
    ASSUME NEW d, NEW x, AreChildren(x, d), NEW y, AreChildren(y, d),
           NEW i \in 1..Len(x) + 1, NEW j \in 1..Len(y) + 1, i <= Len(x) \/ j <= Len(y),
           NEW below, NEW w
    PROVE  HasFirst(x, y, i, j, d, below, w)
<1>1. /\ IsList(x) /\ \A k \in 1..Len(x) : Parent[x[k].path] = d /\ x[k].path \in Paths
      /\ IsList(y) /\ \A l \in 1..Len(y) : Parent[y[l].path] = d /\ y[l].path \in Paths
      /\ \A k, l \in 1..Len(x) : k < l => Rank[x[k].path] < Rank[x[l].path]
      /\ \A k, l \in 1..Len(y) : k < l => Rank[y[k].path] < Rank[y[l].path]
    BY DEF AreChildren, IsList
<1>2. PICK a, b \in Nat : a = Len(x) /\ b = Len(y)
    BY <1>1, OrderedIs
<1>3. /\ \A k \in 1..a : Rank[x[k].path] \in Nat
      /\ \A l \in 1..b : Rank[y[l].path] \in Nat
    BY <1>1, <1>2, RankNat
<1>4. \A k, l : Taken(x, y, k, l) =
              {y[v] : v \in l..b} \cup {x[u] : u \in {u \in k..a : \A v \in l..b : y[v].path # x[u].path}}
    BY <1>2 DEF Taken
<1>45. MergeTurn(x, y, below, w, <<i, j>>) =
          IF i > a /\ j > b THEN <<>>
          ELSE IF j > b \/ (i <= a /\ Rank[x[i].path] < Rank[y[j].path])
               THEN Kept(x[i], below) \o w[<<i + 1, j>>]
          ELSE Kept(y[j], below) \o
               w[<<IF i <= a /\ x[i].path = y[j].path THEN i + 1 ELSE i, j + 1>>]
    <2>1. <<i, j>>[1] = i /\ <<i, j>>[2] = j
        OBVIOUS
    <2> QED BY <1>2, <2>1, Zenon DEF MergeTurn
<1>46. /\ i <= a => ~(i > a)
       /\ j <= b => ~(j > b)
    BY <1>2
<1>5. CASE i <= a /\ (j > b \/ Rank[x[i].path] < Rank[y[j].path])
    <2>1. MergeTurn(x, y, below, w, <<i, j>>) = Kept(x[i], below) \o w[<<i + 1, j>>]
        BY <1>45, <1>46, <1>5, Zenon
    <2>2. i \in 1..a /\ i + 1 \in 1..a + 1
        BY <1>2, <1>5
    <2>3. \A u \in i..a : u = i \/ u \in i + 1..a
        BY <2>2
    <2>4. \A v \in j..b : v \in 1..b /\ Rank[x[i].path] < Rank[y[v].path]
        <3> TAKE v \in j..b
        <3>1. v \in 1..b /\ j \in 1..b /\ (v = j \/ j < v)
            BY <1>2
        <3>2. Rank[x[i].path] < Rank[y[j].path]
            BY <1>5, <3>1
        <3>3. v = j \/ Rank[y[j].path] < Rank[y[v].path]
            BY <1>1, <1>2, <3>1
        <3> QED BY <1>3, <2>2, <3>1, <3>2, <3>3
    <2>5. \A v \in j..b : y[v].path # x[i].path
        <3> TAKE v \in j..b
        <3>1. Rank[x[i].path] \in Nat /\ Rank[x[i].path] < Rank[y[v].path]
            BY <1>3, <2>2, <2>4
        <3> QED BY <3>1
    <2>6. Taken(x, y, i, j) = {x[i]} \cup Taken(x, y, i + 1, j)
        <3>1. i \in i..a /\ i + 1..a \subseteq i..a
            BY <2>2
        <3> QED BY <1>4, <2>3, <2>5, <3>1
    <2>7. ASSUME NEW e \in Taken(x, y, i + 1, j) PROVE Rank[x[i].path] < Rank[e.path]
        <3>1. CASE \E v \in j..b : e = y[v]
            BY <2>4, <3>1
        <3>2. CASE \E u \in i + 1..a : e = x[u]
            <4>1. PICK u \in i + 1..a : e = x[u]
                BY <3>2
            <4>2. u \in 1..a /\ i < u
                BY <2>2
            <4> QED BY <1>1, <1>2, <2>2, <4>1, <4>2
        <3> QED BY <1>4, <3>1, <3>2
    <2>8. IsFirst(x, y, i, j, d, x[i], i + 1, j)
        BY <1>1, <1>2, <2>2, <2>6, <2>7 DEF IsFirst
    <2> QED BY <1>2, <2>1, <2>2, <2>8 DEF HasFirst
<1>6. CASE j <= b /\ ~(i <= a /\ Rank[x[i].path] < Rank[y[j].path])
    <2> DEFINE k == IF i <= a /\ x[i].path = y[j].path THEN i + 1 ELSE i
    <2>1. MergeTurn(x, y, below, w, <<i, j>>) = Kept(y[j], below) \o w[<<k, j + 1>>]
        BY <1>45, <1>46, <1>6, Zenon
    <2>2. j \in 1..b /\ j + 1 \in 1..b + 1 /\ k \in 1..a + 1 /\ (k = i \/ k = i + 1) /\ i \in 1..a + 1
        BY <1>2, <1>6
    <2>3. \A v \in j..b : v = j \/ v \in j + 1..b
        BY <2>2
    <2>4. \A u \in k..a : u \in 1..a /\ Rank[y[j].path] < Rank[x[u].path]
        <3> TAKE u \in k..a
        <3>1. u \in 1..a /\ i \in 1..a /\ (u = i \/ i < u)
            BY <2>2
        <3>2. Rank[y[j].path] <= Rank[x[i].path]
            BY <1>3, <1>6, <2>2, <3>1
        <3>3. u = i \/ Rank[x[i].path] < Rank[x[u].path]
            BY <1>1, <1>2, <3>1
        <3>4. u = i => x[i].path # y[j].path
            BY <2>2, <3>1
        <3>5. u = i => Rank[x[i].path] # Rank[y[j].path]
            BY <1>1, <1>2, <2>2, <3>1, <3>4, RankInjective
        <3> QED BY <1>3, <2>2, <3>1, <3>2, <3>3, <3>5
    <2>5. \A u \in k..a : x[u].path # y[j].path
        <3> TAKE u \in k..a
        <3>1. Rank[y[j].path] \in Nat /\ Rank[y[j].path] < Rank[x[u].path]
            BY <1>3, <2>2, <2>4
        <3> QED BY <3>1
    <2>6. \A u \in i..a : u \in k..a \/ (x[u].path = y[j].path)
        <3> TAKE u \in i..a
        <3>1. u = i \/ u \in i + 1..a
            BY <2>2
        <3>2. k = i \/ (k = i + 1 /\ x[i].path = y[j].path)
            OBVIOUS
        <3> QED BY <2>2, <3>1, <3>2
    <2>60. k..a \subseteq i..a /\ j \in j..b /\ j + 1..b \subseteq j..b
        BY <2>2
    <2> HIDE DEF k
    <2>7. Taken(x, y, i, j) = {y[j]} \cup Taken(x, y, k, j + 1)
        <3>1. {y[v] : v \in j..b} = {y[j]} \cup {y[v] : v \in j + 1..b}
            BY <2>3, <2>60
        <3>2. ASSUME NEW u
              PROVE  /\ u \in i..a /\ (\A v \in j..b : y[v].path # x[u].path)
                     <=> u \in k..a /\ (\A v \in j + 1..b : y[v].path # x[u].path)
            BY <2>3, <2>5, <2>6, <2>60
        <3>3. {u \in i..a : \A v \in j..b : y[v].path # x[u].path} =
                  {u \in k..a : \A v \in j + 1..b : y[v].path # x[u].path}
            BY <3>2
        <3>4. /\ Taken(x, y, i, j) =
                    {y[v] : v \in j..b} \cup {x[u] : u \in {u \in i..a : \A v \in j..b : y[v].path # x[u].path}}
              /\ Taken(x, y, k, j + 1) =
                    {y[v] : v \in j + 1..b} \cup
                    {x[u] : u \in {u \in k..a : \A v \in j + 1..b : y[v].path # x[u].path}}
            BY <1>4
        <3>5. PICK A, B, X, Y : /\ A = {y[v] : v \in j..b} /\ B = {y[v] : v \in j + 1..b}
                                /\ X = {u \in i..a : \A v \in j..b : y[v].path # x[u].path}
                                /\ Y = {u \in k..a : \A v \in j + 1..b : y[v].path # x[u].path}
            OBVIOUS
        <3>6. Taken(x, y, i, j) = A \cup {x[u] : u \in X} /\ Taken(x, y, k, j + 1) = B \cup {x[u] : u \in Y}
            BY <3>4, <3>5
        <3>7. A = {y[j]} \cup B /\ X = Y
            BY <3>1, <3>3, <3>5
        <3> QED BY <3>6, <3>7, Zenon
    <2>8. ASSUME NEW e \in Taken(x, y, k, j + 1) PROVE Rank[y[j].path] < Rank[e.path]
        <3>1. CASE \E u \in k..a : e = x[u]
            BY <2>4, <3>1
        <3>2. CASE \E v \in j + 1..b : e = y[v]
            <4>1. PICK v \in j + 1..b : e = y[v]
                BY <3>2
            <4>2. v \in 1..b /\ j < v
                BY <2>2
            <4> QED BY <1>1, <1>2, <2>2, <4>1, <4>2
        <3> QED BY <1>4, <3>1, <3>2
    <2>9. IsFirst(x, y, i, j, d, y[j], k, j + 1)
        BY <1>1, <1>2, <2>2, <2>7, <2>8 DEF IsFirst
    <2> QED BY <1>2, <2>1, <2>2, <2>9 DEF HasFirst
<1>7. i <= a \/ j <= b
    BY <1>2
<1>8. (i <= a /\ j > b) \/ j <= b
    BY <1>2, <1>7
<1> QED
    BY <1>5, <1>6, <1>8

LEMMA CombinedLists ==
    ASSUME NEW d \in Paths \cup {Root}, NEW x, AreChildren(x, d), NEW y, AreChildren(y, d), NEW below,
           \A n \in Taken(x, y, 1, 1) : n.type = "dir" => IsBranch(below[n.path], n.path)
    PROVE  ListsAll(Combined(x, y, below), Taken(x, y, 1, 1), d, below)
<1>1. PICK a, b \in Nat : a = Len(x) /\ b = Len(y)
    BY OrderedIs DEF AreChildren
<1>2. PICK w : IsRest(w, x, y, below) /\ Combined(x, y, below) = w[<<1, 1>>]
    BY <1>1, CombinedIs
<1>3. \A m \in (1..a + 1) \X (1..b + 1) : w[m] = MergeTurn(x, y, below, w, m)
    BY <1>1, <1>2 DEF IsRest
<1> DEFINE Good(i, j) ==
              (\A n \in Taken(x, y, i, j) : n.type = "dir" => IsBranch(below[n.path], n.path))
              => ListsAll(w[<<i, j>>], Taken(x, y, i, j), d, below)
<1>4. ASSUME NEW i \in 1..a + 1, NEW j \in 1..b + 1,
             \A k \in 1..a + 1, l \in 1..b + 1 : k + l > i + j => Good(k, l)
      PROVE  Good(i, j)
    <2>1. SUFFICES ASSUME \A n \in Taken(x, y, i, j) : n.type = "dir" => IsBranch(below[n.path], n.path)
                   PROVE  ListsAll(w[<<i, j>>], Taken(x, y, i, j), d, below)
        OBVIOUS
    <2>2. w[<<i, j>>] = MergeTurn(x, y, below, w, <<i, j>>)
        BY <1>3
    <2>3. CASE i > a /\ j > b
        <3>1. Taken(x, y, i, j) = {}
            BY <1>1, <2>3 DEF Taken
        <3>2. w[<<i, j>>] = <<>>
            BY <1>1, <2>2, <2>3 DEF MergeTurn
        <3>3. PICK r : r = <<>> /\ Len(r) = 0 /\ IsBranch(r, d) /\ \A m : ~Has(r, m)
            BY EmptyBranch
        <3>4. ListsAll(r, {}, d, below)
            BY <3>3 DEF ListsAll
        <3> QED BY <3>1, <3>2, <3>3, <3>4
    <2>4. CASE i <= a \/ j <= b
        <3>1. PICK n : \E k \in 1..Len(x) + 1, l \in 1..Len(y) + 1 :
                  /\ IsFirst(x, y, i, j, d, n, k, l)
                  /\ MergeTurn(x, y, below, w, <<i, j>>) = Kept(n, below) \o w[<<k, l>>]
            <4>1. HasFirst(x, y, i, j, d, below, w)
                <5>1. i \in 1..Len(x) + 1 /\ j \in 1..Len(y) + 1 /\ (i <= Len(x) \/ j <= Len(y))
                    BY <1>1, <2>4
                <5> QED BY <5>1, MergeTurnIs, ZenonT(60)
            <4> QED BY <4>1 DEF HasFirst
        <3>2. PICK k \in 1..a + 1, l \in 1..b + 1 :
                  /\ IsFirst(x, y, i, j, d, n, k, l)
                  /\ w[<<i, j>>] = Kept(n, below) \o w[<<k, l>>]
            BY <1>1, <2>2, <3>1
        <3>3. /\ k + l > i + j
              /\ n.path \in Paths /\ Parent[n.path] = d
              /\ Taken(x, y, i, j) = {n} \cup Taken(x, y, k, l)
              /\ \A e \in Taken(x, y, k, l) : Rank[n.path] < Rank[e.path]
            BY <3>2 DEF IsFirst
        <3>4. ListsAll(w[<<k, l>>], Taken(x, y, k, l), d, below)
            BY <1>4, <2>1, <3>3
        <3>5. n.type = "dir" => IsBranch(below[n.path], n.path)
            BY <2>1, <3>3
        <3> HIDE DEF Good
        <3>6. PICK S, v : S = Taken(x, y, k, l) /\ v = w[<<k, l>>]
            OBVIOUS
        <3>7. ListsAll(w[<<i, j>>], {n} \cup S, d, below)
            BY <3>2, <3>3, <3>4, <3>5, <3>6, KeptFirst
        <3> QED BY <3>3, <3>6, <3>7
    <2> QED BY <1>1, <2>3, <2>4
<1> DEFINE P == {s \in 0..a + b : \A i \in 1..a + 1, j \in 1..b + 1 : a + b + 2 - i - j <= s => Good(i, j)}
<1> HIDE DEF Good
<1>5. 0 \in P
    <2>1. ASSUME NEW i \in 1..a + 1, NEW j \in 1..b + 1, a + b + 2 - i - j <= 0 PROVE Good(i, j)
        <3>1. \A k \in 1..a + 1, l \in 1..b + 1 : ~(k + l > i + j)
            BY <2>1
        <3> QED BY <1>4, <3>1
    <2> QED BY <2>1
<1>6. ASSUME NEW s \in 1..a + b, s - 1 \in P PROVE s \in P
    <2>1. ASSUME NEW i \in 1..a + 1, NEW j \in 1..b + 1, a + b + 2 - i - j <= s PROVE Good(i, j)
        <3>1. ASSUME NEW k \in 1..a + 1, NEW l \in 1..b + 1, k + l > i + j PROVE Good(k, l)
            <4>1. a + b + 2 - k - l <= s - 1
                BY <2>1, <3>1
            <4> QED BY <1>6, <4>1
        <3> QED BY <1>4, <3>1
    <2> QED BY <2>1
<1>7. 0..a + b \subseteq P
    <2>1. a + b \in Nat
        OBVIOUS
    <2> HIDE DEF P
    <2> QED BY <1>5, <1>6, <2>1, Counting
<1>8. Good(1, 1)
    <2>1. a + b \in 0..a + b
        OBVIOUS
    <2>2. a + b \in P
        <3> HIDE DEF P
        <3> QED BY <1>7, <2>1
    <2> QED BY <2>2
<1> QED
    BY <1>2, <1>8 DEF Good

\* Of what is below d but not in it, there is a directory in d.
LEMMA StepDown ==
    ASSUME NEW d \in Paths \cup {Root}
    PROVE  \A p \in Paths : Beneath(d, p) /\ Parent[p] # d => \E c \in Above[p] : Parent[c] = d
<1> DEFINE Good(p) == Beneath(d, p) /\ Parent[p] # d => \E c \in Above[p] : Parent[c] = d
           Bad == {p \in Paths : ~Good(p)}
<1>1. SUFFICES ASSUME Bad # {} PROVE FALSE
    OBVIOUS
<1>2. PICK p \in Bad : \A q \in Bad : Rank[p] <= Rank[q]
    <2>1. Bad \subseteq Paths
        OBVIOUS
    <2> HIDE DEF Bad
    <2> QED BY <1>1, <2>1, Lowest
<1>3. p \in Paths /\ Beneath(d, p) /\ Parent[p] # d
    BY <1>2
<1>4. Parent[p] # Root
    BY <1>3, AboveParent DEF Beneath
<1>5. /\ Parent[p] \in Paths /\ Rank[Parent[p]] < Rank[p]
      /\ Rank[p] \in Nat /\ Rank[Parent[p]] \in Nat
    BY <1>3, <1>4, ParentRank, RankNat
<1>6. Beneath(d, Parent[p])
    BY <1>3, AboveParent DEF Beneath
<1>7. Parent[p] \in Above[p] /\ Above[Parent[p]] \subseteq Above[p]
    BY <1>3, <1>4, ParentAbove, AboveOrder
<1>8. Good(Parent[p])
    <2>1. Parent[p] \notin Bad
        <3> HIDE DEF Bad
        <3> QED BY <1>2, <1>5
    <2> HIDE DEF Good
    <2> QED BY <1>5, <2>1
<1>9. \E c \in Above[p] : Parent[c] = d
    BY <1>6, <1>7, <1>8
<1> QED
    BY <1>2, <1>9

\* What a node is below is in the list, and is a directory.
LEMMA DirsAbove ==
    ASSUME NEW list, IsBranch(list, Root), NEW x \in 1..Len(list), NEW c \in Above[list[x].path]
    PROVE  \E y \in 1..Len(list) : list[y].path = c /\ list[y].type = "dir"
<1> DEFINE Good(p) == \A c_1 \in Above[p] : \E y \in 1..Len(list) : list[y].path = c_1 /\ list[y].type = "dir"
           Bad == {p \in {list[y].path : y \in 1..Len(list)} : ~Good(p)}
<1>1. SUFFICES ASSUME Bad # {} PROVE FALSE
    OBVIOUS
<1>2. PICK p \in Bad : \A q \in Bad : Rank[p] <= Rank[q]
    <2>1. Bad \subseteq Paths
        BY DEF IsBranch, IsList
    <2> HIDE DEF Bad
    <2> QED BY <1>1, <2>1, Lowest
<1>3. PICK y \in 1..Len(list) : list[y].path = p
    BY <1>2
<1>4. p \in Paths
    BY <1>3 DEF IsBranch, IsList
<1>5. CASE Parent[p] = Root
    BY <1>2, <1>4, <1>5, AboveIs
<1>6. ASSUME NEW z \in 1..Len(list), list[z].type = "dir", list[z].path = Parent[p], Parent[p] # Root
      PROVE  FALSE
    <2>1. /\ Parent[p] \in Paths /\ Rank[Parent[p]] < Rank[p]
          /\ Rank[p] \in Nat /\ Rank[Parent[p]] \in Nat
        BY <1>4, <1>6, ParentRank, RankNat
    <2>2. Parent[p] \notin Bad
        <3> HIDE DEF Bad
        <3> QED BY <1>2, <2>1
    <2>3. Good(Parent[p])
        <3> HIDE DEF Good
        <3> QED BY <1>6, <2>2
    <2>4. Above[p] = {Parent[p]} \cup Above[Parent[p]]
        BY <1>4, <1>6, AboveIs
    <2>5. Good(p)
        BY <1>6, <2>3, <2>4
    <2> HIDE DEF Good
    <2> QED BY <1>2, <2>5
<1> QED
    BY <1>3, <1>5, <1>6 DEF IsBranch

LEMMA BranchSingle ==
    ASSUME NEW d, NEW list, IsBranch(list, d), NEW x \in 1..Len(list), NEW y \in 1..Len(list),
           list[x].path = list[y].path
    PROVE  x = y
<1>1. list[x].path \in Paths /\ Len(list) \in Nat
    BY OrderedIs DEF IsBranch, IsList
<1>2. Rank[list[x].path] \in Nat
    BY <1>1, RankNat
<1>3. ~(x < y) /\ ~(y < x)
    <2>1. ASSUME NEW u \in 1..Len(list), NEW v \in 1..Len(list), u < v, list[u].path = list[v].path,
                 list[u].path = list[x].path
          PROVE  FALSE
        <3>1. Rank[list[u].path] < Rank[list[v].path]
            BY <2>1 DEF IsBranch, Siblings
        <3> QED BY <1>2, <2>1, <3>1
    <2> QED BY <2>1
<1> QED
    BY <1>1, <1>3

\* The children of a directory of a list.
LEMMA BranchChildren ==
    ASSUME NEW list, IsBranch(list, Root), NEW d, NEW c, c = Children(list, d)
    PROVE  /\ AreChildren(c, d)
           /\ \A n : Has(c, n) <=> Has(list, n) /\ Parent[n.path] = d
<1>1. IsList(list) /\ Siblings(list)
    BY DEF IsBranch
<1>2. ArePart(c, list, d, Len(list))
    BY <1>1, ChildrenAre
<1>3. /\ c \in Seq(ToSet(list))
      /\ \A e \in 1..Len(c) : \E x \in 1..Len(list) : c[e] = list[x] /\ Parent[list[x].path] = d
      /\ \A x \in 1..Len(list) : Parent[list[x].path] = d => \E e \in 1..Len(c) : c[e] = list[x]
      /\ \A e, l \in 1..Len(c) : e < l => Rank[c[e].path] < Rank[c[l].path]
    BY <1>1, <1>2 DEF ArePart
<1>4. c \in Seq(ToSet(c))
    <2>1. c = [x \in DOMAIN c |-> c[x]]
        BY <1>3
    <2> QED BY <1>3, <2>1, MappedList, Zenon
<1>5. \A i \in 1..Len(c) : c[i].path \in Paths /\ Parent[c[i].path] = d
    BY <1>1, <1>3 DEF IsList
<1>6. AreChildren(c, d)
    BY <1>3, <1>4, <1>5 DEF AreChildren, IsList
<1>7. ASSUME NEW n PROVE Has(c, n) <=> Has(list, n) /\ Parent[n.path] = d
    <2>1. ASSUME Has(c, n) PROVE Has(list, n) /\ Parent[n.path] = d
        BY <1>3, <2>1 DEF Has
    <2>2. ASSUME Has(list, n), Parent[n.path] = d PROVE Has(c, n)
        <3>1. PICK x \in 1..Len(list) : list[x] = n
            BY <2>2 DEF Has
        <3> QED BY <1>3, <2>2, <3>1 DEF Has
    <2> QED BY <2>1, <2>2
<1> QED
    BY <1>6, <1>7

\* The nodes of the second list, and those of the first whose path it leaves
\* free: all that is above them is a directory.
Overlaid(a, b, n) ==
    \/ Has(b, n)
    \/ /\ Has(a, n)
       /\ \A y \in 1..Len(b) :
             b[y].path # n.path /\ (b[y].path \in Above[n.path] => b[y].type = "dir")

\* d is a directory of a merged list, if it is in it.
Live(b, d) ==
    d = Root \/ \A y \in 1..Len(b) : b[y].path \in {d} \cup Above[d] => b[y].type = "dir"

IsMerged(r, a, b, d) ==
    /\ IsBranch(r, d)
    /\ \A n : Has(r, n) <=> Overlaid(a, b, n) /\ Beneath(d, n.path)

LEMMA MergedDirectory ==
    ASSUME NEW a, IsBranch(a, Root), NEW b, IsBranch(b, Root), NEW f, IsMerge(f, a, b),
           NEW d \in Paths \cup {Root}, Live(b, d),
           \A q \in Paths : Parent[q] = d /\ Live(b, q) => IsMerged(f[q], a, b, q)
    PROVE  IsMerged(f[d], a, b, d)
<1>1. PICK x, y : x = Children(a, d) /\ y = Children(b, d)
    OBVIOUS
<1>2. AreChildren(x, d) /\ \A n : Has(x, n) <=> Has(a, n) /\ Parent[n.path] = d
    BY <1>1, BranchChildren
<1>3. AreChildren(y, d) /\ \A n : Has(y, n) <=> Has(b, n) /\ Parent[n.path] = d
    BY <1>1, BranchChildren
<1>4. PICK T : T = Taken(x, y, 1, 1)
    OBVIOUS
<1>5. \A n : n \in T <=> Has(y, n) \/ (Has(x, n) /\ \A l \in 1..Len(y) : y[l].path # n.path)
    BY <1>4 DEF Taken, Has
<1>6. \A n : Has(a, n) \/ Has(b, n) => n.path \in Paths
    BY DEF Has, IsBranch, IsList
<1>7. ASSUME NEW n, n.path \in Paths, Parent[n.path] = d
      PROVE  n \in T <=> Overlaid(a, b, n)
    <2>1. (\A l \in 1..Len(y) : y[l].path # n.path) <=> \A l \in 1..Len(b) : b[l].path # n.path
        <3>1. ASSUME NEW l \in 1..Len(y), y[l].path = n.path PROVE \E k \in 1..Len(b) : b[k].path = n.path
            <4>1. Has(y, y[l])
                BY DEF Has
            <4>2. Has(b, y[l])
                BY <1>3, <4>1
            <4> QED BY <3>1, <4>2 DEF Has
        <3>2. ASSUME NEW k \in 1..Len(b), b[k].path = n.path PROVE \E l \in 1..Len(y) : y[l].path = n.path
            <4>1. Has(b, b[k]) /\ Parent[b[k].path] = d
                BY <1>7, <3>2 DEF Has
            <4>2. Has(y, b[k])
                BY <1>3, <4>1
            <4> QED BY <3>2, <4>2 DEF Has
        <3> QED BY <3>1, <3>2
    <2>2. \A l \in 1..Len(b) : b[l].path \in Above[n.path] => b[l].type = "dir"
        <3>1. CASE d = Root
            BY <1>7, <3>1, AboveIs
        <3>2. CASE d # Root
            <4>1. Above[n.path] = {d} \cup Above[d]
                BY <1>7, <3>2, AboveIs
            <4> QED BY <3>2, <4>1 DEF Live
        <3> QED BY <3>1, <3>2
    <2> QED BY <1>2, <1>3, <1>5, <1>7, <2>1, <2>2 DEF Overlaid
<1>8. ASSUME NEW n \in T PROVE n.path \in Paths /\ Parent[n.path] = d
    BY <1>2, <1>3, <1>5, <1>6
<1>9. ASSUME NEW n \in T, n.type = "dir" PROVE Live(b, n.path)
    <2>1. n.path \in Paths /\ Parent[n.path] = d
        BY <1>8
    <2>2. Overlaid(a, b, n)
        BY <1>7, <2>1
    <2>3. ASSUME NEW l \in 1..Len(b), b[l].path = n.path PROVE b[l].type = "dir"
        <3>1. PICK k \in 1..Len(b) : b[k] = n
            BY <2>2, <2>3 DEF Overlaid, Has
        <3>2. k = l
            BY <2>3, <3>1, BranchSingle
        <3> QED BY <1>9, <3>1, <3>2
    <2>4. ASSUME NEW l \in 1..Len(b), b[l].path \in Above[n.path] PROVE b[l].type = "dir"
        <3>1. d # Root
            BY <2>1, <2>4, AboveIs
        <3>2. Above[n.path] = {d} \cup Above[d]
            BY <2>1, <3>1, AboveIs
        <3> QED BY <2>4, <3>1, <3>2 DEF Live
    <2> QED BY <2>3, <2>4 DEF Live
<1>10. ASSUME NEW n \in T, n.type = "dir" PROVE IsMerged(f[n.path], a, b, n.path)
    BY <1>8, <1>9, <1>10
<1>11. f[d] = Combined(x, y, f)
    BY <1>1 DEF IsMerge
<1>12. ListsAll(f[d], T, d, f)
    <2>1. \A n \in Taken(x, y, 1, 1) : n.type = "dir" => IsBranch(f[n.path], n.path)
        BY <1>4, <1>10 DEF IsMerged
    <2>2. ListsAll(Combined(x, y, f), Taken(x, y, 1, 1), d, f)
        BY <1>2, <1>3, <2>1, CombinedLists
    <2> QED BY <1>4, <1>11, <2>2
<1>13. IsBranch(f[d], d) /\ \A m : Has(f[d], m) <=> \E n \in T : m = n \/ (n.type = "dir" /\ Has(f[n.path], m))
    BY <1>12 DEF ListsAll
<1>14. ASSUME NEW m, Has(f[d], m) PROVE Overlaid(a, b, m) /\ Beneath(d, m.path)
    <2>1. PICK n \in T : m = n \/ (n.type = "dir" /\ Has(f[n.path], m))
        BY <1>13, <1>14
    <2>2. n.path \in Paths /\ Parent[n.path] = d
        BY <1>8
    <2>3. Beneath(d, n.path)
        BY <2>2, ParentAbove DEF Beneath
    <2>4. CASE m = n
        BY <1>7, <2>2, <2>3, <2>4
    <2>5. CASE n.type = "dir" /\ Has(f[n.path], m)
        <3>1. Overlaid(a, b, m) /\ Beneath(n.path, m.path)
            BY <1>10, <2>5 DEF IsMerged
        <3>2. m.path \in Paths
            BY <1>6, <3>1 DEF Overlaid
        <3>3. n.path \in Above[m.path]
            BY <2>2, <3>1, TreeAssumption DEF Beneath
        <3> QED BY <2>3, <3>1, <3>2, <3>3, AboveOrder DEF Beneath
    <2> QED BY <2>1, <2>4, <2>5
<1>15. ASSUME NEW m, Overlaid(a, b, m), Beneath(d, m.path) PROVE Has(f[d], m)
    <2>1. m.path \in Paths
        BY <1>6, <1>15 DEF Overlaid
    <2>2. CASE Parent[m.path] = d
        BY <1>7, <1>13, <1>15, <2>1, <2>2
    <2>3. CASE Parent[m.path] # d
        <3>1. PICK c \in Above[m.path] : Parent[c] = d
            BY <1>15, <2>1, <2>3, StepDown
        <3>2. c \in Paths
            BY <2>1, AboveOrder
        <3>3. ASSUME Has(a, m)
              PROVE  \E n : Has(a, n) /\ n.path = c /\ n.type = "dir"
            <4>1. PICK e \in 1..Len(a) : a[e] = m
                BY <3>3 DEF Has
            <4>2. PICK y_1 \in 1..Len(a) : a[y_1].path = c /\ a[y_1].type = "dir"
                BY <4>1, DirsAbove
            <4> QED BY <4>2 DEF Has
        <3>4. ASSUME Has(b, m)
              PROVE  \E n : Has(b, n) /\ n.path = c /\ n.type = "dir"
            <4>1. PICK e \in 1..Len(b) : b[e] = m
                BY <3>4 DEF Has
            <4>2. PICK y_1 \in 1..Len(b) : b[y_1].path = c /\ b[y_1].type = "dir"
                BY <4>1, DirsAbove
            <4> QED BY <4>2 DEF Has
        <3>5. \E n : n \in T /\ n.path = c /\ n.type = "dir"
            <4>1. CASE Has(b, m)
                <5>1. PICK n : Has(b, n) /\ n.path = c /\ n.type = "dir"
                    BY <3>4, <4>1
                <5>2. Overlaid(a, b, n)
                    BY <5>1 DEF Overlaid
                <5> QED BY <1>7, <3>1, <3>2, <5>1, <5>2
            <4>2. CASE ~Has(b, m)
                <5>1. Has(a, m) /\ \A l \in 1..Len(b) : b[l].path \in Above[m.path] => b[l].type = "dir"
                    BY <1>15, <4>2 DEF Overlaid
                <5>2. CASE \E l \in 1..Len(b) : b[l].path = c
                    <6>1. PICK l \in 1..Len(b) : b[l].path = c
                        BY <5>2
                    <6>2. b[l].type = "dir" /\ Has(b, b[l])
                        BY <3>1, <5>1, <6>1 DEF Has
                    <6>3. Overlaid(a, b, b[l])
                        BY <6>2 DEF Overlaid
                    <6> QED BY <1>7, <3>1, <3>2, <6>1, <6>2, <6>3
                <5>3. CASE ~\E l \in 1..Len(b) : b[l].path = c
                    <6>1. PICK n : Has(a, n) /\ n.path = c /\ n.type = "dir"
                        BY <3>3, <5>1
                    <6>2. Above[c] \subseteq Above[m.path]
                        BY <2>1, <3>1, AboveOrder
                    <6>3. Overlaid(a, b, n)
                        BY <5>1, <5>3, <6>1, <6>2 DEF Overlaid
                    <6> QED BY <1>7, <3>1, <3>2, <6>1, <6>3
                <5> QED BY <5>2, <5>3
            <4> QED BY <4>1, <4>2
        <3>6. PICK n : n \in T /\ n.path = c /\ n.type = "dir"
            BY <3>5
        <3>7. IsMerged(f[n.path], a, b, n.path)
            BY <1>10, <3>6
        <3>8. Has(f[n.path], m)
            BY <1>15, <3>1, <3>6, <3>7 DEF IsMerged, Beneath
        <3> QED BY <1>13, <3>6, <3>8
    <2> QED BY <2>2, <2>3
<1> QED
    BY <1>13, <1>14, <1>15 DEF IsMerged

\* What index::merge makes of two lists in which the directories are those of
\* their nodes: such a list again, of the nodes of the other one and of those
\* that are not in its way.
THEOREM MergeTheorem ==
    ASSUME NEW a, IsBranch(a, Root), NEW b, IsBranch(b, Root)
    PROVE  /\ IsBranch(Merge(a, b), Root)
           /\ \A n : Has(Merge(a, b), n) <=> Overlaid(a, b, n)
<1>1. PICK f : IsMerge(f, a, b) /\ Merge(a, b) = f[Root]
    BY MergeIs DEF IsBranch
<1> DEFINE Good(d) == Live(b, d) => IsMerged(f[d], a, b, d)
           Bad == {p \in Paths : ~Good(p)}
<1>2. ASSUME NEW d \in Paths \cup {Root}, \A q \in Paths : Parent[q] = d => Good(q)
      PROVE  Good(d)
    <2>1. SUFFICES ASSUME Live(b, d) PROVE IsMerged(f[d], a, b, d)
        OBVIOUS
    <2>2. \A q \in Paths : Parent[q] = d /\ Live(b, q) => IsMerged(f[q], a, b, q)
        BY <1>2
    <2> QED BY <1>1, <2>1, <2>2, MergedDirectory
<1>3. Bad = {}
    <2>1. SUFFICES ASSUME Bad # {} PROVE FALSE
        OBVIOUS
    <2>2. PICK p \in Bad : \A q \in Bad : Rank[q] <= Rank[p]
        <3>1. Bad \subseteq Paths
            OBVIOUS
        <3> HIDE DEF Bad
        <3> QED BY <2>1, <3>1, Highest
    <2> HIDE DEF Good
    <2>3. p \in Paths
        BY <2>2
    <2>4. ASSUME NEW q \in Paths, Parent[q] = p PROVE Good(q)
        <3>1. Rank[p] < Rank[q] /\ Rank[p] \in Nat /\ Rank[q] \in Nat
            BY <2>3, <2>4, ParentRank, RankNat, TreeAssumption
        <3> QED BY <2>2, <3>1
    <2>5. Good(p)
        BY <1>2, <2>3, <2>4
    <2> QED BY <2>2, <2>5
<1>4. Good(Root)
    <2> HIDE DEF Good
    <2>1. \A q \in Paths : Good(q)
        BY <1>3
    <2> QED BY <1>2, <2>1
<1>5. IsMerged(f[Root], a, b, Root)
    BY <1>4 DEF Live
<1> QED
    BY <1>1, <1>5 DEF IsMerged, Beneath

\* The directory of every path exists, and is one.
IsDisk(disk) ==
    /\ DOMAIN disk \subseteq Paths
    /\ \A p \in DOMAIN disk :
          /\ disk[p].type \in {"file", "dir", "link"}
          /\ Parent[p] # Root => Parent[p] \in DOMAIN disk /\ disk[Parent[p]].type = "dir"

NodeOf(disk, p) == Node(p, disk[p], Hashes(disk, {})[p])

LEMMA DiskAbove ==
    ASSUME NEW disk, IsDisk(disk)
    PROVE  \A p \in DOMAIN disk : \A c \in Above[p] : c \in DOMAIN disk /\ disk[c].type = "dir"
<1> DEFINE Good(p) == \A c \in Above[p] : c \in DOMAIN disk /\ disk[c].type = "dir"
           Bad == {p \in DOMAIN disk : ~Good(p)}
<1>1. SUFFICES ASSUME Bad # {} PROVE FALSE
    OBVIOUS
<1>2. PICK p \in Bad : \A q \in Bad : Rank[p] <= Rank[q]
    <2>1. Bad \subseteq Paths
        BY DEF IsDisk
    <2> HIDE DEF Bad
    <2> QED BY <1>1, <2>1, Lowest
<1>3. p \in DOMAIN disk /\ p \in Paths /\ ~Good(p)
    BY <1>2 DEF IsDisk
<1>4. Parent[p] # Root
    BY <1>3, AboveParent
<1>5. Parent[p] \in DOMAIN disk /\ disk[Parent[p]].type = "dir"
    BY <1>3, <1>4 DEF IsDisk
<1>6. Rank[Parent[p]] < Rank[p] /\ Rank[p] \in Nat /\ Rank[Parent[p]] \in Nat
    BY <1>3, <1>4, ParentRank, RankNat
<1>7. Parent[p] \notin Bad
    <2> HIDE DEF Bad
    <2> QED BY <1>2, <1>6
<1>8. Good(Parent[p])
    <2> HIDE DEF Good
    <2> QED BY <1>5, <1>7
<1>9. Above[p] = {Parent[p]} \cup Above[Parent[p]]
    BY <1>3, <1>4, AboveIs
<1> QED
    BY <1>3, <1>5, <1>8, <1>9

\* The index of a workspace: a node of each path.
IsDiskIndex(list, disk) ==
    /\ IsList(list) /\ Ordered(list) /\ Typed(list)
    /\ IsBranch(list, Root)
    /\ \A n : Has(list, n) <=> \E p \in DOMAIN disk : n = NodeOf(disk, p)
    /\ \A x \in 1..Len(list) : list[x].path \in DOMAIN disk /\ list[x] = NodeOf(disk, list[x].path)
    /\ \A d : Kids(list, d) = {q \in DOMAIN disk : Parent[q] = d}
    /\ Hashes(disk, {})[Root] = TreeOf(list, Root)
    /\ \A p \in DOMAIN disk :
          /\ disk[p].type = "dir" => Hashes(disk, {})[p] = TreeOf(list, p)
          /\ disk[p].type = "file" => Hashes(disk, {})[p] = FileHash(disk[p].data)
          /\ disk[p].type = "link" => Hashes(disk, {})[p] = NoHash

LEMMA DiskIndex ==
    ASSUME NEW disk, IsDisk(disk), NEW list, list = IndexOf(disk, {})
    PROVE  IsDiskIndex(list, disk)
<1>0. DOMAIN disk \subseteq Paths
    BY DEF IsDisk
<1>1. Listed(disk, {}) = DOMAIN disk
    BY DEF Listed
<1>2. /\ IsList(list)
      /\ PathsOf(list) = Sorted(DOMAIN disk)
      /\ \A x \in 1..Len(list) :
            LET p == Sorted(DOMAIN disk)[x]
            IN  p \in DOMAIN disk /\ list[x] = Node(p, disk[p], Hashes(disk, {})[p])
    BY <1>0, <1>1, IndexOfIs
<1>3. /\ Shaped(list, {}) /\ Typed(list)
      /\ \A d : Kids(list, d) = {q \in DOMAIN disk : Parent[q] = d}
      /\ \A d \in DirsOf(disk, {}) : Hashes(disk, {})[d] = TreeOf(list, d)
    BY <1>1, IndexOfTrees DEF IsDisk
<1>4. Ordered(list)
    BY <1>3 DEF Shaped
<1>5. IsSortedList(Sorted(DOMAIN disk), DOMAIN disk)
    BY <1>0, SortedTheorem
<1>6. \A x \in 1..Len(list) : list[x].path \in DOMAIN disk /\ list[x] = NodeOf(disk, list[x].path)
    <2> TAKE x \in 1..Len(list)
    <2>1. PICK p : p = Sorted(DOMAIN disk)[x]
        OBVIOUS
    <2>2. p \in DOMAIN disk /\ list[x] = Node(p, disk[p], Hashes(disk, {})[p])
        BY <1>2, <2>1
    <2>3. list[x].path = p
        BY <2>2 DEF Node
    <2>4. list[x] = NodeOf(disk, p)
        BY <2>2 DEF NodeOf
    <2> QED BY <2>2, <2>3, <2>4
<1>7. ASSUME NEW p \in DOMAIN disk PROVE Has(list, NodeOf(disk, p))
    <2>1. PICK x \in 1..Len(Sorted(DOMAIN disk)) : Sorted(DOMAIN disk)[x] = p
        BY <1>5 DEF IsSortedList
    <2>2. Len(Sorted(DOMAIN disk)) = Len(list)
        BY <1>2, PathsOfList
    <2>3. x \in 1..Len(list) /\ list[x] = NodeOf(disk, p)
        BY <1>2, <2>1, <2>2 DEF NodeOf
    <2> QED BY <2>3 DEF Has
<1>8. \A n : Has(list, n) <=> \E p \in DOMAIN disk : n = NodeOf(disk, p)
    <2> TAKE n
    <2>1. ASSUME Has(list, n) PROVE \E p \in DOMAIN disk : n = NodeOf(disk, p)
        BY <1>6, <2>1 DEF Has
    <2> QED BY <1>7, <2>1
<1>9. \A p : NodeOf(disk, p).path = p /\ NodeOf(disk, p).type = disk[p].type
    BY DEF NodeOf, Node
<1>10. Siblings(list)
    BY <1>4 DEF Siblings, Ordered
<1>11. ASSUME NEW x \in 1..Len(list)
       PROVE  \E y \in 1..Len(list) : Parent[list[y].path] = Root /\ (y = x \/ list[y].path \in Above[list[x].path])
    <2>1. CASE Parent[list[x].path] = Root
        BY <2>1
    <2>2. CASE Parent[list[x].path] # Root
        <3>1. list[x].path \in Paths /\ list[x].path \in DOMAIN disk
            BY <1>0, <1>6
        <3>2. PICK c \in Above[list[x].path] : Parent[c] = Root
            BY <2>2, <3>1, StepDown DEF Beneath
        <3>3. c \in DOMAIN disk
            BY <3>1, <3>2, DiskAbove
        <3>4. PICK y \in 1..Len(list) : list[y] = NodeOf(disk, c)
            BY <1>7, <3>3 DEF Has
        <3> QED BY <1>9, <3>2, <3>4
    <2> QED BY <2>1, <2>2
<1>12. ASSUME NEW x \in 1..Len(list), Parent[list[x].path] # Root
       PROVE  \E y \in 1..Len(list) : list[y].type = "dir" /\ list[y].path = Parent[list[x].path]
    <2>1. Parent[list[x].path] \in DOMAIN disk /\ disk[Parent[list[x].path]].type = "dir"
        BY <1>6, <1>12 DEF IsDisk
    <2>2. PICK y \in 1..Len(list) : list[y] = NodeOf(disk, Parent[list[x].path])
        BY <1>7, <2>1 DEF Has
    <2> QED BY <1>9, <2>1, <2>2
<1>13. IsBranch(list, Root)
    BY <1>2, <1>10, <1>11, <1>12 DEF IsBranch
<1>14. Hashes(disk, {})[Root] = TreeOf(list, Root)
    BY <1>3 DEF DirsOf
<1>15. ASSUME NEW p \in DOMAIN disk
       PROVE  /\ disk[p].type = "dir" => Hashes(disk, {})[p] = TreeOf(list, p)
              /\ disk[p].type = "file" => Hashes(disk, {})[p] = FileHash(disk[p].data)
              /\ disk[p].type = "link" => Hashes(disk, {})[p] = NoHash
    <2>1. p \in Paths /\ p # Root
        BY <1>0, TreeAssumption
    <2>2. Hashes(disk, {})[p] = HashOf(disk, {}, Hashes(disk, {}), p)
        <3>1. Hashes(disk, {}) = [q \in Paths \cup {Root} |-> HashOf(disk, {}, Hashes(disk, {}), q)]
            BY <1>0, HashesIs
        <3> QED BY <2>1, <3>1, Zenon
    <2>3. disk[p].type = "dir" => p \in DirsOf(disk, {})
        BY <1>1 DEF DirsOf
    <2> QED BY <1>3, <2>1, <2>2, <2>3 DEF HashOf
<1> QED
    BY <1>2, <1>3, <1>4, <1>6, <1>8, <1>13, <1>14, <1>15 DEF IsDiskIndex

\* The line of a path in the tree of its directory.
LEMMA DiskLine ==
    ASSUME NEW disk, NEW list, IsDiskIndex(list, disk), NEW p \in DOMAIN disk, NEW d, d = Parent[p]
    PROVE  LineIn(TreeOf(list, d), p) = Line(NodeOf(disk, p))
<1>1. PICK x \in 1..Len(list) : list[x] = NodeOf(disk, p)
    BY DEF IsDiskIndex, Has
<1>2. list[x].path = p
    BY <1>1 DEF NodeOf, Node
<1>3. x \in Within(list, d)
    BY <1>2 DEF Within
<1>4. IsList(list) /\ Ordered(list) /\ Typed(list)
    BY DEF IsDiskIndex
<1>5. Single(list)
    BY <1>4, OrderedIs DEF Single
<1>6. IsTreeOf(TreeOf(list, d), list, d)
    BY <1>4, <1>5, SingleLines
<1>7. LineIn(TreeOf(list, d), list[x].path) = Line(list[x])
    BY <1>3, <1>6 DEF IsTreeOf
<1> QED
    BY <1>1, <1>2, <1>7

\* A tree whose lines are those of a workspace has all of it: its lines lead to
\* the trees of the directories.
LEMMA BelowRoot ==
    ASSUME NEW disk, IsDisk(disk), NEW t,
           \A p \in DOMAIN disk : Parent[p] = Root => LineIn(t, p) = Line(NodeOf(disk, p))
    PROVE  \A p \in DOMAIN disk : Lines(t)[p] = Line(NodeOf(disk, p))
<1>1. PICK list : list = IndexOf(disk, {})
    OBVIOUS
<1>2. IsDiskIndex(list, disk)
    BY <1>1, DiskIndex
<1> DEFINE Good(p) == Lines(t)[p] = Line(NodeOf(disk, p))
           Bad == {p \in DOMAIN disk : ~Good(p)}
<1>4. ASSUME NEW p \in DOMAIN disk, NEW d, d = Parent[p]
      PROVE  LineIn(TreeOf(list, d), p) = Line(NodeOf(disk, p))
    BY <1>2, <1>4, DiskLine
<1>5. SUFFICES ASSUME Bad # {} PROVE FALSE
    OBVIOUS
<1>6. PICK p \in Bad : \A q \in Bad : Rank[p] <= Rank[q]
    <2>1. Bad \subseteq Paths
        BY DEF IsDisk
    <2> HIDE DEF Bad
    <2> QED BY <1>5, <2>1, Lowest
<1>7. p \in DOMAIN disk /\ p \in Paths /\ ~Good(p)
    BY <1>6 DEF IsDisk
<1>8. Lines(t)[p] = LineIn(IF Parent[p] = Root THEN t ELSE Lines(t)[Parent[p]][5], p)
    <2>1. Lines(t) = [q \in Paths |-> LineOf(t, Lines(t), q)]
        BY LinesIs
    <2>2. Lines(t)[p] = LineOf(t, Lines(t), p)
        BY <1>7, <2>1, Zenon
    <2> QED BY <2>2 DEF LineOf
<1>9. CASE Parent[p] = Root
    BY <1>7, <1>8, <1>9
<1>10. CASE Parent[p] # Root
    <2>1. Parent[p] \in DOMAIN disk /\ disk[Parent[p]].type = "dir"
        BY <1>7, <1>10 DEF IsDisk
    <2>2. Rank[Parent[p]] < Rank[p] /\ Rank[p] \in Nat /\ Rank[Parent[p]] \in Nat
        BY <1>7, <1>10, ParentRank, RankNat
    <2>3. Parent[p] \notin Bad
        <3> HIDE DEF Bad
        <3> QED BY <1>6, <2>2
    <2>4. Lines(t)[Parent[p]] = Line(NodeOf(disk, Parent[p]))
        BY <2>1, <2>3
    <2>5. Lines(t)[Parent[p]][5] = TreeOf(list, Parent[p])
        <3>1. Hashes(disk, {})[Parent[p]] = TreeOf(list, Parent[p])
            BY <1>2, <2>1 DEF IsDiskIndex
        <3> QED BY <2>4, <3>1 DEF Line, NodeOf, Node
    <2> QED BY <1>4, <1>7, <1>8, <1>10, <2>5
<1> QED
    BY <1>9, <1>10

\* Every path of a workspace is in its tree.
LEMMA SnapshotLines ==
    ASSUME NEW disk, IsDisk(disk)
    PROVE  \A p \in DOMAIN disk : Lines(Snapshot(disk, {}))[p] = Line(NodeOf(disk, p))
<1>1. PICK list : list = IndexOf(disk, {})
    OBVIOUS
<1>2. IsDiskIndex(list, disk)
    BY <1>1, DiskIndex
<1>3. PICK t : t = Snapshot(disk, {}) /\ t = TreeOf(list, Root)
    BY <1>2 DEF IsDiskIndex, Snapshot
<1>4. ASSUME NEW p \in DOMAIN disk, Parent[p] = Root
      PROVE  LineIn(t, p) = Line(NodeOf(disk, p))
    BY <1>2, <1>3, <1>4, DiskLine
<1> QED
    BY <1>3, <1>4, BelowRoot

-----------------------------------------------------------------------------
(* Caches that have what their trees name. *)

Whole(S) ==
    \A h \in S : \A l \in h : Len(l) = 5 => (l[2] = "link" /\ l[5] = NoHash) \/ l[5] \in S

\* The node of each path for which a tree has a line is listed.
LEMMA ListingHas ==
    ASSUME NEW t, NEW p \in ListedIn(t)
    PROVE  \E n \in ToSet(Listing(t)) : n.path = p /\ n.type = Lines(t)[p][2] /\ n.hash = Lines(t)[p][5]
<1>1. /\ IsList(Listing(t))
      /\ PathsOf(Listing(t)) = Sorted(ListedIn(t))
      /\ \A x \in 1..Len(Listing(t)) :
            LET q == Sorted(ListedIn(t))[x]
                line == Lines(t)[q]
            IN  /\ q \in ListedIn(t)
                /\ Listing(t)[x] = [path |-> q, type |-> line[2], mode |-> line[3],
                                    target |-> line[4], hash |-> line[5], time |-> 0]
    BY ListingIs
<1>2. IsSortedList(Sorted(ListedIn(t)), ListedIn(t))
    BY SortedTheorem DEF ListedIn
<1>3. PICK x \in 1..Len(Sorted(ListedIn(t))) : Sorted(ListedIn(t))[x] = p
    BY <1>2 DEF IsSortedList
<1>4. x \in 1..Len(Listing(t)) /\ DOMAIN Listing(t) = 1..Len(Listing(t))
    BY <1>1, <1>3, PathsOfList
<1>5. Listing(t)[x] \in ToSet(Listing(t))
    BY <1>4 DEF ToSet
<1>6. LET n == Listing(t)[x] IN n.path = p /\ n.type = Lines(t)[p][2] /\ n.hash = Lines(t)[p][5]
    BY <1>1, <1>3, <1>4
<1> QED
    BY <1>5, <1>6

LEMMA ListingFrom ==
    ASSUME NEW t, NEW n \in ToSet(Listing(t))
    PROVE  n.path \in ListedIn(t) /\ n.type = Lines(t)[n.path][2] /\ n.hash = Lines(t)[n.path][5]
<1>1. /\ IsList(Listing(t))
      /\ \A x \in 1..Len(Listing(t)) :
            LET q == Sorted(ListedIn(t))[x]
                line == Lines(t)[q]
            IN  /\ q \in ListedIn(t)
                /\ Listing(t)[x] = [path |-> q, type |-> line[2], mode |-> line[3],
                                    target |-> line[4], hash |-> line[5], time |-> 0]
    BY ListingIs
<1>2. PICK x \in 1..Len(Listing(t)) : n = Listing(t)[x]
    BY <1>1, OrderedIs DEF ToSet
<1>3. PICK q : q = Sorted(ListedIn(t))[x]
    OBVIOUS
<1>4. PICK line : line = Lines(t)[q]
    OBVIOUS
<1>5. /\ q \in ListedIn(t)
      /\ n = [path |-> q, type |-> line[2], mode |-> line[3],
              target |-> line[4], hash |-> line[5], time |-> 0]
    BY <1>1, <1>2, <1>3, <1>4
<1>6. n.path = q /\ n.type = line[2] /\ n.hash = line[5]
    BY <1>5
<1> QED
    BY <1>4, <1>5, <1>6

\* The objects of a tree of such a cache are in it.
LEMMA WholeObjects ==
    ASSUME NEW S, Whole(S), NEW t \in S
    PROVE  ObjectsOf(t) \subseteq S
<1> DEFINE Good(p) == (Lines(t)[p][2] = "link" /\ Lines(t)[p][5] = NoHash) \/ Lines(t)[p][5] \in S
           Bad == {p \in ListedIn(t) : ~Good(p)}
<1>1. ASSUME NEW h \in S \cup {NoHash}, NEW p \in Paths, LineIn(h, p) # NoLine
      PROVE  (LineIn(h, p)[2] = "link" /\ LineIn(h, p)[5] = NoHash) \/ LineIn(h, p)[5] \in S
    <2>1. LineIn(h, p) \in h /\ Len(LineIn(h, p)) = 5
        BY <1>1, LineInIs
    <2>2. h \in S
        BY <2>1 DEF NoHash
    <2> QED BY <2>1, <2>2 DEF Whole
<1>2. Bad = {}
    <2>1. SUFFICES ASSUME Bad # {} PROVE FALSE
        OBVIOUS
    <2>2. PICK p \in Bad : \A q \in Bad : Rank[p] <= Rank[q]
        <3>1. Bad \subseteq Paths
            BY DEF ListedIn
        <3> HIDE DEF Bad
        <3> QED BY <2>1, <3>1, Lowest
    <2>3. p \in Paths /\ Lines(t)[p] # NoLine /\ p \in ListedIn(t)
        BY <2>2 DEF ListedIn
    <2>4. Lines(t)[p] = LineIn(IF Parent[p] = Root THEN t ELSE Lines(t)[Parent[p]][5], p)
        <3>1. Lines(t) = [q \in Paths |-> LineOf(t, Lines(t), q)]
            BY LinesIs
        <3>2. Lines(t)[p] = LineOf(t, Lines(t), p)
            BY <2>3, <3>1, Zenon
        <3> QED BY <3>2 DEF LineOf
    <2>5. CASE Parent[p] = Root
        <3>1. Good(p)
            BY <1>1, <2>3, <2>4, <2>5
        <3> QED BY <2>2, <3>1
    <2>6. CASE Parent[p] # Root
        <3>1. /\ Parent[p] \in Paths /\ Rank[Parent[p]] < Rank[p]
              /\ Rank[p] \in Nat /\ Rank[Parent[p]] \in Nat
            BY <2>3, <2>6, ParentRank, RankNat
        <3>2. Parent[p] \notin Bad
            <4> HIDE DEF Bad
            <4> QED BY <2>2, <3>1
        <3>3. Lines(t)[Parent[p]][5] \in S \cup {NoHash}
            <4>1. CASE Parent[p] \in ListedIn(t)
                BY <3>2, <4>1
            <4>2. CASE Parent[p] \notin ListedIn(t)
                <5>1. NoLine[5] = NoHash
                    BY DEF NoLine
                <5>2. Lines(t)[Parent[p]] = NoLine
                    BY <3>1, <4>2 DEF ListedIn
                <5> QED BY <5>1, <5>2
            <4> QED BY <4>1, <4>2
        <3>4. Good(p)
            BY <1>1, <2>3, <2>4, <2>6, <3>3
        <3> QED BY <2>2, <3>4
    <2> QED BY <2>5, <2>6
<1>3. ASSUME NEW n \in ToSet(Listing(t)), n.type # "link" PROVE n.hash \in S
    BY <1>2, <1>3, ListingFrom
<1> QED
    BY <1>3 DEF ObjectsOf

\* The objects of the tree of a workspace: its own digest, and those of what
\* it has.
ObjectsIn(disk) ==
    {Hashes(disk, {})[Root]} \cup {Hashes(disk, {})[p] : p \in {p \in DOMAIN disk : disk[p].type # "link"}}

LEMMA SnapshotObjects ==
    ASSUME NEW disk, IsDisk(disk)
    PROVE  ObjectsOf(Snapshot(disk, {})) = ObjectsIn(disk) /\ Whole(ObjectsIn(disk))
<1>1. PICK list : list = IndexOf(disk, {})
    OBVIOUS
<1>2. IsDiskIndex(list, disk)
    BY <1>1, DiskIndex
<1>3. PICK t : t = Snapshot(disk, {}) /\ t = TreeOf(list, Root) /\ t = Hashes(disk, {})[Root]
    BY <1>2 DEF IsDiskIndex, Snapshot
<1>4. \A p : /\ NodeOf(disk, p).type = disk[p].type /\ NodeOf(disk, p).path = p
             /\ NodeOf(disk, p).hash = Hashes(disk, {})[p]
             /\ Line(NodeOf(disk, p))[2] = disk[p].type /\ Line(NodeOf(disk, p))[5] = Hashes(disk, {})[p]
    BY DEF NodeOf, Node, Line
<1>5. ASSUME NEW p \in DOMAIN disk, disk[p].type # "link" PROVE Hashes(disk, {})[p] \in ObjectsOf(t)
    <2>1. Lines(t)[p] = Line(NodeOf(disk, p))
        BY <1>3, SnapshotLines
    <2>2. Lines(t)[p] # NoLine
        <3>1. Line(NodeOf(disk, p))[2] # "none"
            BY <1>4 DEF IsDisk
        <3>2. NoLine[2] = "none"
            BY DEF NoLine
        <3> QED BY <2>1, <3>1, <3>2
    <2>3. p \in ListedIn(t)
        BY <2>2 DEF ListedIn, IsDisk
    <2>4. PICK n \in ToSet(Listing(t)) : n.path = p /\ n.type = Lines(t)[p][2] /\ n.hash = Lines(t)[p][5]
        BY <2>3, ListingHas
    <2>5. n.type # "link" /\ n.hash = Hashes(disk, {})[p]
        BY <1>4, <1>5, <2>1, <2>4
    <2> QED BY <2>5 DEF ObjectsOf
<1>6. t \in ObjectsOf(t)
    BY DEF ObjectsOf
<1>7. ASSUME NEW h \in ObjectsOf(t) PROVE h \in ObjectsIn(disk)
    <2>1. /\ IsList(list) /\ Ordered(list) /\ Typed(list)
          /\ \A x \in 1..Len(list) : list[x].path \in DOMAIN disk /\ list[x] = NodeOf(disk, list[x].path)
        BY <1>2 DEF IsDiskIndex
    <2>2. /\ \A x \in Dirs(list) : list[x].hash = TreeOf(list, list[x].path)
          /\ \A x \in 1..Len(list) : list[x].type = "file" => \E c : list[x].hash = FileHash(c)
          /\ \A x \in 1..Len(list) : list[x].type = "link" => list[x].hash = NoHash
        <3>1. ASSUME NEW x \in 1..Len(list)
              PROVE  /\ list[x].type = "dir" => list[x].hash = TreeOf(list, list[x].path)
                     /\ list[x].type = "file" => \E c : list[x].hash = FileHash(c)
                     /\ list[x].type = "link" => list[x].hash = NoHash
            <4>1. PICK p \in DOMAIN disk : p = list[x].path /\ list[x] = NodeOf(disk, p)
                BY <2>1
            <4>2. /\ disk[p].type = "dir" => Hashes(disk, {})[p] = TreeOf(list, p)
                  /\ disk[p].type = "file" => Hashes(disk, {})[p] = FileHash(disk[p].data)
                  /\ disk[p].type = "link" => Hashes(disk, {})[p] = NoHash
                BY <1>2 DEF IsDiskIndex
            <4>3. list[x].type = disk[p].type /\ list[x].hash = Hashes(disk, {})[p]
                BY <1>4, <4>1
            <4> QED BY <4>1, <4>2, <4>3
        <3> QED BY <3>1 DEF Dirs
    <2>3. h = t \/ \E x \in 1..Len(list) : list[x].type # "link" /\ h = list[x].hash
        BY <1>3, <2>1, <2>2, ObjectsOfNodes
    <2>4. ASSUME NEW x \in 1..Len(list), list[x].type # "link", h = list[x].hash PROVE h \in ObjectsIn(disk)
        <3>1. PICK p \in DOMAIN disk : list[x] = NodeOf(disk, p)
            BY <2>1
        <3> QED BY <1>4, <2>4, <3>1 DEF ObjectsIn
    <2> QED BY <1>3, <2>3, <2>4 DEF ObjectsIn
<1>8. ObjectsOf(t) = ObjectsIn(disk)
    BY <1>3, <1>5, <1>6, <1>7 DEF ObjectsIn
<1>9. ASSUME NEW d, NEW l \in TreeOf(list, d), Len(l) = 5
      PROVE  (l[2] = "link" /\ l[5] = NoHash) \/ l[5] \in ObjectsIn(disk)
    <2>1. Len(<<"tree">>) # 5
        OBVIOUS
    <2>2. PICK x \in Within(list, d) : l = Line(list[x])
        BY <1>9, <2>1 DEF TreeOf, TreeHash
    <2>3. PICK p \in DOMAIN disk : list[x] = NodeOf(disk, p)
        BY <1>2, <2>2 DEF IsDiskIndex, Within
    <2>4. l[2] = disk[p].type /\ l[5] = Hashes(disk, {})[p]
        BY <1>4, <2>2, <2>3
    <2>5. disk[p].type = "link" => Hashes(disk, {})[p] = NoHash
        BY <1>2 DEF IsDiskIndex
    <2>6. disk[p].type # "link" => Hashes(disk, {})[p] \in ObjectsIn(disk)
        BY DEF ObjectsIn
    <2> QED BY <2>4, <2>5, <2>6
<1>10. Whole(ObjectsIn(disk))
    <2> SUFFICES ASSUME NEW h \in ObjectsIn(disk), NEW l \in h, Len(l) = 5
                 PROVE  (l[2] = "link" /\ l[5] = NoHash) \/ l[5] \in ObjectsIn(disk)
        BY DEF Whole
    <2>1. CASE h = t
        BY <1>3, <1>9, <2>1
    <2>2. CASE \E p \in DOMAIN disk : disk[p].type # "link" /\ h = Hashes(disk, {})[p]
        <3>1. PICK p \in DOMAIN disk : disk[p].type # "link" /\ h = Hashes(disk, {})[p]
            BY <2>2
        <3>2. disk[p].type \in {"file", "dir"}
            BY <3>1 DEF IsDisk
        <3>3. CASE disk[p].type = "dir"
            BY <1>2, <1>9, <3>1, <3>3 DEF IsDiskIndex
        <3>4. CASE disk[p].type = "file"
            <4>1. h = FileHash(disk[p].data)
                BY <1>2, <3>1, <3>4 DEF IsDiskIndex
            <4>2. l = <<"file", disk[p].data>>
                BY <4>1 DEF FileHash
            <4>3. Len(l) = 2
                BY <4>2
            <4> QED BY <4>3
        <3> QED BY <3>2, <3>3, <3>4
    <2> QED BY <1>3, <2>1, <2>2 DEF ObjectsIn
<1> QED
    BY <1>3, <1>8, <1>10
=============================================================================
