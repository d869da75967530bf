----------------------------- MODULE Recursion -----------------------------
(***************************************************************************)
(* A function that is defined by recursion exists, when the definition of  *)
(* its value at x uses its values at smaller arguments only.  That a set   *)
(* of numbers has a smallest element (WellOrder) is an assumption of each  *)
(* statement, which the modules that use them prove: this module is        *)
(* instantiated once for each recursive function, and is kept small.       *)
(***************************************************************************)
EXTENDS Integers

CONSTANT Def(_, _)      \* the value at x, by the values that a function has

\* A set of numbers that is not empty has a smallest one.
WellOrder == \A P \in SUBSET Nat : P # {} => \E a \in P : \A b \in P : a <= b

\* Local(S, m): the value at x uses only what is smaller by the measure m.
Local(S, m) ==
    \A x \in S : \A g, h :
        (\A y \in S : m[y] < m[x] => g[y] = h[y]) => Def(g, x) = Def(h, x)

\* h is right for what is smaller than n.
Upto(S, m, n, h) == \A x \in S : m[x] < n => h[x] = Def(h, x)

LEMMA Agreement ==
    ASSUME NEW S, NEW m \in [S -> Nat], WellOrder, Local(S, m), NEW n \in Nat, NEW k \in Nat,
           NEW g, NEW h, Upto(S, m, n, g), Upto(S, m, k, h)
    PROVE  \A x \in S : m[x] < n /\ m[x] < k => g[x] = h[x]
<1> DEFINE Bad == {m[x] : x \in {x \in S : m[x] < n /\ m[x] < k /\ g[x] # h[x]}}
<1>1. SUFFICES ASSUME Bad # {} PROVE FALSE
    OBVIOUS
<1>2. Bad \subseteq Nat
    OBVIOUS
<1>3. PICK b \in Bad : \A c \in Bad : b <= c
    <2> HIDE DEF Bad
    <2> QED BY <1>1, <1>2 DEF WellOrder
<1>4. PICK x \in S : m[x] = b /\ m[x] < n /\ m[x] < k /\ g[x] # h[x]
    OBVIOUS
<1>5. \A y \in S : m[y] < m[x] => g[y] = h[y]
    BY <1>3, <1>4
<1>6. Def(g, x) = Def(h, x)
    BY <1>5 DEF Local
<1> QED
    BY <1>4, <1>6 DEF Upto

LEMMA Prefixes ==
    ASSUME NEW S, NEW m \in [S -> Nat], WellOrder, Local(S, m), NEW n \in Nat
    PROVE  \E h : Upto(S, m, n, h)
<1> DEFINE Bad == {k \in Nat : ~\E h : Upto(S, m, k, h)}
<1>1. SUFFICES ASSUME Bad # {} PROVE FALSE
    OBVIOUS
<1>3. PICK k \in Bad : \A c \in Bad : k <= c
    <2>1. Bad \subseteq Nat
        OBVIOUS
    <2> HIDE DEF Bad
    <2> QED BY <1>1, <2>1 DEF WellOrder
<1>4. \A h : Upto(S, m, 0, h)
    BY DEF Upto
<1>5. k \in Nat \ {0}
    BY <1>4
<1>6. k - 1 \in Nat /\ k - 1 \notin Bad
    BY <1>3, <1>5
<1>7. PICK h : Upto(S, m, k - 1, h)
    BY <1>6
<1> DEFINE g == [x \in S |-> Def(h, x)]
<1>8. \A y \in S : m[y] < k - 1 => g[y] = h[y]
    BY <1>7 DEF Upto
<1>9. ASSUME NEW x \in S, m[x] < k PROVE g[x] = Def(g, x)
    <2>1. \A y \in S : m[y] < m[x] => g[y] = h[y]
        BY <1>8, <1>9, <1>5
    <2>2. Def(g, x) = Def(h, x)
        <3> HIDE DEF g
        <3> QED BY <2>1 DEF Local
    <2> QED BY <2>2
<1>10. Upto(S, m, k, g)
    BY <1>9 DEF Upto
<1> QED
    BY <1>10

\* A definition whose value at x uses only values at what is smaller defines a
\* function: what index::sort, the walks of index.cpp and the digests of
\* directories are in the models.
THEOREM Recursive ==
    ASSUME NEW S, NEW m \in [S -> Nat], WellOrder, Local(S, m)
    PROVE  \E f : f = [x \in S |-> Def(f, x)]
<1> DEFINE part(n) == CHOOSE h : Upto(S, m, n, h)
<1> DEFINE f == [x \in S |-> part(m[x] + 1)[x]]
<1>1. ASSUME NEW n \in Nat PROVE Upto(S, m, n, part(n))
    <2>1. \E h : Upto(S, m, n, h)
        BY Prefixes
    <2> QED BY <2>1
<1>2. ASSUME NEW x \in S PROVE f[x] = Def(f, x)
    <2> DEFINE h == part(m[x] + 1)
    <2>1. Upto(S, m, m[x] + 1, h)
        BY <1>1
    <2>2. ASSUME NEW y \in S, m[y] < m[x] PROVE f[y] = h[y]
        <3>1. Upto(S, m, m[y] + 1, part(m[y] + 1))
            BY <1>1
        <3>2. f[y] = part(m[y] + 1)[y]
            OBVIOUS
        <3> HIDE DEF part, f, h
        <3>3. \A z \in S : m[z] < m[x] + 1 /\ m[z] < m[y] + 1 => h[z] = part(m[y] + 1)[z]
            BY <2>1, <3>1, Agreement, m[x] + 1 \in Nat, m[y] + 1 \in Nat
        <3> QED
            BY <3>2, <3>3, <2>2
    <2>3. Def(f, x) = Def(h, x)
        <3> HIDE DEF f, h
        <3> QED BY <2>2 DEF Local
    <2>4. h[x] = Def(h, x)
        <3>1. m[x] < m[x] + 1
            OBVIOUS
        <3> HIDE DEF f, h, part
        <3> QED BY <2>1, <3>1 DEF Upto
    <2> QED BY <2>3, <2>4
<1>3. f = [x \in S |-> Def(f, x)]
    <2>1. f = [x \in S |-> f[x]]
        OBVIOUS
    <2> HIDE DEF f
    <2> QED BY <1>2, <2>1
<1> QED
    <2> HIDE DEF f
    <2> QED BY <1>3
=============================================================================
