---------------------------- MODULE IndexProofs ----------------------------
(***************************************************************************)
(* Write-tree and checkout: the types, IndexIsTruthful and MixedByEdits,   *)
(* about the files, for all constants (Inv); then WrittenIsSnapshot, about *)
(* the directories and their trees, for one list of patterns and an index  *)
(* file that is whole or missing (SnapInv); from it, TreeIsStored,         *)
(* IgnoredIsLeftOut, and, for checkout, CheckedOutIsTree and               *)
(* IndexIsComplete (QuietInv).  Last the properties of a merge (MergeInv). *)
(***************************************************************************)
EXTENDS Checkout, MergeIndex, TreeProofs

RealDef(real, x) == RealOf(x[1], [q \in Paths |-> real[<<x[1], q>>]], x[2])
RealRec == INSTANCE Recursion WITH Def <- RealDef

RefreshDef(hash, x) ==
    LET list == x[1]
        entries == x[2]
        index == x[3]
        s == x[4]
        before == hash[<<list, entries, index, s - 1>>]
        m == Walk(list, PathsOf(index))[s - 1]
    IN  IF s = 0 THEN [p \in DOMAIN entries |-> NoHash]
        ELSE IF Match(list, PathsOf(index), m) THEN Reuse(list, entries, index, before, m)
        ELSE before
RefreshRec == INSTANCE Recursion WITH Def <- RefreshDef

-----------------------------------------------------------------------------
(* The disk. *)

\* The entries of a workspace have times up to t.
Dated(disk, t) == \A p \in DOMAIN disk : disk[p].time \in 1..t

\* A file of new is one of disk, or has the time t.
Aged(disk, new, t) ==
    \A p \in DOMAIN new :
        new[p].type = "file" =>
            \/ new[p].time = t
            \/ /\ p \in DOMAIN disk /\ disk[p].type = "file"
               /\ disk[p].time = new[p].time /\ disk[p].data = new[p].data

LEMMA AgedTransitive ==
    ASSUME NEW a, NEW b, NEW c, NEW t, Aged(a, b, t), Aged(b, c, t)
    PROVE  Aged(a, c, t)
BY DEF Aged

LEMMA AgedSame == ASSUME NEW a, NEW t PROVE Aged(a, a, t)
BY DEF Aged

LEMMA TouchedIs ==
    ASSUME NEW disk, NEW d, NEW t \in Nat, t >= 1, IsWorkspace(disk), Dated(disk, t)
    PROVE  /\ IsWorkspace(Touched(disk, d, t)) /\ Dated(Touched(disk, d, t), t)
           /\ Aged(disk, Touched(disk, d, t), t)
<1> DEFINE new == Touched(disk, d, t)
<1>1. DOMAIN new = DOMAIN disk
    BY DEF Touched
<1>2. \A p \in DOMAIN disk : p # d => new[p] = disk[p]
    BY DEF Touched
<1>3. d \in DOMAIN disk => new[d] = [disk[d] EXCEPT !.time = t]
    BY DEF Touched
<1>4. \A p \in DOMAIN disk : IsEntry(disk[p]) /\ disk[p].time \in 1..t
    BY DEF IsWorkspace, Dated
<1>5. d \in DOMAIN disk =>
          /\ IsEntry(new[d])
          /\ new[d].type = disk[d].type /\ new[d].data = disk[d].data /\ new[d].mode = disk[d].mode
          /\ new[d].time = t
    BY <1>3, <1>4 DEF IsEntry
<1> HIDE DEF new
<1>6. IsWorkspace(new)
    BY <1>1, <1>2, <1>4, <1>5 DEF IsWorkspace
<1>7. Dated(new, t)
    BY <1>1, <1>2, <1>4, <1>5 DEF Dated
<1>8. Aged(disk, new, t)
    BY <1>1, <1>2, <1>5 DEF Aged
<1> QED
    BY <1>6, <1>7, <1>8 DEF new

LEMMA PutIs ==
    ASSUME NEW disk, NEW p \in Paths, NEW e, NEW t \in Nat, t >= 1,
           IsWorkspace(disk), Dated(disk, t),
           IsEntry(e), e.time = t,
           Parent[p] # Root => Parent[p] \in DOMAIN disk /\ disk[Parent[p]].type = "dir",
           e.type # "dir" => \A q \in DOMAIN disk : Parent[q] # p
    PROVE  /\ IsWorkspace(Put(disk, p, e)) /\ Dated(Put(disk, p, e), t)
           /\ Aged(disk, Put(disk, p, e), t)
<1> DEFINE new == Put(disk, p, e)
<1>1. /\ DOMAIN new = DOMAIN disk \cup {p} /\ new[p] = e
      /\ \A q \in DOMAIN disk : q # p => new[q] = disk[q]
    BY DEF Put
<1>2. Parent[p] # p
    BY ParentRank, RankNat, TreeAssumption
<1> HIDE DEF new
<1>3. \A q \in DOMAIN disk :
         /\ q \in Paths /\ IsEntry(disk[q]) /\ disk[q].time \in 1..t
         /\ Parent[q] # Root => Parent[q] \in DOMAIN disk /\ disk[Parent[q]].type = "dir"
    BY DEF IsWorkspace, Dated
<1>4. IsWorkspace(new)
    <2> SUFFICES ASSUME NEW q \in DOMAIN new
                 PROVE  /\ q \in Paths /\ IsEntry(new[q])
                        /\ Parent[q] # Root =>
                              Parent[q] \in DOMAIN new /\ new[Parent[q]].type = "dir"
        BY DEF IsWorkspace
    <2>1. CASE q = p
        BY <1>1, <1>2, <2>1
    <2>2. CASE q # p
        <3>1. q \in DOMAIN disk /\ new[q] = disk[q]
            BY <1>1, <2>2
        <3>2. Parent[q] = p => e.type = "dir"
            BY <3>1
        <3> QED BY <1>1, <1>3, <3>1, <3>2
    <2> QED BY <2>1, <2>2
<1>5. Dated(new, t)
    BY <1>1, <1>3 DEF Dated
<1>6. Aged(disk, new, t)
    BY <1>1 DEF Aged
<1> QED
    BY <1>4, <1>5, <1>6 DEF new

\* What is below a path: a path in a directory that is below is below too.
LEMMA BelowIs ==
    ASSUME NEW p \in Paths
    PROVE  /\ Below(p) \subseteq Paths /\ p \notin Below(p)
           /\ \A q \in Paths : Parent[q] \in {p} \cup Below(p) => q \in Below(p)
<1>1. \A q \in Below(p) : q \in Paths /\ p \in Above[q]
    BY DEF Below
<1>2. p \notin Below(p)
    BY <1>1, AboveOrder, RankNat
<1>3. ASSUME NEW q \in Paths, Parent[q] \in {p} \cup Below(p) PROVE q \in Below(p)
    <2>1. Parent[q] # Root
        BY <1>1, <1>3, TreeAssumption
    <2>2. Above[q] = {Parent[q]} \cup Above[Parent[q]]
        BY <2>1, AboveIs
    <2> QED BY <1>1, <1>3, <2>2 DEF Below
<1> QED
    BY <1>1, <1>2, <1>3

LEMMA RealIs ==
    ASSUME NEW disk
    PROVE  \E real : real = [q \in Paths |-> RealOf(disk, real, q)] /\ \A p : Real(disk, p) = real[p]
<1> DEFINE D == {disk} \X Paths
           m == [x \in D |-> Rank[x[2]]]
<1>1. RealRec!Local(D, m)
    <2> SUFFICES ASSUME NEW x \in D, NEW g, NEW h, \A y \in D : m[y] < m[x] => g[y] = h[y]
                 PROVE  RealDef(g, x) = RealDef(h, x)
        BY DEF RealRec!Local
    <2> DEFINE v == [q \in Paths |-> g[<<x[1], q>>]]
               w == [q \in Paths |-> h[<<x[1], q>>]]
    <2>1. Parent[x[2]] # Root => v[Parent[x[2]]] = w[Parent[x[2]]]
        BY ParentRank
    <2>2. RealOf(x[1], v, x[2]) = RealOf(x[1], w, x[2])
        <3> HIDE DEF v, w
        <3> QED BY <2>1 DEF RealOf
    <2> QED BY <2>2 DEF RealDef
<1>2. m \in [D -> Nat]
    BY RankNat
<1>3. PICK f : f = [x \in D |-> RealDef(f, x)]
    <2> HIDE DEF m, D
    <2> QED BY <1>1, <1>2, RealRec!Recursive, WellOrdered DEF RealRec!WellOrder
<1> DEFINE real == [q \in Paths |-> f[<<disk, q>>]]
<1>4. real = [q \in Paths |-> RealOf(disk, real, q)]
    <2>1. \A q \in Paths : f[<<disk, q>>] = RealDef(f, <<disk, q>>)
        BY <1>3
    <2> QED BY <2>1 DEF RealDef
<1>5. \E r : r = [q \in Paths |-> RealOf(disk, r, q)]
    <2> HIDE DEF real
    <2> QED BY <1>4
<1> QED
    BY <1>5 DEF Real

LEMMA RealInPaths == ASSUME NEW disk, NEW p \in Paths PROVE Real(disk, p) \in Paths
<1>1. PICK real : real = [q \in Paths |-> RealOf(disk, real, q)] /\ \A q : Real(disk, q) = real[q]
    BY RealIs
<1>2. Real(disk, p) = RealOf(disk, real, p)
    BY <1>1
<1>3. RealOf(disk, real, p) \in Paths
    BY DEF RealOf, RealIn
<1> QED
    BY <1>2, <1>3

\* What exists is found where it is: the directories above it are no symlinks.
LEMMA RealOfExisting ==
    ASSUME NEW disk, IsWorkspace(disk)
    PROVE  \A p \in DOMAIN disk : Real(disk, p) = p
<1> DEFINE Bad == {p \in DOMAIN disk : Real(disk, p) # p}
<1>1. SUFFICES ASSUME Bad # {} PROVE FALSE
    OBVIOUS
<1>2. PICK p \in Bad : \A q \in Bad : Rank[p] <= Rank[q]
    <2>1. Bad \subseteq Paths
        BY DEF IsWorkspace
    <2> HIDE DEF Bad
    <2> QED BY <1>1, <2>1, Lowest
<1>3. PICK real : real = [q \in Paths |-> RealOf(disk, real, q)] /\ \A q : Real(disk, q) = real[q]
    BY RealIs
<1>4. p \in Paths
    BY DEF IsWorkspace
<1>5. Real(disk, p) = RealIn(disk, IF Parent[p] = Root THEN Root ELSE Real(disk, Parent[p]), p)
    BY <1>3, <1>4 DEF RealOf
<1>6. Parent[p] # Root => Real(disk, Parent[p]) = Parent[p] /\ disk[Parent[p]].type = "dir"
    <2> HAVE Parent[p] # Root
    <2>1. Parent[p] \in DOMAIN disk /\ disk[Parent[p]].type = "dir" /\ Rank[Parent[p]] < Rank[p]
        BY <1>4, ParentRank DEF IsWorkspace
    <2>2. Parent[p] \in Paths
        BY <2>1 DEF IsWorkspace
    <2> QED BY <1>2, <1>4, <2>1, <2>2, RankNat
<1>7. Real(disk, p) = RealIn(disk, Parent[p], p)
    BY <1>5, <1>6
<1>8. Root \notin DOMAIN disk
    BY TreeAssumption DEF IsWorkspace
<1>9. {q \in Paths : Parent[q] = Parent[p] /\ Name[q] = Name[p]} = {p}
    BY <1>4, TreeAssumption
<1>10. RealIn(disk, Parent[p], p) = p
    BY <1>6, <1>8, <1>9 DEF RealIn
<1> QED
    BY <1>2, <1>7, <1>10

LEMMA RemoveAllIs ==
    ASSUME NEW disk, NEW p \in Paths, clock \in Nat, IsWorkspace(disk), Dated(disk, clock + 1)
    PROVE  /\ IsWorkspace(RemoveAll(disk, p)) /\ Dated(RemoveAll(disk, p), clock + 1)
           /\ Aged(disk, RemoveAll(disk, p), clock + 1)
<1> DEFINE q == Real(disk, p)
           left == [r \in DOMAIN disk \ ({q} \cup Below(q)) |-> disk[r]]
<1>1. CASE q \notin DOMAIN disk
    BY <1>1, AgedSame DEF RemoveAll
<1>2. CASE q \in DOMAIN disk
    <2>1. q \in Paths
        BY RealInPaths
    <2>2. IsWorkspace(left)
        <3> SUFFICES ASSUME NEW r \in DOMAIN left
                     PROVE  /\ r \in Paths /\ IsEntry(left[r])
                            /\ Parent[r] # Root =>
                                  Parent[r] \in DOMAIN left /\ left[Parent[r]].type = "dir"
            BY DEF IsWorkspace
        <3> HIDE DEF q
        <3>1. r \in DOMAIN disk /\ left[r] = disk[r] /\ r \notin {q} \cup Below(q)
            OBVIOUS
        <3>2. /\ r \in Paths /\ IsEntry(disk[r])
              /\ Parent[r] # Root => Parent[r] \in DOMAIN disk /\ disk[Parent[r]].type = "dir"
            BY <3>1 DEF IsWorkspace
        <3>3. Parent[r] \notin {q} \cup Below(q)
            BY <2>1, <3>1, <3>2, BelowIs
        <3> QED BY <3>1, <3>2, <3>3
    <2>3. Dated(left, clock + 1) /\ Aged(disk, left, clock + 1)
        BY DEF Dated, Aged
    <2>4. RemoveAll(disk, p) = Touched(left, Parent[q], clock + 1)
        BY <1>2 DEF RemoveAll
    <2> HIDE DEF left
    <2>5. clock + 1 \in Nat /\ clock + 1 >= 1
        OBVIOUS
    <2> QED BY <2>2, <2>3, <2>4, <2>5, TouchedIs, AgedTransitive
<1> QED
    BY <1>1, <1>2

WithMode(disk, p, mode) == [disk EXCEPT ![p].mode = mode]

LEMMA ModeIs ==
    ASSUME NEW disk, NEW p, NEW mode, NEW t, IsWorkspace(disk), Dated(disk, t)
    PROVE  LET new == WithMode(disk, p, mode) IN
           /\ DOMAIN new = DOMAIN disk
           /\ IsWorkspace(new) /\ Dated(new, t) /\ Aged(disk, new, t)
           /\ \A q \in DOMAIN disk :
                 new[q].type = disk[q].type /\ new[q].time = disk[q].time /\ new[q].data = disk[q].data
<1> DEFINE new == WithMode(disk, p, mode)
<1>1. DOMAIN new = DOMAIN disk
    BY DEF WithMode
<1>2. \A q \in DOMAIN disk : q # p => new[q] = disk[q]
    BY DEF WithMode
<1>3. p \in DOMAIN disk => new[p] = [disk[p] EXCEPT !.mode = mode]
    BY DEF WithMode
<1>4. \A q \in DOMAIN disk : IsEntry(disk[q])
    BY DEF IsWorkspace
<1>5. p \in DOMAIN disk =>
          /\ IsEntry(new[p])
          /\ new[p].type = disk[p].type /\ new[p].time = disk[p].time /\ new[p].data = disk[p].data
    BY <1>3, <1>4 DEF IsEntry
<1> HIDE DEF new
<1>6. \A q \in DOMAIN disk :
          new[q].type = disk[q].type /\ new[q].time = disk[q].time /\ new[q].data = disk[q].data
    BY <1>2, <1>5
<1>7. IsWorkspace(new)
    BY <1>1, <1>2, <1>4, <1>5, <1>6 DEF IsWorkspace
<1>8. Dated(new, t) /\ Aged(disk, new, t)
    BY <1>1, <1>6 DEF Dated, Aged
<1> QED
    BY <1>1, <1>6, <1>7, <1>8 DEF new

LEMMA ContentIs == \A c : Content(FileHash(c)) = c
<1> TAKE c
<1>1. (CHOOSE l \in FileHash(c) : TRUE) \in FileHash(c)
    BY DEF FileHash
<1>2. (CHOOSE l \in FileHash(c) : TRUE) = <<"file", c>>
    BY <1>1 DEF FileHash
<1>3. Content(FileHash(c)) = <<"file", c>>[2]
    BY <1>2, Zenon DEF Content
<1> QED
    BY <1>3

\* A record with this path, time and digest is right about the file it stands
\* for, if it stands for one, or its digest is one of M.
Truthful(disk, path, time, h, M) ==
    path \in DOMAIN disk /\ disk[path].type = "file" /\ disk[path].time = time
        => h = FileHash(disk[path].data) \/ h \in M

LEMMA TruthfulAged ==
    ASSUME NEW disk, NEW new, NEW t, Aged(disk, new, t),
           NEW path, NEW time, NEW h, time # t, Truthful(disk, path, time, h, mixed)
    PROVE  Truthful(new, path, time, h, mixed)
BY DEF Aged, Truthful

\* What an object has in it is what its digest says, or the digest is mixed.
HeldInv == DOMAIN held \subseteq store \cap mixed

LEMMA HeldIs == ASSUME HeldInv, NEW h, h \notin mixed PROVE HeldBy(h) = Content(h)
BY DEF HeldInv, HeldBy

LEMMA CheckoutNodeIs ==
    ASSUME NEW disk, NEW n, clock \in Nat, IsWorkspace(disk), Dated(disk, clock + 1),
           IsNode(n), Clear(disk, n), HeldInv
    PROVE  LET new == CheckoutNode(disk, n)
               q == Real(disk, n.path)
           IN  /\ IsWorkspace(new) /\ Dated(new, clock + 1) /\ Aged(disk, new, clock + 1)
               /\ q \in DOMAIN new
               /\ (n.type = "file" => \E c : n.hash = FileHash(c))
                     => Truthful(new, n.path, new[q].time, n.hash, mixed)
<1> DEFINE q == Real(disk, n.path)
           new == CheckoutNode(disk, n)
           entry == [type |-> n.type, mode |-> n.mode, time |-> clock + 1,
                     data |-> CASE n.type = "file" -> HeldBy(n.hash)
                                [] n.type = "link" -> n.target
                                [] OTHER -> ""]
           put == Put(disk, q, entry)
<1>1. q \in Paths /\ n.path \in Paths
    BY RealInPaths DEF IsNode
<1>2. clock + 1 \in Nat /\ clock + 1 >= 1
    OBVIOUS
<1>3. n.path \in DOMAIN disk => q = n.path
    BY RealOfExisting
<1>4. CASE n.type = "dir" /\ q \in DOMAIN disk
    <2>1. new = [disk EXCEPT ![q].mode = n.mode]
        BY <1>4 DEF CheckoutNode
    <2>2. disk[q].type = "dir"
        BY <1>4 DEF Clear
    <2> HIDE DEF new, q
    <2>3. /\ DOMAIN new = DOMAIN disk
          /\ IsWorkspace(new) /\ Dated(new, clock + 1) /\ Aged(disk, new, clock + 1)
          /\ new[q].type = "dir"
        <3>1. new = WithMode(disk, q, n.mode)
            BY <2>1 DEF WithMode
        <3> QED BY <1>4, <2>2, <3>1, ModeIs
    <2>4. Truthful(new, n.path, new[q].time, n.hash, mixed)
        BY <1>3, <2>3 DEF Truthful
    <2> QED BY <1>4, <2>3, <2>4 DEF new, q
<1>5. CASE ~(n.type = "dir" /\ q \in DOMAIN disk)
    <2>1. new = Touched(put, Parent[q], clock + 1)
        BY <1>5 DEF CheckoutNode
    <2>2. /\ Parent[q] # Root => Parent[q] \in DOMAIN disk /\ disk[Parent[q]].type = "dir"
          /\ q \in DOMAIN disk /\ n.type # "dir" => Below(q) \cap DOMAIN disk = {}
        BY DEF Clear
    <2>3. IsEntry(entry) /\ entry.time = clock + 1 /\ entry.type = n.type
        BY DEF IsEntry, IsNode
    <2>4. DOMAIN put = DOMAIN disk \cup {q} /\ put[q] = entry
        BY DEF Put
    <2>5. n.type = "file" => entry.data = HeldBy(n.hash)
        OBVIOUS
    <2> HIDE DEF entry, put, q, new
    <2>6. entry.type # "dir" => \A r \in DOMAIN disk : Parent[r] # q
        <3> SUFFICES ASSUME n.type # "dir", NEW r \in DOMAIN disk, Parent[r] = q PROVE FALSE
            BY <2>3
        <3>1. r \in Paths /\ Parent[r] # Root
            BY <1>1, TreeAssumption DEF IsWorkspace
        <3>2. q \in DOMAIN disk
            BY <3>1 DEF IsWorkspace
        <3>3. r \in Below(q)
            BY <1>1, <3>1, BelowIs
        <3> QED BY <2>2, <3>2, <3>3
    <2>7. IsWorkspace(put) /\ Dated(put, clock + 1) /\ Aged(disk, put, clock + 1)
        BY <1>1, <1>2, <2>2, <2>3, <2>6, PutIs DEF put
    <2>8. /\ IsWorkspace(new) /\ Dated(new, clock + 1) /\ Aged(put, new, clock + 1)
        BY <1>2, <2>1, <2>7, TouchedIs
    <2>9. Aged(disk, new, clock + 1)
        BY <2>7, <2>8, AgedTransitive
    <2>10. DOMAIN new = DOMAIN put
        BY <2>1 DEF Touched
    <2>11. Parent[q] # q
        BY <1>1, ParentRank, RankNat, TreeAssumption
    <2>12. new[q] = entry
        BY <2>1, <2>4, <2>11 DEF Touched
    <2>13. ASSUME n.type = "file" => \E c : n.hash = FileHash(c)
           PROVE  Truthful(new, n.path, new[q].time, n.hash, mixed)
        <3> SUFFICES ASSUME n.path \in DOMAIN new, new[n.path].type = "file", n.hash \notin mixed
                     PROVE  n.hash = FileHash(new[n.path].data)
            BY DEF Truthful
        <3>1. n.path = q
            BY <1>3, <2>4, <2>10
        <3>2. n.type = "file" /\ new[n.path].data = HeldBy(n.hash)
            BY <2>3, <2>5, <2>12, <3>1
        <3>3. PICK c : n.hash = FileHash(c)
            BY <2>13, <3>2
        <3> QED BY <3>2, <3>3, ContentIs, HeldIs
    <2> QED BY <2>4, <2>8, <2>9, <2>10, <2>13 DEF new, q
<1> QED
    BY <1>4, <1>5

-----------------------------------------------------------------------------
(* What refresh reuses, and what copy_metadata copies. *)

\* The stages of index::refresh.
RefreshSteps(list, entries, index) ==
    /\ Len(list) + Len(index) \in Nat
    /\ Refreshed(list, entries, index)
         = Refreshing(list, entries, index)[Len(list) + Len(index)]
    /\ Refreshing(list, entries, index)[0] = [p \in DOMAIN entries |-> NoHash]
    /\ \A s \in 1..Len(list) + Len(index) :
          Refreshing(list, entries, index)[s]
            = IF Match(list, PathsOf(index), Walk(list, PathsOf(index))[s - 1])
              THEN Reuse(list, entries, index, Refreshing(list, entries, index)[s - 1],
                         Walk(list, PathsOf(index))[s - 1])
              ELSE Refreshing(list, entries, index)[s - 1]

LEMMA RefreshingIs ==
    ASSUME NEW list \in Seq(Paths), NEW entries, NEW index, IsList(index)
    PROVE  RefreshSteps(list, entries, index)
<1> DEFINE paths == PathsOf(index)
           at == Walk(list, paths)
           n == Len(list) + Len(index)
           D == {list} \X {entries} \X {index} \X (0..n)
           m == [x \in D |-> x[4]]
<1>0. n \in Nat /\ DOMAIN at = 0..n
    <2>1. paths \in Seq(Paths) /\ Len(paths) = Len(index) /\ Len(list) \in Nat /\ Len(index) \in Nat
        BY PathsOfList
    <2>2. DOMAIN at = 0..Len(list) + Len(paths)
        <3> HIDE DEF paths
        <3> QED BY <2>1, WalkType
    <2> QED BY <2>1, <2>2
<1> HIDE DEF n, at
<1>1. RefreshRec!Local(D, m)
    <2> SUFFICES ASSUME NEW x \in D, NEW g, NEW h, \A y \in D : m[y] < m[x] => g[y] = h[y]
                 PROVE  RefreshDef(g, x) = RefreshDef(h, x)
        BY DEF RefreshRec!Local
    <2> DEFINE y == <<x[1], x[2], x[3], x[4] - 1>>
    <2>1. x[4] # 0 => y \in D /\ m[y] < m[x]
        BY <1>0
    <2>2. x[4] # 0 => g[y] = h[y]
        BY <2>1
    <2> QED BY <2>2 DEF RefreshDef
<1>2. m \in [D -> Nat]
    BY <1>0
<1>3. PICK f : f = [x \in D |-> RefreshDef(f, x)]
    <2> HIDE DEF m, D
    <2> QED BY <1>1, <1>2, RefreshRec!Recursive, WellOrdered DEF RefreshRec!WellOrder
<1> DEFINE Body(h, s) ==
        IF s = 0 THEN [p \in DOMAIN entries |-> NoHash]
        ELSE IF Match(list, paths, at[s - 1]) THEN Reuse(list, entries, index, h[s - 1], at[s - 1])
        ELSE h[s - 1]
           hash == [s \in 0..n |-> f[<<list, entries, index, s>>]]
<1>4. \A s \in 0..n : hash[s] = Body(hash, s)
    <2> TAKE s \in 0..n
    <2>1. f[<<list, entries, index, s>>] = RefreshDef(f, <<list, entries, index, s>>)
        BY <1>3
    <2>2. s # 0 => hash[s - 1] = f[<<list, entries, index, s - 1>>]
        BY <1>0
    <2> QED BY <2>1, <2>2 DEF RefreshDef, at
<1>5. \E r : r = [s \in 0..n |-> Body(r, s)]
    <2>1. hash = [s \in 0..n |-> hash[s]]
        OBVIOUS
    <2> HIDE DEF hash, Body
    <2> QED BY <1>4, <2>1
<1>6. Refreshing(list, entries, index) = [s \in 0..n |-> Body(Refreshing(list, entries, index), s)]
    BY <1>0, <1>5 DEF Refreshing, at
<1> DEFINE r == Refreshing(list, entries, index)
<1>7. \A s \in 0..n : r[s] = Body(r, s)
    <2> HIDE DEF r, Body
    <2> QED BY <1>6 DEF r
<1>8. 0 \in 0..n /\ \A s \in 1..n : s \in 0..n /\ s # 0
    BY <1>0
<1>9. r[0] = [p \in DOMAIN entries |-> NoHash]
    BY <1>7, <1>8, Zenon
<1>10. \A s \in 1..n : r[s] = IF Match(list, paths, at[s - 1])
                             THEN Reuse(list, entries, index, r[s - 1], at[s - 1])
                             ELSE r[s - 1]
    <2> HIDE DEF r
    <2> QED BY <1>7, <1>8, Zenon
<1>11. Refreshed(list, entries, index) = r[n]
    BY DEF Refreshed, n
<1> QED
    BY <1>0, <1>9, <1>10, <1>11 DEF at, n, RefreshSteps

\* The digest h of p is that of a record which seems to be of the same file.
Reused(index, entries, p, h) ==
    \E y \in 1..Len(index) :
        index[y].path = p /\ index[y].hash = h /\ Equivalent(index[y], entries[p])

LEMMA RefreshedIs ==
    ASSUME NEW list \in Seq(Paths), NEW entries, NEW index, IsList(index)
    PROVE  LET hash == Refreshed(list, entries, index) IN
           /\ DOMAIN hash = DOMAIN entries
           /\ \A p \in DOMAIN entries : hash[p] # NoHash => Reused(index, entries, p, hash[p])
<1> DEFINE n == Len(list) + Len(index)
           hash == Refreshing(list, entries, index)
           paths == PathsOf(index)
           at == Walk(list, paths)
           Good(s) == /\ DOMAIN hash[s] = DOMAIN entries
                      /\ \A p \in DOMAIN entries :
                            hash[s][p] # NoHash => Reused(index, entries, p, hash[s][p])
<1>1. /\ n \in Nat
      /\ Refreshed(list, entries, index) = hash[n]
      /\ hash[0] = [p \in DOMAIN entries |-> NoHash]
      /\ \A s \in 1..n :
            hash[s] = IF Match(list, paths, at[s - 1])
                      THEN Reuse(list, entries, index, hash[s - 1], at[s - 1])
                      ELSE hash[s - 1]
    <2>1. RefreshSteps(list, entries, index)
        BY RefreshingIs
    <2> QED BY <2>1 DEF RefreshSteps
<1>2. /\ paths \in Seq(Paths) /\ Len(paths) = Len(index) /\ Len(index) \in Nat
      /\ \A y \in 1..Len(index) : paths[y] = index[y].path
    BY PathsOfList
<1>3. \A s \in 0..n : at[s] \in (1..Len(list) + 1) \X (1..Len(index) + 1)
    BY <1>2, WalkType
<1> HIDE DEF n, hash, paths, at
<1>4. Good(0)
    BY <1>1
<1>5. ASSUME NEW s \in 1..n, Good(s - 1) PROVE Good(s)
    <2> DEFINE m == at[s - 1]
               old == hash[s - 1]
    <2>1. m \in (1..Len(list) + 1) \X (1..Len(index) + 1)
        BY <1>1, <1>3
    <2>2. CASE ~Match(list, paths, m)
        BY <1>1, <1>5, <2>2
    <2>3. CASE Match(list, paths, m)
        <3> DEFINE p == list[m[1]]
                   r == index[m[2]]
        <3>1. hash[s] = Reuse(list, entries, index, old, m)
            BY <1>1, <2>3
        <3> HIDE DEF m
        <3>2. m[2] \in 1..Len(index) /\ r.path = p
            BY <1>2, <2>1, <2>3 DEF Match
        <3>3. CASE r.hash # NoHash /\ Equivalent(r, entries[p])
            <4>1. hash[s] = [old EXCEPT ![p] = r.hash]
                BY <3>1, <3>3 DEF Reuse
            <4>2. Reused(index, entries, p, r.hash)
                BY <3>2, <3>3 DEF Reused
            <4> HIDE DEF p, r
            <4>3. DOMAIN hash[s] = DOMAIN entries
                BY <1>5, <4>1
            <4>4. ASSUME NEW q \in DOMAIN entries, hash[s][q] # NoHash
                  PROVE  Reused(index, entries, q, hash[s][q])
                BY <1>5, <4>1, <4>2, <4>4
            <4> QED BY <4>3, <4>4
        <3>4. CASE ~(r.hash # NoHash /\ Equivalent(r, entries[p]))
            <4>1. hash[s] = SetDirty(old, p)
                BY <3>1, <3>4 DEF Reuse
            <4>2. DOMAIN SetDirty(old, p) = DOMAIN old
                BY DEF SetDirty
            <4>3. \A q \in DOMAIN old : SetDirty(old, p)[q] \in {NoHash, old[q]}
                BY DEF SetDirty
            <4> QED BY <1>5, <4>1, <4>2, <4>3
        <3> QED BY <3>3, <3>4
    <2> QED BY <2>2, <2>3
<1>6. Good(n)
    <2> DEFINE P == {s \in 0..n : Good(s)}
    <2> HIDE DEF Good
    <2>1. 0 \in P /\ \A s \in 1..n : s - 1 \in P => s \in P
        BY <1>1, <1>4, <1>5
    <2>2. 0..n \subseteq P
        <3> HIDE DEF P
        <3> QED BY <1>1, <2>1, Counting
    <2>3. n \in 0..n
        BY <1>1
    <2> QED BY <2>2, <2>3
<1> QED
    BY <1>1, <1>6

LEMMA CopyMetadataIs ==
    ASSUME NEW new, NEW old, IsList(new), IsList(old)
    PROVE  LET list == CopyMetadata(new, old) IN
           /\ list \in Seq(ToSet(list)) /\ Len(list) = Len(new)
           /\ \A x \in 1..Len(new) :
                 \/ list[x] = new[x]
                 \/ \E y \in 1..Len(old) :
                       /\ old[y].path = new[x].path /\ old[y].hash = new[x].hash
                       /\ list[x] = [new[x] EXCEPT !.time = old[y].time]
<1> DEFINE list == CopyMetadata(new, old)
           match(x) == {m \in Matches(PathsOf(new), PathsOf(old)) :
                           m[1] = x /\ new[x].hash = old[m[2]].hash}
<1>1. list = [x \in DOMAIN new |->
                IF match(x) = {} THEN new[x]
                ELSE [new[x] EXCEPT !.time = old[(CHOOSE m \in match(x) : TRUE)[2]].time]]
    BY DEF CopyMetadata
<1>2. DOMAIN new = 1..Len(new)
    BY PathsOfList
<1>3. ASSUME NEW x \in 1..Len(new)
      PROVE  \/ list[x] = new[x]
             \/ \E y \in 1..Len(old) :
                   /\ old[y].path = new[x].path /\ old[y].hash = new[x].hash
                   /\ list[x] = [new[x] EXCEPT !.time = old[y].time]
    <2>1. CASE match(x) = {}
        BY <1>1, <1>2, <2>1
    <2>2. CASE match(x) # {}
        <3> DEFINE m == CHOOSE m \in match(x) : TRUE
        <3>1. m \in match(x)
            BY <2>2
        <3>2. list[x] = [new[x] EXCEPT !.time = old[m[2]].time]
            BY <1>1, <1>2, <2>2
        <3> HIDE DEF m
        <3>3. m \in Matches(PathsOf(new), PathsOf(old)) /\ m[1] = x /\ new[x].hash = old[m[2]].hash
            BY <3>1
        <3>4. m[2] \in 1..Len(old) /\ new[x].path = old[m[2]].path
            BY <3>3, MatchesTheorem, PathsOfList
        <3> QED BY <3>2, <3>3, <3>4
    <2> QED BY <2>1, <2>2
<1>4. list \in Seq(ToSet(list)) /\ Len(list) = Len(new)
    <2>1. new \in Seq(ToSet(new))
        BY DEF IsList
    <2>2. DOMAIN list = DOMAIN new /\ list = [x \in DOMAIN list |-> list[x]]
        BY <1>1
    <2> HIDE DEF list
    <2> QED BY <2>1, <2>2, MappedList
<1> QED
    BY <1>3, <1>4

-----------------------------------------------------------------------------
(* The inductive invariant. *)

\* A list of nodes whose times are not later than t, and a scan.
IsTimedList(list, t) ==
    /\ list \in Seq(ToSet(list))
    /\ \A x \in 1..Len(list) : IsNode(list[x]) /\ list[x].time \in 0..t
IsTimedScan(entries, t) ==
    /\ DOMAIN entries \subseteq Paths /\ \A p \in DOMAIN entries : IsEntry(entries[p])
    /\ Dated(entries, t)

\* A node is right about its file, or its file has no digest yet.
Right(disk, list, M) ==
    \A x \in 1..Len(list) :
        \/ list[x].type = "file" /\ list[x].hash = NoHash
        \/ Truthful(disk, list[x].path, list[x].time, list[x].hash, M)

\* What a scan found with the time of a file was that file.
RightScan(disk, entries) ==
    \A p \in DOMAIN entries :
        p \in DOMAIN disk /\ disk[p].type = "file" /\ disk[p].time = entries[p].time
            => entries[p].type = "file"

DataInv ==
    /\ clock \in Nat
    /\ IsWorkspace(ws) /\ Dated(ws, clock)
    /\ IsTimedScan(scan, clock) /\ RightScan(ws, scan)
    /\ IsTimedList(saved, clock) /\ Right(ws, saved, mixed)
    /\ IsTimedList(nodes, clock) /\ Right(ws, nodes, mixed)

\* While files are added and trees are written, the nodes are those of the scan.
NodesOfScan ==
    /\ PathsOf(nodes) = Sorted(DOMAIN scan)
    /\ \A x \in 1..Len(nodes) :
          LET e == scan[nodes[x].path]
          IN  nodes[x].type = e.type /\ nodes[x].time = e.time
    /\ \A p \in todo : p \in DOMAIN scan /\ (pc = "trees" => scan[p].type = "dir")

ControlInv ==
    /\ todo \subseteq Paths \cup {Root}
    /\ ignored \in Patterns
    /\ pc \in Idle \cup {"scan", "add", "trees", "walk", "save"}
    /\ cmd \in {"none", "write", "checkout"}
    /\ exn \in BOOLEAN /\ quiet \in BOOLEAN
    /\ events \in 0..MaxEvents /\ runs \in 0..MaxRuns
    /\ pc = "walk" => i \in 1..Len(tree) + 1 /\ j \in 1..Len(nodes) + 1
    /\ pc \in {"add", "trees"} => NodesOfScan

\* The files that may have no digest.
Pending == IF pc # "add" THEN {} ELSE IF exn THEN Paths ELSE todo

\* The digests of a list are those of some cache, and those of its files are
\* digests of files.
Filed(G, list, P) ==
    \A x \in 1..Len(list) :
        LET n == list[x] IN
        /\ n.hash \in G
        /\ n.type = "file" => (\E c : n.hash = FileHash(c)) \/ (n.hash = NoHash /\ n.path \in P)

CacheOf(G) ==
    /\ IsCache(G)
    /\ known \subseteq G /\ root \in G
    /\ Filed(G, saved, {}) /\ Filed(G, nodes, Pending)

Inv == DataInv /\ ControlInv /\ \E G : CacheOf(G)

LEMMA TimedList ==
    ASSUME NEW list, NEW t PROVE
    IsTimedList(list, t) <=>
        /\ list \in Seq(ToSet(list))
        /\ \A k \in DOMAIN list : IsNode(list[k]) /\ list[k].time \in 0..t
<1>1. list \in Seq(ToSet(list)) => DOMAIN list = 1..Len(list)
    OBVIOUS
<1> QED
    BY <1>1 DEF IsTimedList

LEMMA TypeIs == DataInv /\ ControlInv /\ HeldInv => TypeOK
<1>1. SUFFICES ASSUME DataInv, ControlInv, HeldInv PROVE TypeOK
    OBVIOUS
<1>2. \A disk \in {ws, scan} : \A p \in DOMAIN disk : disk[p].time \in 1..clock
    BY <1>1 DEF DataInv, IsTimedScan, Dated
<1>3. \A list \in {saved, nodes} :
          /\ list \in Seq(ToSet(list))
          /\ \A k \in DOMAIN list : IsNode(list[k]) /\ list[k].time \in 0..clock
    BY <1>1, TimedList DEF DataInv
<1>4. ignored \subseteq Paths
    BY <1>1, WorkspaceAssumption DEF ControlInv
<1> QED
    BY <1>1, <1>2, <1>3, <1>4 DEF TypeOK, DataInv, ControlInv, IsTimedScan, HeldInv

LEMMA TruthIs == Inv => IndexIsTruthful
<1> SUFFICES ASSUME Inv, NEW k \in DOMAIN saved, saved[k].type = "file",
                    saved[k].path \in DOMAIN ws, Equivalent(saved[k], ws[saved[k].path])
             PROVE  saved[k].hash = FileHash(ws[saved[k].path].data) \/ saved[k].hash \in mixed
    BY DEF IndexIsTruthful
<1>1. k \in 1..Len(saved)
    BY DEF Inv, DataInv, IsTimedList
<1>2. PICK c : saved[k].hash = FileHash(c)
    BY <1>1 DEF Inv, CacheOf, Filed
<1>3. saved[k].hash # NoHash
    BY <1>2 DEF FileHash, NoHash
<1>4. Truthful(ws, saved[k].path, saved[k].time, saved[k].hash, mixed)
    BY <1>1, <1>3 DEF Inv, DataInv, Right
<1> QED
    BY <1>4 DEF Truthful, Equivalent

-----------------------------------------------------------------------------
(* Lists and the predicates of the invariant. *)

LEMMA EmptyList ==
    ASSUME NEW t, NEW disk, NEW G, NEW P
    PROVE  /\ IsTimedList(<<>>, t) /\ Right(disk, <<>>, mixed) /\ Filed(G, <<>>, P)
           /\ IsTimedScan(<<>>, t) /\ RightScan(disk, <<>>)
<1>1. <<>> \in Seq(ToSet(<<>>)) /\ Len(<<>>) = 0 /\ DOMAIN <<>> = {}
    OBVIOUS
<1> QED
    BY <1>1 DEF IsTimedList, Right, Filed, IsTimedScan, RightScan, Dated

LEMMA ListOfTimed ==
    ASSUME NEW list, NEW t, IsTimedList(list, t)
    PROVE  IsList(list) /\ DOMAIN list = 1..Len(list) /\ Len(list) \in Nat
<1>1. list \in Seq(ToSet(list)) /\ \A x \in 1..Len(list) : IsNode(list[x])
    BY DEF IsTimedList
<1>2. \A n : IsNode(n) => n.path \in Paths
    BY DEF IsNode
<1>3. IsList(list)
    BY <1>1, <1>2 DEF IsList
<1> QED
    BY <1>3, PathsOfList

\* A list in which one node is another.
LEMMA Replaced ==
    ASSUME NEW list, list \in Seq(ToSet(list)), NEW k \in 1..Len(list), NEW n
    PROVE  LET new == [list EXCEPT ![k] = n] IN
           /\ new \in Seq(ToSet(new)) /\ Len(new) = Len(list)
           /\ \A x \in 1..Len(new) : new[x] = IF x = k THEN n ELSE list[x]
<1> DEFINE new == [list EXCEPT ![k] = n]
<1>1. DOMAIN list = 1..Len(list) /\ DOMAIN new = DOMAIN list /\ new = [x \in DOMAIN new |-> new[x]]
    OBVIOUS
<1>2. \A x \in 1..Len(list) : new[x] = IF x = k THEN n ELSE list[x]
    BY <1>1
<1> HIDE DEF new
<1>3. new \in Seq(ToSet(new)) /\ Len(new) = Len(list)
    BY <1>1, MappedList
<1> QED
    BY <1>2, <1>3 DEF new

\* It is still a list of nodes, and right if the new node is.
LEMMA ReplacedIs ==
    ASSUME NEW list, NEW t, IsTimedList(list, t), NEW k \in 1..Len(list),
           NEW n, IsNode(n), n.time \in 0..t, n.path = list[k].path
    PROVE  LET new == [list EXCEPT ![k] = n] IN
           /\ IsTimedList(new, t) /\ Len(new) = Len(list)
           /\ PathsOf(new) = PathsOf(list)
           /\ \A x \in 1..Len(new) : new[x] = IF x = k THEN n ELSE list[x]
<1> DEFINE new == [list EXCEPT ![k] = n]
<1>1. /\ new \in Seq(ToSet(new)) /\ Len(new) = Len(list)
      /\ \A x \in 1..Len(new) : new[x] = IF x = k THEN n ELSE list[x]
    BY Replaced DEF IsTimedList
<1>2. DOMAIN list = 1..Len(list) /\ DOMAIN new = 1..Len(list)
    BY ListOfTimed
<1> HIDE DEF new
<1>3. IsTimedList(new, t)
    BY <1>1 DEF IsTimedList
<1>4. PathsOf(new) = PathsOf(list)
    <2>1. \A x \in 1..Len(list) : new[x].path = list[x].path
        BY <1>1
    <2> QED BY <1>2, <2>1 DEF PathsOf
<1> QED
    BY <1>1, <1>3, <1>4 DEF new

\* A node with another digest, or another time.
LEMMA NodeWith ==
    ASSUME NEW n, IsNode(n), NEW h
    PROVE  LET a == [n EXCEPT !.hash = h] IN
           /\ IsNode(a) /\ a.hash = h
           /\ a.path = n.path /\ a.type = n.type /\ a.time = n.time
BY DEF IsNode

LEMMA NodeAt ==
    ASSUME NEW n, IsNode(n), NEW t
    PROVE  LET b == [n EXCEPT !.time = t] IN
           /\ IsNode(b) /\ b.time = t
           /\ b.path = n.path /\ b.type = n.type /\ b.hash = n.hash
BY DEF IsNode

\* The node of an entry.
LEMMA NodeIs ==
    ASSUME NEW p \in Paths, NEW e, IsEntry(e), NEW h
    PROVE  LET n == Node(p, e, h) IN
           IsNode(n) /\ n.path = p /\ n.type = e.type /\ n.time = e.time /\ n.hash = h
BY DEF IsNode, Node, IsEntry

\* A later clock, other files, and a larger cache.
LEMMA LaterList ==
    ASSUME NEW list, NEW t \in Nat, NEW u \in Nat, t <= u, IsTimedList(list, t)
    PROVE  IsTimedList(list, u)
BY DEF IsTimedList

LEMMA LaterScan ==
    ASSUME NEW entries, NEW t \in Nat, NEW u \in Nat, t <= u, IsTimedScan(entries, t)
    PROVE  IsTimedScan(entries, u)
BY DEF IsTimedScan, Dated

LEMMA RightAged ==
    ASSUME NEW disk, NEW new, NEW t \in Nat, Aged(disk, new, t + 1),
           NEW list, IsTimedList(list, t), Right(disk, list, mixed)
    PROVE  Right(new, list, mixed)
<1> SUFFICES ASSUME NEW x \in 1..Len(list),
                    Truthful(disk, list[x].path, list[x].time, list[x].hash, mixed)
             PROVE  Truthful(new, list[x].path, list[x].time, list[x].hash, mixed)
    BY DEF Right
<1>1. list[x].time # t + 1
    BY DEF IsTimedList
<1> QED
    BY <1>1, TruthfulAged

LEMMA RightMixed ==
    ASSUME NEW disk, NEW list, NEW M, NEW N, M \subseteq N, Right(disk, list, M)
    PROVE  Right(disk, list, N)
BY DEF Right, Truthful

LEMMA RightScanAged ==
    ASSUME NEW disk, NEW new, NEW t \in Nat, Aged(disk, new, t + 1),
           NEW entries, IsTimedScan(entries, t), RightScan(disk, entries)
    PROVE  RightScan(new, entries)
BY DEF Aged, IsTimedScan, RightScan, Dated

LEMMA LargerCache ==
    ASSUME NEW G, NEW K, G \subseteq K, NEW list, NEW P, NEW Q, P \subseteq Q, Filed(G, list, P)
    PROVE  Filed(K, list, Q)
BY DEF Filed

-----------------------------------------------------------------------------
(* The initial states. *)

\* The digests of a workspace.
DigestsOf(disk, list) == {NoHash} \cup {Hashes(disk, list)[p] : p \in DOMAIN disk \cup {Root}}

LEMMA DigestsAreCache ==
    ASSUME NEW disk, NEW list, IsWorkspace(disk)
    PROVE  IsCache(DigestsOf(disk, list))
<1>1. IsCache({NoHash})
    BY DEF IsCache, NoHash
<1>2. DOMAIN disk \subseteq Paths /\ \A p \in DOMAIN disk : disk[p].type \in {"file", "dir", "link"}
    BY DEF IsWorkspace, IsEntry
<1> QED
    BY <1>1, <1>2, HashesOfCache DEF DigestsOf

\* What the first index is made of.
LEMMA InitialList ==
    ASSUME Init
    PROVE  \E list \in Patterns :
              /\ saved \in Seq(ToSet(saved))
              /\ \A x \in 1..Len(saved) : \E p \in Listed(ws, list) :
                    saved[x] = Node(p, ws[p], Hashes(ws, list)[p])
<1>1. PICK list \in Patterns :
        \/ saved \in {<<>>, IndexOf(ws, list)}
        \/ \E n \in DOMAIN IndexOf(ws, list) : saved = SubSeq(IndexOf(ws, list), 1, n)
    BY DEF Init
<1> DEFINE index == IndexOf(ws, list)
           Good(k) == \E p \in Listed(ws, list) : index[k] = Node(p, ws[p], Hashes(ws, list)[p])
<1>2. DOMAIN ws \subseteq Paths
    BY WorkspaceAssumption DEF Init, IsWorkspace
<1>3. IsList(index) /\ \A k \in 1..Len(index) : Good(k)
    BY <1>2, IndexOfIs
<1>4. index \in Seq(ToSet(index)) /\ DOMAIN index = 1..Len(index) /\ Len(index) \in Nat
    BY <1>3, PathsOfList DEF IsList
<1>5. /\ saved \in Seq(ToSet(saved))
      /\ \A x \in 1..Len(saved) : x \in 1..Len(index) /\ saved[x] = index[x]
    <2>1. CASE saved = <<>>
        BY <2>1
    <2>2. CASE saved = index
        BY <1>4, <2>2
    <2>3. ASSUME NEW n \in 1..Len(index), saved = SubSeq(index, 1, n)
          PROVE  /\ saved \in Seq(ToSet(saved))
                 /\ \A x \in 1..Len(saved) : x \in 1..Len(index) /\ saved[x] = index[x]
        <3> HIDE DEF index
        <3>1. saved = [x \in 1..n |-> index[x]]
            BY <1>4, <2>3
        <3>2. DOMAIN saved = 1..n /\ saved = [x \in DOMAIN saved |-> saved[x]]
            BY <3>1
        <3>3. [x \in 1..n |-> x] \in Seq(Nat) /\ DOMAIN [x \in 1..n |-> x] = 1..n
            OBVIOUS
        <3>4. saved \in Seq(ToSet(saved)) /\ DOMAIN saved = 1..Len(saved)
            BY <3>2, <3>3, MappedList
        <3>5. 1..Len(saved) = 1..n
            BY <3>2, <3>4
        <3> QED BY <1>4, <3>1, <3>4, <3>5
    <2> QED BY <1>1, <1>4, <2>1, <2>2, <2>3
<1> QED
    BY <1>3, <1>5

LEMMA InitInv == Init => Inv
<1> SUFFICES ASSUME Init PROVE Inv
    OBVIOUS
<1>1. PICK list \in Patterns :
              /\ saved \in Seq(ToSet(saved))
              /\ \A x \in 1..Len(saved) : \E p \in Listed(ws, list) :
                    saved[x] = Node(p, ws[p], Hashes(ws, list)[p])
    BY InitialList
<1>2. ws \in Starts /\ IsWorkspace(ws) /\ \A p \in DOMAIN ws : ws[p].time = 1
    BY WorkspaceAssumption DEF Init
<1>3. /\ clock = 1 /\ scan = <<>> /\ nodes = <<>> /\ todo = {} /\ root = NoHash
      /\ pc = "idle" /\ cmd = "none" /\ exn = FALSE /\ quiet = FALSE
      /\ events = 0 /\ runs = 0 /\ ignored \in Patterns
    BY DEF Init
<1>4. ASSUME NEW x \in 1..Len(saved)
      PROVE  \E p \in DOMAIN ws :
                 /\ IsNode(saved[x]) /\ saved[x].path = p /\ saved[x].type = ws[p].type
                 /\ saved[x].time = 1 /\ saved[x].hash = Hashes(ws, list)[p]
                 /\ ws[p].type = "file" => saved[x].hash = FileHash(ws[p].data)
    <2>1. PICK p \in Listed(ws, list) : saved[x] = Node(p, ws[p], Hashes(ws, list)[p])
        BY <1>1
    <2>2. p \in DOMAIN ws /\ p \in Paths /\ IsEntry(ws[p]) /\ ws[p].time = 1
        BY <1>2 DEF Listed, IsWorkspace
    <2>3. /\ IsNode(saved[x]) /\ saved[x].path = p /\ saved[x].type = ws[p].type
          /\ saved[x].time = ws[p].time /\ saved[x].hash = Hashes(ws, list)[p]
        BY <2>1, <2>2, NodeIs
    <2>4. Hashes(ws, list)[p] = HashOf(ws, list, Hashes(ws, list), p)
        <3>1. \A q \in Paths \cup {Root} : Hashes(ws, list)[q] = HashOf(ws, list, Hashes(ws, list), q)
            <4>1. DOMAIN ws \subseteq Paths
                BY <1>2 DEF IsWorkspace
            <4> QED BY <4>1, HashesIs
        <3> QED BY <2>2, <3>1
    <2>5. p # Root
        BY <2>2, TreeAssumption
    <2> QED BY <2>2, <2>3, <2>4, <2>5 DEF HashOf
<1>5. DataInv
    <2>1. Dated(ws, clock) /\ clock \in Nat
        BY <1>2, <1>3 DEF Dated
    <2>2. IsTimedList(saved, clock)
        BY <1>1, <1>3, <1>4 DEF IsTimedList
    <2>3. Right(ws, saved, mixed)
        BY <1>4 DEF Right, Truthful
    <2> QED BY <1>2, <1>3, <2>1, <2>2, <2>3, EmptyList DEF DataInv
<1>6. ControlInv
    <2>1. ignored \in Patterns /\ MaxEvents \in Nat /\ MaxRuns \in Nat
        BY <1>3, WorkspaceAssumption
    <2>2. events \in 0..MaxEvents /\ runs \in 0..MaxRuns
        BY <1>3, <2>1
    <2>3. pc \in Idle /\ pc \notin {"walk", "add", "trees"}
        BY <1>3 DEF Idle
    <2>4. todo \subseteq Paths \cup {Root} /\ exn \in BOOLEAN /\ quiet \in BOOLEAN
        BY <1>3
    <2>5. cmd \in {"none", "write", "checkout"}
        BY <1>3
    <2> QED BY <2>1, <2>2, <2>3, <2>4, <2>5 DEF ControlInv
<1>7. \E G : CacheOf(G)
    <2> DEFINE C == {DigestsOf(w, l) : w \in Starts, l \in Patterns}
               G == UNION C
    <2>1. IsCache(G)
        <3>1. \A K \in C : IsCache(K)
            BY DigestsAreCache, WorkspaceAssumption
        <3>2. C # {}
            BY <1>2
        <3> HIDE DEF C
        <3> QED BY <3>1, <3>2, UnionOfCaches
    <2>2. known \subseteq G
        <3> SUFFICES ASSUME NEW w \in Given, NEW l \in Patterns PROVE Snapshot(w, l) \in G
            BY DEF Init
        <3>1. w \in Starts
            BY WorkspaceAssumption
        <3>2. Snapshot(w, l) \in DigestsOf(w, l)
            BY DEF Snapshot, DigestsOf
        <3> QED BY <3>1, <3>2
    <2>3. \A p \in DOMAIN ws : Hashes(ws, list)[p] \in G
        <3>1. \A p \in DOMAIN ws : Hashes(ws, list)[p] \in DigestsOf(ws, list)
            BY DEF DigestsOf
        <3> QED BY <1>2, <3>1
    <2> HIDE DEF G
    <2>4. Filed(G, saved, {})
        BY <1>4, <2>3 DEF Filed
    <2>5. root \in G
        BY <1>3, <2>1 DEF IsCache
    <2>6. Filed(G, nodes, Pending)
        BY <1>3, EmptyList
    <2> QED BY <2>1, <2>2, <2>4, <2>5, <2>6 DEF CacheOf
<1> QED
    BY <1>5, <1>6, <1>7 DEF Inv

-----------------------------------------------------------------------------
(* The steps, by what they change. *)

\* The files that the step changes get the time after the clock.
DiskStep ==
    /\ clock' \in {clock, clock + 1}
    /\ IsWorkspace(ws') /\ Dated(ws', clock')
    /\ Aged(ws, ws', clock + 1)

LEMMA SameDisk == ASSUME Inv, UNCHANGED <<ws, clock>> PROVE DiskStep
<1>1. Aged(ws, ws, clock + 1)
    BY AgedSame
<1> QED
    BY <1>1 DEF DiskStep, Inv, DataInv

\* What is said of a list, and of the scan, holds after such a step.
LEMMA DiskStepList ==
    ASSUME Inv, DiskStep
    PROVE  /\ clock \in Nat /\ clock' \in Nat /\ clock <= clock'
           /\ IsTimedList(saved, clock') /\ Right(ws', saved, mixed)
           /\ IsTimedList(nodes, clock') /\ Right(ws', nodes, mixed)
           /\ IsTimedScan(scan, clock') /\ RightScan(ws', scan)
<1>1. /\ clock \in Nat /\ clock' \in Nat /\ clock <= clock'
      /\ Aged(ws, ws', clock + 1)
    BY DEF DiskStep, Inv, DataInv
<1>2. /\ IsTimedScan(scan, clock) /\ RightScan(ws, scan)
      /\ IsTimedList(saved, clock) /\ Right(ws, saved, mixed)
      /\ IsTimedList(nodes, clock) /\ Right(ws, nodes, mixed)
    BY DEF Inv, DataInv
<1> QED
    BY <1>1, <1>2, LaterList, LaterScan, RightAged, RightScanAged

\* A command ends without a result.
LEMMA FailKeeps ==
    ASSUME Inv, DiskStep, Fail, ignored' \in Patterns,
           UNCHANGED <<saved, mixed, known>>, events' \in 0..MaxEvents, runs' \in 0..MaxRuns
    PROVE  Inv'
<1>1. /\ scan' = <<>> /\ nodes' = <<>> /\ todo' = {} /\ exn' = FALSE
      /\ pc' = "idle" /\ cmd' = "none" /\ root' = NoHash /\ quiet' = FALSE
    BY DEF Fail, Forget
<1>2. DataInv'
    <2>1. clock' \in Nat /\ IsTimedList(saved, clock') /\ Right(ws', saved, mixed)
        BY DiskStepList
    <2>2. IsWorkspace(ws') /\ Dated(ws', clock')
        BY DEF DiskStep
    <2> QED BY <1>1, <2>1, <2>2, EmptyList DEF DataInv
<1>3. ControlInv'
    <2>1. pc' \in Idle /\ pc' \notin {"walk", "add", "trees"}
        BY <1>1 DEF Idle
    <2>2. todo' \subseteq Paths \cup {Root} /\ exn' \in BOOLEAN /\ quiet' \in BOOLEAN
        BY <1>1
    <2>3. cmd' \in {"none", "write", "checkout"}
        BY <1>1
    <2> QED BY <2>1, <2>2, <2>3 DEF ControlInv
<1>4. \E G : CacheOf(G)'
    <2>1. PICK G : CacheOf(G)
        BY DEF Inv
    <2>2. root' \in G
        BY <1>1, <2>1 DEF CacheOf, IsCache
    <2>3. CacheOf(G)'
        BY <1>1, <2>1, <2>2, EmptyList DEF CacheOf
    <2> QED BY <2>3
<1> QED
    BY <1>2, <1>3, <1>4 DEF Inv

\* The lists are the same; a walk may go on.
LEMMA ListsSame ==
    ASSUME Inv, DiskStep,
           UNCHANGED <<ignored, saved, mixed, known, cmd, pc, scan, todo, nodes, root, exn>>,
           quiet' \in BOOLEAN, events' \in 0..MaxEvents, runs' \in 0..MaxRuns,
           pc = "walk" => i' \in 1..Len(tree) + 1 /\ j' \in 1..Len(nodes) + 1
    PROVE  Inv'
<1>1. DataInv'
    BY DiskStepList DEF DataInv, DiskStep
<1>2. tree' = tree /\ (NodesOfScan <=> NodesOfScan')
    BY DEF tree, NodesOfScan
<1>3. ControlInv'
    BY <1>2 DEF Inv, ControlInv
<1>4. Pending' = Pending
    BY DEF Pending
<1>5. \E G : CacheOf(G)'
    BY <1>4 DEF Inv, CacheOf
<1> QED
    BY <1>1, <1>3, <1>5 DEF Inv

-----------------------------------------------------------------------------
(* The steps of write-tree. *)

LEMMA StartWriteKeeps == ASSUME Inv, StartWrite PROVE Inv'
<1>1. /\ nodes' = saved /\ scan' = <<>> /\ todo' = {Root}
      /\ cmd' = "write" /\ pc' = "scan" /\ root' = NoHash /\ exn' = FALSE /\ quiet' = TRUE
      /\ runs' = runs + 1 /\ runs < MaxRuns
      /\ ignored' \in Patterns
      /\ UNCHANGED <<ws, clock, saved, mixed, known, i, j, events>>
    BY DEF StartWrite, cacheVars
<1>2. DataInv'
    BY <1>1, EmptyList DEF Inv, DataInv
<1>3. ControlInv'
    <2>1. runs' \in 0..MaxRuns
        BY <1>1, WorkspaceAssumption DEF Inv, ControlInv
    <2> QED BY <1>1, <2>1 DEF Inv, ControlInv
<1>4. \E G : CacheOf(G)'
    <2>1. PICK G : CacheOf(G)
        BY DEF Inv
    <2>2. root' \in G
        BY <1>1, <2>1 DEF CacheOf, IsCache
    <2>3. Pending' = {}
        BY <1>1 DEF Pending
    <2>4. CacheOf(G)'
        BY <1>1, <2>1, <2>2, <2>3 DEF CacheOf
    <2> QED BY <2>4
<1> QED
    BY <1>2, <1>3, <1>4 DEF Inv

LEMMA ReadDirectoryKeeps == ASSUME Inv, NEW d, ReadDirectory(d) PROVE Inv'
<1> DEFINE found == {p \in DOMAIN ws \ ignored : Parent[p] = d}
<1>1. pc = "scan" /\ UNCHANGED <<ws, ignored, clock, saved, store, mixed, known, events, runs>>
    BY DEF ReadDirectory, cacheVars, bounds
<1>2. DiskStep
    BY <1>1, SameDisk
<1>3. CASE Fail
    BY <1>1, <1>2, <1>3, FailKeeps DEF Inv, ControlInv
<1>4. CASE ~Fail
    <2>1. /\ scan' = [p \in DOMAIN scan \cup found |-> IF p \in found THEN ws[p] ELSE scan[p]]
          /\ todo' = (todo \ {d}) \cup {p \in found : ws[p].type = "dir"}
          /\ UNCHANGED <<quiet, cmd, pc, nodes, root, exn, i, j>>
        BY <1>4 DEF ReadDirectory
    <2>2. found \subseteq DOMAIN ws
        OBVIOUS
    <2> HIDE DEF found
    <2>3. /\ DOMAIN scan' = DOMAIN scan \cup found
          /\ \A p \in found : scan'[p] = ws[p]
          /\ \A p \in DOMAIN scan \ found : scan'[p] = scan[p]
        BY <2>1
    <2>4. IsWorkspace(ws) /\ Dated(ws, clock) /\ IsTimedScan(scan, clock) /\ RightScan(ws, scan)
        BY DEF Inv, DataInv
    <2>5. IsTimedScan(scan', clock)
        BY <2>2, <2>3, <2>4 DEF IsTimedScan, Dated, IsWorkspace
    <2>6. RightScan(ws, scan')
        BY <2>2, <2>3, <2>4 DEF RightScan
    <2>7. DataInv'
        BY <1>1, <2>1, <2>5, <2>6 DEF Inv, DataInv
    <2>8. ControlInv'
        <3>1. todo' \subseteq Paths \cup {Root}
            BY <2>1, <2>2, <2>4 DEF Inv, ControlInv, IsWorkspace
        <3> QED BY <1>1, <2>1, <3>1 DEF Inv, ControlInv
    <2>9. \E G : CacheOf(G)'
        <3>1. Pending' = {} /\ Pending = {}
            BY <1>1, <2>1 DEF Pending
        <3> QED BY <1>1, <2>1, <3>1 DEF Inv, CacheOf
    <2> QED BY <2>7, <2>8, <2>9 DEF Inv
<1> QED
    BY <1>3, <1>4

LEMMA RefreshKeeps == ASSUME Inv, Refresh PROVE Inv'
<1> DEFINE list == Sorted(DOMAIN scan)
           hash == Refreshed(list, scan, nodes)
<1>1. /\ pc = "scan" /\ pc' = "add"
      /\ nodes' = [k \in DOMAIN list |-> Node(list[k], scan[list[k]], hash[list[k]])]
      /\ todo' = {p \in DOMAIN scan : scan[p].type = "file"}
      /\ UNCHANGED <<ws, ignored, clock, quiet, saved, store, mixed, known, cmd, scan, root, exn, i, j, events, runs>>
    BY DEF Refresh, userVars, cacheVars, bounds
<1>2. IsTimedScan(scan, clock) /\ RightScan(ws, scan) /\ IsTimedList(nodes, clock) /\ Right(ws, nodes, mixed)
    BY DEF Inv, DataInv
<1>3. DOMAIN scan \subseteq Paths
    BY <1>2 DEF IsTimedScan
<1>4. list \in Seq(DOMAIN scan)
    BY <1>3, SortedTheorem DEF IsSortedList
<1>5. IsList(nodes) /\ list \in Seq(Paths)
    BY <1>2, <1>3, <1>4, ListOfTimed
<1>6. \A p \in DOMAIN scan : hash[p] # NoHash => Reused(nodes, scan, p, hash[p])
    BY <1>5, RefreshedIs
<1> HIDE DEF list, hash
<1>7. /\ nodes' \in Seq(ToSet(nodes')) /\ Len(nodes') = Len(list)
      /\ DOMAIN nodes' = 1..Len(list) /\ DOMAIN list = 1..Len(list)
    BY <1>1, <1>4, MappedList
<1>8. ASSUME NEW x \in 1..Len(nodes')
      PROVE  LET n == nodes'[x]
                 p == list[x]
             IN  /\ p \in DOMAIN scan
                 /\ IsNode(n) /\ n.path = p /\ n.type = scan[p].type /\ n.time = scan[p].time
                 /\ n.hash = hash[p]
    <2>1. nodes'[x] = Node(list[x], scan[list[x]], hash[list[x]])
        BY <1>1, <1>7
    <2>2. list[x] \in DOMAIN scan
        BY <1>4, <1>7
    <2>3. IsEntry(scan[list[x]]) /\ list[x] \in Paths
        BY <1>2, <2>2 DEF IsTimedScan
    <2> QED BY <2>1, <2>2, <2>3, NodeIs
<1>9. ASSUME NEW x \in 1..Len(nodes'), nodes'[x].hash # NoHash
      PROVE  \E y \in 1..Len(nodes) :
                /\ nodes[y].path = nodes'[x].path /\ nodes[y].hash = nodes'[x].hash
                /\ nodes[y].type = nodes'[x].type /\ nodes[y].time = nodes'[x].time
    BY <1>6, <1>8, <1>9 DEF Reused, Equivalent
<1>10. IsTimedList(nodes', clock)
    <2>1. \A p \in DOMAIN scan : scan[p].time \in 0..clock
        BY <1>2 DEF IsTimedScan, Dated
    <2> QED BY <1>7, <1>8, <2>1 DEF IsTimedList
<1>11. Right(ws, nodes', mixed)
    <2> SUFFICES ASSUME NEW x \in 1..Len(nodes'),
                        ~(nodes'[x].type = "file" /\ nodes'[x].hash = NoHash)
                 PROVE  Truthful(ws, nodes'[x].path, nodes'[x].time, nodes'[x].hash, mixed)
        BY DEF Right
    <2>1. CASE nodes'[x].hash = NoHash
        BY <1>2, <1>8, <2>1 DEF RightScan, Truthful
    <2>2. CASE nodes'[x].hash # NoHash
        <3>1. PICK y \in 1..Len(nodes) :
                /\ nodes[y].path = nodes'[x].path /\ nodes[y].hash = nodes'[x].hash
                /\ nodes[y].type = nodes'[x].type /\ nodes[y].time = nodes'[x].time
            BY <1>9, <2>2
        <3>2. Truthful(ws, nodes[y].path, nodes[y].time, nodes[y].hash, mixed)
            BY <1>2, <2>2, <3>1 DEF Right
        <3> QED BY <3>1, <3>2
    <2> QED BY <2>1, <2>2
<1>12. DataInv'
    BY <1>1, <1>10, <1>11 DEF Inv, DataInv
<1>13. NodesOfScan'
    <2>1. PathsOf(nodes') = list
        <3>1. PathsOf(nodes') = [x \in 1..Len(list) |-> nodes'[x].path]
            BY <1>7 DEF PathsOf
        <3>2. list = [x \in 1..Len(list) |-> list[x]]
            BY <1>4, <1>7
        <3> QED BY <1>7, <1>8, <3>1, <3>2
    <2>2. \A x \in 1..Len(nodes') :
              nodes'[x].type = scan[nodes'[x].path].type /\ nodes'[x].time = scan[nodes'[x].path].time
        BY <1>8
    <2>3. \A p \in todo' : p \in DOMAIN scan
        BY <1>1
    <2> QED BY <1>1, <2>1, <2>2, <2>3 DEF NodesOfScan, list
<1>14. ControlInv'
    <2>1. todo' \subseteq Paths
        BY <1>1, <1>3
    <2> QED BY <1>1, <1>13, <2>1 DEF Inv, ControlInv
<1>15. \E G : CacheOf(G)'
    <2>1. PICK G : CacheOf(G)
        BY DEF Inv
    <2>2. Filed(G, nodes', Pending')
        <3> SUFFICES ASSUME NEW x \in 1..Len(nodes')
                     PROVE  /\ nodes'[x].hash \in G
                            /\ nodes'[x].type = "file" =>
                                  \/ \E c : nodes'[x].hash = FileHash(c)
                                  \/ nodes'[x].hash = NoHash /\ nodes'[x].path \in Pending'
            BY DEF Filed
        <3>1. CASE nodes'[x].hash = NoHash
            <4>1. nodes'[x].hash \in G
                BY <2>1, <3>1 DEF CacheOf, IsCache
            <4>2. nodes'[x].type = "file" => nodes'[x].path \in todo' \cap Paths
                BY <1>1, <1>3, <1>8
            <4>3. todo' \cap Paths \subseteq Pending'
                BY <1>1 DEF Pending
            <4> QED BY <3>1, <4>1, <4>2, <4>3
        <3>2. CASE nodes'[x].hash # NoHash
            <4>1. PICK y \in 1..Len(nodes) :
                    /\ nodes[y].path = nodes'[x].path /\ nodes[y].hash = nodes'[x].hash
                    /\ nodes[y].type = nodes'[x].type /\ nodes[y].time = nodes'[x].time
                BY <1>9, <3>2
            <4>2. Pending = {}
                BY <1>1 DEF Pending
            <4> QED BY <2>1, <4>1, <4>2 DEF CacheOf, Filed
        <3> QED BY <3>1, <3>2
    <2>3. CacheOf(G)'
        BY <1>1, <2>1, <2>2 DEF CacheOf
    <2> QED BY <2>3
<1> QED
    BY <1>12, <1>14, <1>15 DEF Inv

\* A path of todo has one node.
LEMMA PositionIs ==
    ASSUME Inv, pc \in {"add", "trees"}, NEW p \in todo
    PROVE  LET k == Position(p) IN
           /\ p \in DOMAIN scan
           /\ k \in 1..Len(nodes) /\ nodes[k].path = p
           /\ nodes[k].type = scan[p].type /\ nodes[k].time = scan[p].time
           /\ \A x \in 1..Len(nodes) : nodes[x].path = p => x = k
<1> DEFINE k == Position(p)
           list == Sorted(DOMAIN scan)
<1>1. NodesOfScan /\ IsTimedList(nodes, clock) /\ DOMAIN scan \subseteq Paths
    BY DEF Inv, DataInv, ControlInv, IsTimedScan
<1>2. PathsOf(nodes) = list /\ p \in DOMAIN scan
    BY <1>1 DEF NodesOfScan
<1>3. IsSortedList(list, DOMAIN scan)
    BY <1>1, SortedTheorem
<1> HIDE DEF list
<1>4. /\ DOMAIN nodes = 1..Len(nodes) /\ Len(list) = Len(nodes) /\ Len(nodes) \in Nat
      /\ \A x \in 1..Len(nodes) : list[x] = nodes[x].path
    BY <1>1, <1>2, ListOfTimed, PathsOfList
<1>5. \E x \in DOMAIN nodes : nodes[x].path = p
    BY <1>2, <1>3, <1>4 DEF IsSortedList
<1>6. k \in DOMAIN nodes /\ nodes[k].path = p
    BY <1>5 DEF Position
<1> HIDE DEF k
<1>7. ASSUME NEW x \in 1..Len(nodes), nodes[x].path = p PROVE x = k
    <2>1. k \in 1..Len(list) /\ x \in 1..Len(list) /\ list[k] = list[x]
        BY <1>4, <1>6, <1>7
    <2>2. list[k] \in Paths
        BY <1>1, <1>2, <1>4, <1>6
    <2>3. ~(x < k) /\ ~(k < x)
        BY SMTT(30), <1>3, <2>1, <2>2, RankNat DEF IsSortedList, Increasing
    <2> QED BY <1>4, <2>1, <2>3
<1>8. nodes[k].type = scan[p].type /\ nodes[k].time = scan[p].time
    BY <1>1, <1>4, <1>6 DEF NodesOfScan
<1> QED
    BY <1>2, <1>4, <1>6, <1>7, <1>8 DEF k

\* A job that ends leaves the nodes as they are; a file without a digest is one
\* whose job has failed.
LEMMA JobEnds ==
    ASSUME Inv, pc = "add", NEW p, todo' = todo \ {p}, mixed \subseteq mixed',
           UNCHANGED <<ws, ignored, clock, quiet, saved, known, cmd, pc, scan, nodes, root, i, j, events, runs>>,
           \/ exn' = TRUE
           \/ UNCHANGED exn /\ p \in todo /\ nodes[Position(p)].hash # NoHash
    PROVE  Inv'
<1>1. DataInv /\ ControlInv /\ NodesOfScan
    BY DEF Inv, ControlInv
<1>2. DataInv'
    BY <1>1, RightMixed DEF DataInv
<1>3. NodesOfScan'
    BY <1>1 DEF NodesOfScan
<1>4. ControlInv'
    BY <1>1, <1>3 DEF ControlInv
<1>5. PICK G : CacheOf(G)
    BY DEF Inv
<1>6. Filed(G, nodes, Pending')
    <2>1. CASE exn' = TRUE
        <3>1. Root \notin todo
            BY <1>1, TreeAssumption DEF NodesOfScan, DataInv, IsTimedScan
        <3>2. Pending' = Paths /\ Pending \subseteq Paths
            BY <1>1, <2>1, <3>1 DEF Pending, ControlInv
        <3> QED BY <1>5, <3>2, LargerCache DEF CacheOf
    <2>2. CASE UNCHANGED exn /\ p \in todo /\ nodes[Position(p)].hash # NoHash
        <3> SUFFICES ASSUME NEW x \in 1..Len(nodes), nodes[x].type = "file", nodes[x].hash = NoHash
                     PROVE  nodes[x].path \in Pending'
            BY <1>5 DEF CacheOf, Filed
        <3>1. nodes[x].path \in Pending
            BY <1>5 DEF CacheOf, Filed, FileHash, NoHash
        <3>2. nodes[x].path # p
            BY <2>2, PositionIs
        <3> QED BY <2>2, <3>1, <3>2 DEF Pending
    <2> QED BY <2>1, <2>2
<1>7. CacheOf(G)'
    BY <1>5, <1>6 DEF CacheOf
<1> QED
    BY <1>2, <1>4, <1>7 DEF Inv

LEMMA AddFileKeeps == ASSUME Inv, NEW p, AddFile(p) PROVE Inv'
<1>1. /\ pc = "add" /\ p \in todo /\ todo' = todo \ {p} /\ nodes[Position(p)].hash # NoHash
      /\ UNCHANGED <<ws, ignored, clock, quiet, saved, known, cmd, pc, scan, nodes, root, i, j, events, runs>>
    BY DEF AddFile, userVars, bounds
<1>2. mixed \subseteq mixed' /\ (exn' = TRUE \/ UNCHANGED exn)
    BY DEF AddFile, CopyFile
<1> QED
    BY <1>1, <1>2, JobEnds

LEMMA HashFileKeeps == ASSUME Inv, NEW p, HashFile(p) PROVE Inv'
<1> DEFINE k == Position(p)
           n == nodes[k]
           hash == FileHash(ws[p].data)
<1>1. /\ pc = "add" /\ p \in todo
      /\ UNCHANGED <<ws, ignored, clock, quiet, saved, mixed, known, cmd, pc, scan, root, i, j, events, runs>>
    BY DEF HashFile, userVars, cacheVars, bounds
<1>2. DataInv /\ ControlInv /\ NodesOfScan
    BY <1>1 DEF Inv, ControlInv
<1>3. CASE ~Readable(p)
    <2>1. exn' = TRUE /\ todo' = todo \ {p} /\ UNCHANGED nodes
        BY <1>3 DEF HashFile
    <2> QED BY <1>1, <2>1, JobEnds
<1>4. CASE Readable(p)
    <2>1. UNCHANGED <<todo, exn>> /\ nodes' = [nodes EXCEPT ![k].hash = hash]
        BY <1>4 DEF HashFile
    <2>3. /\ p \in DOMAIN scan
          /\ k \in 1..Len(nodes) /\ n.path = p
          /\ \A x \in 1..Len(nodes) : nodes[x].path = p => x = k
        BY <1>1, PositionIs
    <2>4. IsNode(n) /\ n.time \in 0..clock
        BY <1>2, <2>3 DEF DataInv, IsTimedList
    <2> DEFINE new == [n EXCEPT !.hash = hash]
    <2>6. nodes' = [nodes EXCEPT ![k] = new]
        BY <2>1
    <2> HIDE DEF hash, k
    <2>5. /\ IsNode(new) /\ new.hash = hash
          /\ new.path = p /\ new.type = n.type /\ new.time = n.time
        <3> HIDE DEF n
        <3> QED BY <2>3, <2>4, NodeWith
    <2> HIDE DEF new
    <2>7. /\ IsTimedList(nodes', clock) /\ Len(nodes') = Len(nodes)
          /\ PathsOf(nodes') = PathsOf(nodes)
          /\ \A x \in 1..Len(nodes') : nodes'[x] = IF x = k THEN new ELSE nodes[x]
        <3>1. IsTimedList(nodes, clock)
            BY <1>2 DEF DataInv
        <3>2. new.path = nodes[k].path /\ new.time \in 0..clock
            BY <2>3, <2>4, <2>5
        <3>3. k \in 1..Len(nodes) /\ IsNode(new)
            BY <2>3, <2>5
        <3> HIDE DEF n
        <3>4. LET list == [nodes EXCEPT ![k] = new] IN
              /\ IsTimedList(list, clock) /\ Len(list) = Len(nodes)
              /\ PathsOf(list) = PathsOf(nodes)
              /\ \A x \in 1..Len(list) : list[x] = IF x = k THEN new ELSE nodes[x]
            BY <3>1, <3>2, <3>3, ReplacedIs
        <3> QED BY <2>6, <3>4
    <2>8. Right(ws, nodes', mixed)
        <3>1. Right(ws, nodes, mixed)
            BY <1>2 DEF DataInv
        <3>2. Truthful(ws, new.path, new.time, new.hash, mixed)
            BY <2>5 DEF hash, Truthful
        <3> QED BY <2>7, <3>1, <3>2 DEF Right
    <2>9. DataInv'
        BY <1>1, <1>2, <2>7, <2>8 DEF DataInv
    <2>10. NodesOfScan'
        BY <1>1, <1>2, <2>1, <2>3, <2>5, <2>7 DEF NodesOfScan
    <2>11. ControlInv'
        BY <1>1, <1>2, <2>1, <2>10 DEF ControlInv
    <2>12. PICK G : CacheOf(G)
        BY DEF Inv
    <2>13. PICK K : IsCache(K) /\ G \subseteq K /\ hash \in K
        <3>1. IsCache(G \cup {hash})
            BY <2>12, AddedFile DEF CacheOf, hash
        <3> QED BY <3>1
    <2>14. \E c : hash = FileHash(c)
        BY DEF hash
    <2>15. Filed(K, nodes', Pending')
        <3> SUFFICES ASSUME NEW x \in 1..Len(nodes')
                     PROVE  /\ nodes'[x].hash \in K
                            /\ nodes'[x].type = "file" =>
                                  \/ \E c : nodes'[x].hash = FileHash(c)
                                  \/ nodes'[x].hash = NoHash /\ nodes'[x].path \in Pending'
            BY DEF Filed
        <3>1. x \in 1..Len(nodes)
            BY <2>7
        <3>2. /\ nodes[x].hash \in G
              /\ nodes[x].type = "file" =>
                    \/ \E c : nodes[x].hash = FileHash(c)
                    \/ nodes[x].hash = NoHash /\ nodes[x].path \in Pending
            BY <2>12, <3>1 DEF CacheOf, Filed
        <3>3. CASE x = k
            <4>1. nodes'[x] = new
                BY <2>7, <3>3
            <4> QED BY <2>5, <2>13, <2>14, <3>2, <3>3, <4>1
        <3>4. CASE x # k
            <4>1. nodes'[x] = nodes[x] /\ nodes[x].path # p
                BY <2>3, <2>7, <3>1, <3>4
            <4>2. Pending = Pending'
                BY <1>1, <2>1 DEF Pending
            <4> QED BY <2>13, <3>2, <4>1, <4>2
        <3> QED BY <3>3, <3>4
    <2>16. known' \subseteq K /\ root' \in K /\ Filed(K, saved', {})
        BY <1>1, <2>12, <2>13, LargerCache DEF CacheOf
    <2>17. CacheOf(K)'
        BY <2>13, <2>15, <2>16 DEF CacheOf
    <2> QED BY <2>9, <2>11, <2>17 DEF Inv
<1> QED
    BY <1>3, <1>4

LEMMA EndAddKeeps == ASSUME Inv, EndAdd PROVE Inv'
<1>1. pc = "add" /\ todo = {} /\ UNCHANGED <<ws, ignored, clock, saved, store, mixed, known, events, runs>>
    BY DEF EndAdd, cacheVars, bounds
<1>2. DiskStep
    BY <1>1, SameDisk
<1>3. CASE exn
    <2>1. Fail
        BY <1>3 DEF EndAdd
    <2> QED BY <1>1, <1>2, <2>1, FailKeeps DEF Inv, ControlInv
<1>4. CASE ~exn
    <2>1. /\ todo' = {nodes[k].path : k \in {k \in DOMAIN nodes : DirtyDir(k)}}
          /\ pc' = "trees"
          /\ UNCHANGED <<quiet, cmd, scan, nodes, root, exn, i, j>>
        BY <1>4 DEF EndAdd
    <2>2. NodesOfScan /\ IsTimedList(nodes, clock) /\ DOMAIN scan \subseteq Paths
        BY <1>1 DEF Inv, DataInv, ControlInv, IsTimedScan
    <2>3. \A p \in todo' : p \in DOMAIN scan /\ scan[p].type = "dir"
        <3> SUFFICES ASSUME NEW k \in DOMAIN nodes, DirtyDir(k)
                     PROVE  nodes[k].path \in DOMAIN scan /\ scan[nodes[k].path].type = "dir"
            BY <2>1
        <3>1. k \in 1..Len(nodes) /\ nodes[k].type = "dir"
            BY <2>2, ListOfTimed DEF DirtyDir
        <3>2. nodes[k].path = Sorted(DOMAIN scan)[k] /\ Len(Sorted(DOMAIN scan)) = Len(nodes)
            BY <2>2, <3>1, ListOfTimed, PathsOfList DEF NodesOfScan
        <3>3. Sorted(DOMAIN scan) \in Seq(DOMAIN scan)
            BY <2>2, SortedTheorem DEF IsSortedList
        <3> QED BY <2>2, <3>1, <3>2, <3>3 DEF NodesOfScan
    <2>4. DataInv'
        BY <1>1, <2>1 DEF Inv, DataInv
    <2>5. NodesOfScan'
        BY <2>1, <2>2, <2>3 DEF NodesOfScan
    <2>6. ControlInv'
        BY <1>1, <2>1, <2>2, <2>3, <2>5 DEF Inv, ControlInv
    <2>7. Pending' = {} /\ Pending = {}
        BY <1>1, <1>4, <2>1 DEF Pending
    <2>8. \E G : CacheOf(G)'
        BY <1>1, <2>1, <2>7 DEF Inv, CacheOf
    <2> QED BY <2>4, <2>6, <2>8 DEF Inv
<1> QED
    BY <1>3, <1>4

\* The tree of a directory is one of what the cache has.
LEMMA TreeOfNodes ==
    ASSUME Inv, Pending = {}, NEW G, CacheOf(G), NEW d
    PROVE  IsCache(G \cup {TreeHash({Line(n) : n \in ChildrenOf(nodes, d)})})
<1>1. DOMAIN nodes = 1..Len(nodes) /\ \A x \in 1..Len(nodes) : IsNode(nodes[x])
    BY ListOfTimed DEF Inv, DataInv, IsTimedList
<1>2. ASSUME NEW n \in ChildrenOf(nodes, d) PROVE IsEntryOf(G, n.type, n.hash)
    <2>1. PICK x \in 1..Len(nodes) : n = nodes[x]
        BY <1>1 DEF ChildrenOf, ToSet
    <2> QED BY <1>1, <2>1 DEF CacheOf, Filed, IsEntryOf, IsNode
<1> DEFINE N == ChildrenOf(nodes, d)
<1>3. IsCache(G) /\ \A n \in N : IsEntryOf(G, n.type, n.hash)
    BY <1>2 DEF CacheOf
<1> HIDE DEF N
<1>4. IsCache(G \cup {TreeHash({Line(n) : n \in N})})
    BY <1>3, AddedTree
<1> QED
    BY <1>4 DEF N

LEMMA WriteDirectoryKeeps == ASSUME Inv, NEW p, WriteDirectory(p) PROVE Inv'
<1> DEFINE k == Position(p)
           n == nodes[k]
           hash == TreeHash({Line(c) : c \in ChildrenOf(nodes, n.path)})
           new == [n EXCEPT !.hash = hash]
<1>1. /\ pc = "trees" /\ p \in todo /\ todo' = todo \ {p}
      /\ nodes' = [nodes EXCEPT ![k] = new]
      /\ UNCHANGED <<ws, ignored, clock, quiet, saved, mixed, known, cmd, pc, scan, root, exn, i, j, events, runs>>
    BY DEF WriteDirectory, Written, userVars, bounds
<1>2. DataInv /\ ControlInv /\ NodesOfScan
    BY <1>1 DEF Inv, ControlInv
<1>3. /\ p \in DOMAIN scan
      /\ k \in 1..Len(nodes) /\ n.path = p
      /\ n.type = scan[p].type /\ n.time = scan[p].time
    BY <1>1, PositionIs
<1>4. scan[p].type = "dir"
    BY <1>1, <1>2 DEF NodesOfScan
<1>5. IsTimedList(nodes, clock) /\ Right(ws, nodes, mixed) /\ RightScan(ws, scan)
    BY <1>2 DEF DataInv
<1>6. IsNode(n) /\ n.time \in 0..clock
    BY <1>3, <1>5 DEF IsTimedList
<1> HIDE DEF hash, k
<1>7. /\ IsNode(new) /\ new.hash = hash
      /\ new.path = p /\ new.type = "dir" /\ new.time = scan[p].time
    <2> HIDE DEF n
    <2>1. /\ IsNode(new) /\ new.hash = hash
          /\ new.path = n.path /\ new.type = n.type /\ new.time = n.time
        BY <1>6, NodeWith
    <2> HIDE DEF new
    <2> QED BY <1>3, <1>4, <2>1
<1>8. k \in 1..Len(nodes) /\ IsNode(new) /\ new.time \in 0..clock /\ new.path = nodes[k].path
    BY <1>3, <1>6, <1>7
<1> HIDE DEF new, n
<1>9. LET list == [nodes EXCEPT ![k] = new] IN
      /\ IsTimedList(list, clock) /\ Len(list) = Len(nodes)
      /\ PathsOf(list) = PathsOf(nodes)
      /\ \A x \in 1..Len(list) : list[x] = IF x = k THEN new ELSE nodes[x]
    BY <1>5, <1>8, ReplacedIs
<1>10. /\ IsTimedList(nodes', clock) /\ Len(nodes') = Len(nodes)
       /\ PathsOf(nodes') = PathsOf(nodes)
       /\ \A x \in 1..Len(nodes') : nodes'[x] = IF x = k THEN new ELSE nodes[x]
    BY <1>1, <1>9
<1>11. Right(ws, nodes', mixed)
    <2>1. Truthful(ws, new.path, new.time, new.hash, mixed)
        BY <1>3, <1>4, <1>5, <1>7 DEF RightScan, Truthful
    <2> QED BY <1>5, <1>10, <2>1 DEF Right
<1>12. DataInv'
    BY <1>1, <1>2, <1>10, <1>11 DEF DataInv
<1>13. NodesOfScan'
    BY <1>1, <1>2, <1>4, <1>7, <1>10 DEF NodesOfScan
<1>14. ControlInv'
    BY <1>1, <1>2, <1>13 DEF ControlInv
<1>15. PICK G : CacheOf(G)
    BY DEF Inv
<1>16. Pending = {} /\ Pending' = {}
    BY <1>1 DEF Pending
<1>17. PICK K : IsCache(K) /\ K = G \cup {hash}
    BY <1>15, <1>16, TreeOfNodes DEF hash
<1>18. Filed(K, nodes', {})
    <2>1. Filed(K, nodes, {})
        BY <1>15, <1>16, <1>17, LargerCache DEF CacheOf
    <2> QED BY <1>7, <1>10, <1>17, <2>1 DEF Filed
<1>19. known' \subseteq K /\ root' \in K /\ Filed(K, saved', {})
    BY <1>1, <1>15, <1>17, LargerCache DEF CacheOf
<1>20. CacheOf(K)'
    BY <1>16, <1>17, <1>18, <1>19 DEF CacheOf
<1> QED
    BY <1>12, <1>14, <1>20 DEF Inv

LEMMA WriteRootKeeps == ASSUME Inv, WriteRoot PROVE Inv'
<1> DEFINE hash == TreeHash({Line(n) : n \in ChildrenOf(nodes, Root)})
<1>1. /\ pc = "trees" /\ pc' = "save" /\ root' = hash
      /\ UNCHANGED <<ws, ignored, clock, quiet, saved, mixed, known, cmd, scan, todo, nodes, exn, i, j, events, runs>>
    BY DEF WriteRoot, userVars, bounds
<1> HIDE DEF hash
<1>2. DataInv'
    BY <1>1 DEF Inv, DataInv
<1>3. ControlInv'
    BY <1>1 DEF Inv, ControlInv
<1>4. Pending = {} /\ Pending' = {}
    BY <1>1 DEF Pending
<1>5. PICK G : CacheOf(G)
    BY DEF Inv
<1>6. PICK K : IsCache(K) /\ K = G \cup {hash}
    BY <1>4, <1>5, TreeOfNodes DEF hash
<1>7. Filed(K, nodes', {}) /\ Filed(K, saved', {}) /\ known' \subseteq K
    BY <1>1, <1>4, <1>5, <1>6, LargerCache DEF CacheOf
<1>8. CacheOf(K)'
    BY <1>1, <1>4, <1>6, <1>7 DEF CacheOf
<1> QED
    BY <1>2, <1>3, <1>8 DEF Inv

LEMMA SaveKeeps == ASSUME Inv, Save PROVE Inv'
<1>1. /\ pc = "save" /\ pc' = "returned" /\ saved' = nodes /\ known' = known \cup {root}
      /\ scan' = <<>> /\ todo' = {} /\ nodes' = <<>> /\ exn' = FALSE
      /\ UNCHANGED <<ws, ignored, clock, quiet, mixed, cmd, root, events, runs>>
    BY DEF Save, Forget, userVars, bounds
<1>2. DataInv'
    BY <1>1, EmptyList DEF Inv, DataInv
<1>3. ControlInv'
    <2>1. pc' \in Idle /\ pc' \notin {"walk", "add", "trees"}
        BY <1>1 DEF Idle
    <2>2. todo' \subseteq Paths \cup {Root} /\ exn' \in BOOLEAN
        BY <1>1
    <2> QED BY <1>1, <2>1, <2>2 DEF Inv, ControlInv
<1>4. PICK G : CacheOf(G)
    BY DEF Inv
<1>5. Pending = {}
    BY <1>1 DEF Pending
<1>6. CacheOf(G)'
    BY <1>1, <1>4, <1>5, EmptyList DEF CacheOf
<1> QED
    BY <1>2, <1>3, <1>6 DEF Inv

-----------------------------------------------------------------------------
(* The steps of the environment. *)

LEMMA KillKeeps == ASSUME Inv, Kill PROVE Inv'
<1>1. Fail /\ UNCHANGED <<ws, ignored, clock, saved, mixed, known, events, runs>>
    BY DEF Kill, cacheVars, bounds
<1> QED
    BY <1>1, SameDisk, FailKeeps DEF Inv, ControlInv

LEMMA EvictKeeps == ASSUME Inv, Evict PROVE Inv'
<1>1. /\ UNCHANGED <<ws, ignored, clock, quiet, saved, mixed, known, cmd, pc, scan, todo, nodes, root, exn, i, j, runs>>
      /\ events < MaxEvents /\ events' = events + 1
    BY DEF Evict, userVars
<1>2. events' \in 0..MaxEvents
    BY <1>1, WorkspaceAssumption DEF Inv, ControlInv
<1> QED
    BY <1>1, <1>2, SameDisk, ListsSame DEF Inv, ControlInv

LEMMA EditedKeeps ==
    ASSUME Inv, NEW disk, Edited(disk),
           IsWorkspace(disk), Dated(disk, clock + 1), Aged(ws, disk, clock + 1)
    PROVE  Inv'
<1>1. /\ ws' = disk /\ clock' = clock + 1 /\ events < MaxEvents /\ events' = events + 1
      /\ UNCHANGED <<ignored, saved, mixed, known, runs>>
    BY DEF Edited, cacheVars
<1>2. events' \in 0..MaxEvents /\ runs' \in 0..MaxRuns
    BY <1>1, WorkspaceAssumption DEF Inv, ControlInv
<1>3. DiskStep
    BY <1>1 DEF DiskStep
<1>4. CASE pc \in Idle
    <2>1. Fail
        BY <1>4 DEF Edited
    <2> QED BY <1>1, <1>2, <1>3, <2>1, FailKeeps DEF Inv, ControlInv
<1>5. CASE pc \notin Idle
    <2>1. quiet' = FALSE /\ UNCHANGED <<cmd, pc, scan, todo, nodes, root, exn, i, j>>
        BY <1>5 DEF Edited
    <2> QED BY <1>1, <1>2, <1>3, <2>1, ListsSame DEF Inv, ControlInv
<1> QED
    BY <1>4, <1>5

LEMMA WriteFileKeeps == ASSUME Inv, NEW p, WriteFile(p) PROVE Inv'
<1>1. PICK s \in Shapes[p] :
        /\ p \in DOMAIN ws /\ ws[p].type = "file"
        /\ Edited([ws EXCEPT ![p].data = s.data, ![p].time = clock + 1])
    BY DEF WriteFile
<1> DEFINE disk == [ws EXCEPT ![p].data = s.data, ![p].time = clock + 1]
<1>2. clock \in Nat /\ IsWorkspace(ws) /\ Dated(ws, clock)
    BY DEF Inv, DataInv
<1>3. DOMAIN disk = DOMAIN ws /\ \A q \in DOMAIN ws : q # p => disk[q] = ws[q]
    OBVIOUS
<1>4. disk[p] = [ws[p] EXCEPT !.data = s.data, !.time = clock + 1]
    BY <1>1
<1>5. IsEntry(ws[p])
    BY <1>1, <1>2 DEF IsWorkspace
<1> HIDE DEF disk
<1>6. IsEntry(disk[p]) /\ disk[p].type = ws[p].type /\ disk[p].time = clock + 1
    BY <1>4, <1>5 DEF IsEntry
<1>7. IsWorkspace(disk)
    BY <1>2, <1>3, <1>6 DEF IsWorkspace
<1>8. Dated(disk, clock + 1)
    BY <1>2, <1>3, <1>6 DEF Dated
<1>9. Aged(ws, disk, clock + 1)
    BY <1>3, <1>6 DEF Aged
<1> QED
    BY <1>1, <1>7, <1>8, <1>9, EditedKeeps DEF disk

LEMMA ChmodKeeps == ASSUME Inv, NEW p, Chmod(p) PROVE Inv'
<1>1. PICK s \in Shapes[p] : p \in DOMAIN ws /\ Edited([ws EXCEPT ![p].mode = s.mode])
    BY DEF Chmod
<1> DEFINE disk == [ws EXCEPT ![p].mode = s.mode]
<1>2. clock \in Nat /\ IsWorkspace(ws) /\ Dated(ws, clock)
    BY DEF Inv, DataInv
<1>3. disk = WithMode(ws, p, s.mode)
    BY DEF WithMode
<1> HIDE DEF disk
<1>4. Dated(ws, clock + 1)
    BY <1>2 DEF Dated
<1>5. IsWorkspace(disk) /\ Dated(disk, clock + 1) /\ Aged(ws, disk, clock + 1)
    BY <1>2, <1>3, <1>4, ModeIs
<1> QED
    BY <1>1, <1>5, EditedKeeps DEF disk

LEMMA CreateKeeps == ASSUME Inv, NEW p \in DOMAIN Shapes, Create(p) PROVE Inv'
<1>1. PICK s \in Shapes[p] :
        /\ p \notin DOMAIN ws
        /\ Parent[p] = Root \/ (Parent[p] \in DOMAIN ws /\ ws[Parent[p]].type = "dir")
        /\ Edited(Touched(Put(ws, p, [type |-> s.type, data |-> s.data, mode |-> s.mode,
                                      time |-> clock + 1]),
                          Parent[p], clock + 1))
    BY DEF Create
<1> DEFINE e == [type |-> s.type, data |-> s.data, mode |-> s.mode, time |-> clock + 1]
           put == Put(ws, p, e)
           disk == Touched(put, Parent[p], clock + 1)
<1>2. clock \in Nat /\ IsWorkspace(ws) /\ Dated(ws, clock + 1) /\ clock + 1 \in Nat /\ clock + 1 >= 1
    BY DEF Inv, DataInv, Dated
<1>3. p \in Paths /\ s.type \in {"file", "dir", "link"}
    BY WorkspaceAssumption
<1>4. IsEntry(e) /\ e.time = clock + 1
    BY <1>3 DEF IsEntry
<1> HIDE DEF e
<1>5. \A q \in DOMAIN ws : Parent[q] # p
    BY <1>1, <1>2, <1>3, TreeAssumption DEF IsWorkspace
<1>6. IsWorkspace(put) /\ Dated(put, clock + 1) /\ Aged(ws, put, clock + 1)
    BY <1>1, <1>2, <1>3, <1>4, <1>5, PutIs
<1> HIDE DEF put
<1>7. IsWorkspace(disk) /\ Dated(disk, clock + 1) /\ Aged(put, disk, clock + 1)
    BY <1>2, <1>6, TouchedIs
<1>8. Aged(ws, disk, clock + 1)
    BY <1>6, <1>7, AgedTransitive
<1>9. Edited(disk)
    BY <1>1 DEF disk, put, e
<1> HIDE DEF disk
<1> QED
    BY <1>7, <1>8, <1>9, EditedKeeps

LEMMA DeleteKeeps == ASSUME Inv, NEW p, Delete(p) PROVE Inv'
<1> DEFINE left == [q \in DOMAIN ws \ {p} |-> ws[q]]
           disk == Touched(left, Parent[p], clock + 1)
<1>1. Edited(disk) /\ \A q \in DOMAIN ws : Parent[q] # p
    BY DEF Delete
<1>2. clock \in Nat /\ IsWorkspace(ws) /\ Dated(ws, clock + 1) /\ clock + 1 \in Nat /\ clock + 1 >= 1
    BY DEF Inv, DataInv, Dated
<1>3. IsWorkspace(left)
    BY <1>1, <1>2 DEF IsWorkspace
<1>4. Dated(left, clock + 1) /\ Aged(ws, left, clock + 1)
    BY <1>2 DEF Dated, Aged
<1> HIDE DEF left
<1>5. IsWorkspace(disk) /\ Dated(disk, clock + 1) /\ Aged(left, disk, clock + 1)
    BY <1>2, <1>3, <1>4, TouchedIs
<1>6. Aged(ws, disk, clock + 1)
    BY <1>4, <1>5, AgedTransitive
<1> HIDE DEF disk
<1> QED
    BY <1>1, <1>5, <1>6, EditedKeeps

-----------------------------------------------------------------------------
(* The steps of checkout. *)

LEMMA BeginKeeps ==
    ASSUME Inv, NEW t \in known, Begin(t)
    PROVE  Inv'
<1>1. /\ runs < MaxRuns /\ runs' = runs + 1
      /\ ignored' \in Patterns
      /\ UNCHANGED <<ws, clock, saved, mixed, known, events>>
    BY DEF Begin
<1>2. runs' \in 0..MaxRuns
    BY <1>1, WorkspaceAssumption DEF Inv, ControlInv
<1>3. CASE Fail
    BY <1>1, <1>2, <1>3, SameDisk, FailKeeps DEF Inv, ControlInv
<1>4. CASE ~Fail
    <2> DEFINE new == Listing(t)
               list == CopyMetadata(new, saved)
    <2>1. /\ cmd' = "checkout" /\ pc' = "scan" /\ root' = t /\ exn' = FALSE
          /\ nodes' = list /\ scan' = <<>> /\ todo' = {Root} /\ quiet' = TRUE
          /\ UNCHANGED <<i, j>>
        BY <1>4 DEF Begin
    <2>2. PICK G : CacheOf(G)
        BY DEF Inv
    <2>3. clock \in Nat /\ Dated(ws, clock) /\ IsTimedList(saved, clock) /\ Right(ws, saved, mixed)
        BY DEF Inv, DataInv
    <2>4. ASSUME NEW x \in 1..Len(new)
          PROVE  /\ IsNode(new[x]) /\ new[x].time = 0
                 /\ IsEntryOf(G, new[x].type, new[x].hash)
        <3> DEFINE p == Sorted(ListedIn(t))[x]
                   line == Lines(t)[p]
        <3>1. /\ p \in ListedIn(t)
              /\ new[x] = [path |-> p, type |-> line[2], mode |-> line[3],
                           target |-> line[4], hash |-> line[5], time |-> 0]
            BY ListingIs
        <3>2. IsEntryOf(G, line[2], line[5])
            BY <2>2, <3>1, LinesOfCache DEF CacheOf
        <3>3. p \in Paths
            BY <3>1 DEF ListedIn
        <3> HIDE DEF p, line, new
        <3>4. line[2] \in {"file", "dir", "link"}
            BY <3>2 DEF IsEntryOf
        <3> QED BY <3>1, <3>2, <3>3, <3>4 DEF IsNode
    <2>5. IsList(new) /\ IsList(saved)
        BY <2>3, ListingIs, ListOfTimed
    <2> HIDE DEF new
    <2>6. /\ list \in Seq(ToSet(list)) /\ Len(list) = Len(new)
          /\ \A x \in 1..Len(new) :
                \/ list[x] = new[x]
                \/ \E y \in 1..Len(saved) :
                      /\ saved[y].path = new[x].path /\ saved[y].hash = new[x].hash
                      /\ list[x] = [new[x] EXCEPT !.time = saved[y].time]
        BY <2>5, CopyMetadataIs
    <2> HIDE DEF list
    <2>7. ASSUME NEW x \in 1..Len(new)
          PROVE  /\ IsNode(list[x]) /\ list[x].time \in 0..clock
                 /\ list[x].hash = new[x].hash /\ list[x].type = new[x].type
                 /\ Truthful(ws, list[x].path, list[x].time, list[x].hash, mixed)
        <3>1. CASE list[x] = new[x]
            <4>1. new[x].time = 0 /\ \A p \in DOMAIN ws : ws[p].time # 0
                BY <2>3, <2>4 DEF Dated
            <4> QED BY <2>3, <2>4, <3>1, <4>1 DEF Truthful
        <3>2. ASSUME NEW y \in 1..Len(saved),
                     saved[y].path = new[x].path, saved[y].hash = new[x].hash,
                     list[x] = [new[x] EXCEPT !.time = saved[y].time]
              PROVE  /\ IsNode(list[x]) /\ list[x].time \in 0..clock
                     /\ list[x].hash = new[x].hash /\ list[x].type = new[x].type
                     /\ Truthful(ws, list[x].path, list[x].time, list[x].hash, mixed)
            <4>1. saved[y].time \in 0..clock
                BY <2>3 DEF IsTimedList
            <4>2. /\ IsNode(list[x]) /\ list[x].time = saved[y].time /\ list[x].path = new[x].path
                  /\ list[x].hash = new[x].hash /\ list[x].type = new[x].type
                <5> DEFINE n == new[x]
                           time == saved[y].time
                           b == [n EXCEPT !.time = time]
                <5>1. IsNode(n) /\ list[x] = b
                    BY <2>4, <3>2
                <5> HIDE DEF n, time
                <5>2. IsNode(b) /\ b.time = time /\ b.path = n.path /\ b.type = n.type /\ b.hash = n.hash
                    BY <5>1, NodeAt
                <5> HIDE DEF b
                <5>3. /\ IsNode(list[x]) /\ list[x].time = time /\ list[x].path = n.path
                      /\ list[x].hash = n.hash /\ list[x].type = n.type
                    BY <5>1, <5>2
                <5> QED BY <5>3 DEF n, time
            <4>3. ~(saved[y].type = "file" /\ saved[y].hash = NoHash)
                BY <2>2 DEF CacheOf, Filed, FileHash, NoHash
            <4>4. Truthful(ws, saved[y].path, saved[y].time, saved[y].hash, mixed)
                BY <2>3, <4>3 DEF Right
            <4> QED BY <3>2, <4>1, <4>2, <4>4
        <3> QED BY <2>6, <3>1, <3>2
    <2>8. IsTimedList(list, clock) /\ Right(ws, list, mixed)
        BY <2>6, <2>7 DEF IsTimedList, Right
    <2>9. Filed(G, list, {})
        BY <2>4, <2>6, <2>7 DEF Filed, IsEntryOf
    <2>10. DataInv'
        BY <1>1, <2>1, <2>8, EmptyList DEF Inv, DataInv
    <2>11. ControlInv'
        BY <1>1, <1>2, <2>1 DEF Inv, ControlInv
    <2>12. Pending' = {}
        BY <2>1 DEF Pending
    <2>13. CacheOf(G)'
        BY <1>1, <2>1, <2>2, <2>9, <2>12 DEF CacheOf
    <2> QED BY <2>10, <2>11, <2>13 DEF Inv
<1> QED
    BY <1>3, <1>4

LEMMA StartWalkKeeps == ASSUME Inv, StartWalk PROVE Inv'
<1>1. /\ pc = "scan" /\ pc' = "walk" /\ i' = 1 /\ j' = 1
      /\ UNCHANGED <<ws, ignored, clock, quiet, saved, mixed, known, cmd, scan, todo, nodes, root, exn, events, runs>>
    BY DEF StartWalk, userVars, cacheVars, bounds
<1>2. DataInv'
    BY <1>1 DEF Inv, DataInv
<1>3. tree' = tree /\ Len(tree) \in Nat /\ Len(nodes) \in Nat
    <2>1. Sorted(DOMAIN scan) \in Seq(DOMAIN scan) /\ IsTimedList(nodes, clock)
        BY SortedTheorem DEF IsSortedList, Inv, DataInv, IsTimedScan
    <2> QED BY <1>1, <2>1, ListOfTimed DEF tree
<1>4. ControlInv'
    BY <1>1, <1>3 DEF Inv, ControlInv
<1>5. Pending' = {} /\ Pending = {}
    BY <1>1 DEF Pending
<1>6. \E G : CacheOf(G)'
    BY <1>1, <1>5 DEF Inv, CacheOf
<1> QED
    BY <1>2, <1>4, <1>6 DEF Inv

\* A turn of the walk: what it is at.
LEMMA TurnIs ==
    ASSUME Inv, pc = "walk"
    PROVE  /\ Len(tree) \in Nat /\ Len(nodes) \in Nat
           /\ i \in 1..Len(tree) + 1 /\ j \in 1..Len(nodes) + 1
           /\ \A x \in 1..Len(tree) : tree[x] \in DOMAIN scan /\ tree[x] \in Paths
           /\ \A x \in 1..Len(nodes) : IsNode(nodes[x])
           /\ clock \in Nat /\ IsWorkspace(ws) /\ Dated(ws, clock + 1) /\ Aged(ws, ws, clock + 1)
<1>1. /\ DOMAIN scan \subseteq Paths /\ IsTimedList(nodes, clock) /\ clock \in Nat
      /\ IsWorkspace(ws) /\ Dated(ws, clock)
    BY DEF Inv, DataInv, IsTimedScan
<1>2. tree \in Seq(DOMAIN scan)
    BY <1>1, SortedTheorem DEF IsSortedList, tree
<1>3. Dated(ws, clock + 1) /\ Aged(ws, ws, clock + 1)
    BY <1>1, AgedSame DEF Dated
<1> QED
    BY <1>1, <1>2, <1>3, ListOfTimed DEF Inv, ControlInv, IsTimedList

LEMMA DropKeeps ==
    ASSUME Inv, pc = "walk", i <= Len(tree), Drop
    PROVE  Inv'
<1>1. /\ ws' = RemoveAll(ws, tree[i]) /\ clock' = clock + 1 /\ i' = i + 1
      /\ UNCHANGED <<ignored, quiet, saved, mixed, known, cmd, pc, scan, todo, nodes, root, exn, j, events, runs>>
    BY DEF Drop, walkVars, cacheVars, bounds
<1>2. DiskStep
    BY <1>1, TurnIs, RemoveAllIs DEF DiskStep
<1>3. i' \in 1..Len(tree) + 1 /\ j' \in 1..Len(nodes) + 1
    BY <1>1, TurnIs
<1> QED
    BY <1>1, <1>2, <1>3, ListsSame DEF Inv, ControlInv

LEMMA PlaceKeeps ==
    ASSUME Inv, HeldInv, NEW disk, NEW next, Place(disk, next),
           IsWorkspace(disk), Dated(disk, clock + 1), Aged(ws, disk, clock + 1),
           next \in 1..Len(tree) + 1, j <= Len(nodes)
    PROVE  Inv'
<1> DEFINE n == nodes[j]
           q == Real(disk, n.path)
           placed == CheckoutNode(disk, n)
<1>1. pc = "walk" /\ clock' = clock + 1 /\ UNCHANGED <<ignored, saved, store, mixed, known, events, runs>>
    BY DEF Place, cacheVars, bounds
<1>2. j \in 1..Len(nodes) /\ clock \in Nat /\ IsNode(n) /\ n.path \in Paths
    BY <1>1, TurnIs DEF IsNode
<1>3. CASE ~(Clear(disk, n) /\ (n.type = "file" => n.hash \in store))
    <2>1. Fail /\ ws' = IF Clear(disk, n) THEN RemoveAll(disk, n.path) ELSE disk
        BY <1>3 DEF Place
    <2>2. DiskStep
        BY <1>1, <1>2, <2>1, RemoveAllIs, AgedTransitive DEF DiskStep
    <2> QED BY <1>1, <2>1, <2>2, FailKeeps DEF Inv, ControlInv
<1>4. CASE Clear(disk, n) /\ (n.type = "file" => n.hash \in store)
    <2> DEFINE new == [n EXCEPT !.time = ws'[q].time]
    <2>1. /\ ws' = placed /\ i' = next /\ j' = j + 1
          /\ nodes' = [nodes EXCEPT ![j] = new]
          /\ UNCHANGED <<quiet, cmd, pc, scan, todo, root, exn>>
        BY <1>4 DEF Place
    <2>2. PICK G : CacheOf(G)
        BY DEF Inv
    <2>3. Pending = {} /\ Pending' = {}
        BY <1>1, <2>1 DEF Pending
    <2>4. n.hash \in G /\ (n.type = "file" => \E c : n.hash = FileHash(c))
        BY <1>2, <2>2, <2>3 DEF CacheOf, Filed
    <2>5. /\ IsWorkspace(placed) /\ Dated(placed, clock + 1) /\ Aged(disk, placed, clock + 1)
          /\ q \in DOMAIN placed
          /\ Truthful(placed, n.path, placed[q].time, n.hash, mixed)
        <3> HIDE DEF n
        <3> QED BY <1>2, <1>4, <2>4, CheckoutNodeIs
    <2> HIDE DEF placed, q
    <2>6. DiskStep
        BY <1>1, <2>1, <2>5, AgedTransitive DEF DiskStep
    <2>7. ws'[q].time \in 0..clock'
        BY <1>1, <1>2, <2>1, <2>5 DEF Dated
    <2>8. /\ IsNode(new) /\ new.time = ws'[q].time
          /\ new.path = n.path /\ new.type = n.type /\ new.hash = n.hash
        <3> DEFINE time == ws'[q].time
        <3> HIDE DEF n, time
        <3>1. LET b == [n EXCEPT !.time = time] IN
              IsNode(b) /\ b.time = time /\ b.path = n.path /\ b.type = n.type /\ b.hash = n.hash
            BY <1>2, NodeAt
        <3> QED BY <3>1 DEF time
    <2> HIDE DEF new
    <2>9. IsTimedList(nodes, clock') /\ Right(ws', nodes, mixed)
        BY <2>6, DiskStepList
    <2>10. LET list == [nodes EXCEPT ![j] = new] IN
           /\ IsTimedList(list, clock') /\ Len(list) = Len(nodes)
           /\ PathsOf(list) = PathsOf(nodes)
           /\ \A x \in 1..Len(list) : list[x] = IF x = j THEN new ELSE nodes[x]
        BY <1>2, <2>7, <2>8, <2>9, ReplacedIs
    <2>11. /\ IsTimedList(nodes', clock') /\ Len(nodes') = Len(nodes)
           /\ \A x \in 1..Len(nodes') : nodes'[x] = IF x = j THEN new ELSE nodes[x]
        BY <2>1, <2>10
    <2>12. Right(ws', nodes', mixed)
        <3>1. Truthful(ws', new.path, new.time, new.hash, mixed)
            BY <2>1, <2>5, <2>8
        <3> QED BY <2>9, <2>11, <3>1 DEF Right
    <2>13. DataInv'
        <3>1. /\ clock' \in Nat /\ IsTimedList(saved, clock') /\ Right(ws', saved, mixed)
              /\ IsTimedScan(scan, clock') /\ RightScan(ws', scan)
            BY <2>6, DiskStepList
        <3>2. IsWorkspace(ws') /\ Dated(ws', clock')
            BY <2>6 DEF DiskStep
        <3> QED BY <1>1, <2>1, <2>11, <2>12, <3>1, <3>2 DEF DataInv
    <2>14. ControlInv'
        <3>1. tree' = tree
            BY <2>1 DEF tree
        <3>2. i' \in 1..Len(tree') + 1 /\ j' \in 1..Len(nodes') + 1
            BY <1>2, <2>1, <2>11, <3>1, TurnIs, <1>1
        <3> QED BY <1>1, <2>1, <3>2 DEF Inv, ControlInv
    <2>15. Filed(G, nodes', {})
        BY <1>2, <2>2, <2>3, <2>4, <2>8, <2>11 DEF CacheOf, Filed
    <2>16. CacheOf(G)'
        BY <1>1, <2>1, <2>2, <2>3, <2>15 DEF CacheOf
    <2> QED BY <2>13, <2>14, <2>16 DEF Inv
<1> QED
    BY <1>3, <1>4

LEMMA CreateMissingKeeps == ASSUME Inv, HeldInv, CreateMissing PROVE Inv'
<1>1. pc = "walk" /\ j <= Len(nodes) /\ Place(ws, i)
    BY DEF CreateMissing
<1> QED
    BY <1>1, TurnIs, PlaceKeeps DEF Inv, DataInv

LEMMA RemoveKeeps == ASSUME Inv, RemoveRest \/ RemoveExtra PROVE Inv'
<1>1. pc = "walk" /\ i <= Len(tree) /\ Drop
    BY DEF RemoveRest, RemoveExtra, Extra, Both
<1> QED
    BY <1>1, DropKeeps

LEMMA SkipKeeps == ASSUME Inv, SkipBelowLink PROVE Inv'
<1>1. /\ pc = "walk" /\ i <= Len(tree) /\ i' = i + 1
      /\ UNCHANGED <<ws, clock, ignored, quiet, saved, mixed, known, cmd, pc, scan, todo, nodes, root, exn, j, events, runs>>
    BY DEF SkipBelowLink, Extra, Both, walkVars, cacheVars, bounds
<1>2. i' \in 1..Len(tree) + 1 /\ j' \in 1..Len(nodes) + 1
    BY <1>1, TurnIs
<1>3. DiskStep
    BY <1>1, SameDisk
<1> QED
    BY <1>1, <1>2, <1>3, ListsSame DEF Inv, ControlInv

\* The smallest of a set of numbers is one of it.
LEMMA MinIs == ASSUME NEW N, N \subseteq Nat, N # {} PROVE Min(N) \in N
<1>1. \E x \in N : \A y \in N : x <= y
    BY Smallest
<1> QED
    BY <1>1 DEF Min

LEMMA ReplaceDirectoryKeeps == ASSUME Inv, HeldInv, ReplaceDirectory PROVE Inv'
<1> DEFINE other == {k \in i + 1..Len(tree) : tree[k] \notin Below(tree[i])}
           next == Min(other \cup {Len(tree) + 1})
           disk == RemoveAll(ws, tree[i])
<1>1. pc = "walk" /\ i <= Len(tree) /\ j <= Len(nodes) /\ Place(disk, next)
    BY DEF ReplaceDirectory, Same, Both
<1>2. next \in 1..Len(tree) + 1
    <2>1. other \cup {Len(tree) + 1} \subseteq 1..Len(tree) + 1
        BY <1>1, TurnIs
    <2> HIDE DEF other
    <2>2. other \cup {Len(tree) + 1} \subseteq Nat
        BY <2>1
    <2>3. next \in other \cup {Len(tree) + 1}
        BY <2>2, MinIs
    <2> QED BY <2>1, <2>3
<1> HIDE DEF next
<1>3. IsWorkspace(disk) /\ Dated(disk, clock + 1) /\ Aged(ws, disk, clock + 1)
    BY <1>1, TurnIs, RemoveAllIs
<1> HIDE DEF disk
<1> QED
    BY <1>1, <1>2, <1>3, PlaceKeeps

LEMMA ReplaceOtherKeeps == ASSUME Inv, HeldInv, ReplaceOther PROVE Inv'
<1> DEFINE disk == RemoveAll(ws, tree[i])
<1>1. pc = "walk" /\ i <= Len(tree) /\ j <= Len(nodes) /\ Place(disk, i + 1)
    BY DEF ReplaceOther, Same, Both
<1>2. i + 1 \in 1..Len(tree) + 1
    BY <1>1, TurnIs
<1>3. IsWorkspace(disk) /\ Dated(disk, clock + 1) /\ Aged(ws, disk, clock + 1)
    BY <1>1, TurnIs, RemoveAllIs
<1> HIDE DEF disk
<1> QED
    BY <1>1, <1>2, <1>3, PlaceKeeps

LEMMA UpdateKeeps == ASSUME Inv, HeldInv, Update PROVE Inv'
<1>1. pc = "walk" /\ i <= Len(tree) /\ j <= Len(nodes)
    BY DEF Update, Same, Both
<1>2. i + 1 \in 1..Len(tree) + 1 /\ j + 1 \in 1..Len(nodes) + 1
    BY <1>1, TurnIs
<1>3. CASE Differs
    <2>1. Place(ws, i + 1)
        BY <1>3 DEF Update
    <2> QED BY <1>1, <1>2, <2>1, TurnIs, PlaceKeeps
<1>4. CASE ~Differs
    <2>1. /\ ws' = IF scan[tree[i]].mode = nodes[j].mode THEN ws
                   ELSE [ws EXCEPT ![tree[i]].mode = nodes[j].mode]
          /\ i' = i + 1 /\ j' = j + 1
          /\ UNCHANGED <<clock, ignored, quiet, saved, mixed, known, cmd, pc, scan, todo, nodes, root, exn, events, runs>>
        BY <1>4 DEF Update, walkVars, cacheVars, bounds
    <2>2. DiskStep
        <3>1. IsWorkspace(ws) /\ Dated(ws, clock)
            BY DEF Inv, DataInv
        <3>2. CASE ws' = ws
            BY <2>1, <3>2, SameDisk
        <3>3. CASE ws' = WithMode(ws, tree[i], nodes[j].mode)
            <4>1. Dated(ws, clock + 1)
                BY <1>1, TurnIs
            <4>2. IsWorkspace(ws') /\ Dated(ws', clock)
                BY <3>1, <3>3, ModeIs
            <4>3. Aged(ws, ws', clock + 1)
                BY <3>1, <3>3, <4>1, ModeIs
            <4> QED BY <2>1, <4>2, <4>3 DEF DiskStep
        <3> QED BY <2>1, <3>2, <3>3 DEF WithMode
    <2> QED BY <1>2, <2>1, <2>2, ListsSame DEF Inv, ControlInv
<1> QED
    BY <1>3, <1>4

LEMMA EndWalkKeeps == ASSUME Inv, EndWalk PROVE Inv'
<1>1. /\ pc = "walk" /\ pc' = "save"
      /\ UNCHANGED <<ws, clock, ignored, quiet, saved, mixed, known, cmd, scan, todo, nodes, root, exn, events, runs>>
    BY DEF EndWalk, walkVars, cacheVars, bounds
<1>2. DataInv'
    BY <1>1 DEF Inv, DataInv
<1>3. ControlInv'
    BY <1>1 DEF Inv, ControlInv
<1>4. Pending' = {} /\ Pending = {}
    BY <1>1 DEF Pending
<1>5. \E G : CacheOf(G)'
    BY <1>1, <1>4 DEF Inv, CacheOf
<1> QED
    BY <1>2, <1>3, <1>5 DEF Inv

LEMMA StutterKeeps == ASSUME Inv, UNCHANGED vars PROVE Inv'
<1>1. UNCHANGED <<ws, clock, ignored, quiet, saved, mixed, known, cmd, pc, scan, todo, nodes, root, exn, i, j, events, runs>>
    BY DEF vars, userVars, cacheVars, bounds
<1> QED
    BY <1>1, SameDisk, ListsSame DEF Inv, ControlInv

LEMMA NextInv == Inv /\ HeldInv /\ [Next]_vars => Inv'
<1> SUFFICES ASSUME Inv, HeldInv, [Next]_vars PROVE Inv'
    OBVIOUS
<1>1. CASE UNCHANGED vars
    BY <1>1, StutterKeeps
<1>2. CASE WriteStep
    BY <1>2, StartWriteKeeps, ReadDirectoryKeeps, RefreshKeeps, HashFileKeeps, AddFileKeeps, EndAddKeeps,
       WriteDirectoryKeeps, WriteRootKeeps, SaveKeeps DEF WriteStep
<1>3. CASE CheckoutStep
    <2>1. CASE \E t \in known : StartCheckout(t) \/ StartPullCheckout(t)
        BY <2>1, BeginKeeps DEF StartCheckout, StartPullCheckout
    <2> QED
        BY <1>3, <2>1, StartWalkKeeps, CreateMissingKeeps, RemoveKeeps, SkipKeeps,
           ReplaceDirectoryKeeps, ReplaceOtherKeeps, UpdateKeeps, EndWalkKeeps DEF CheckoutStep
<1>4. CASE Environment
    BY <1>4, KillKeeps, EvictKeeps, WriteFileKeeps, ChmodKeeps, CreateKeeps, DeleteKeeps
    DEF Environment
<1> QED
    BY <1>1, <1>2, <1>3, <1>4 DEF Next

\* Only copying a file and an eviction change what the objects have in them.
LEMMA HeldSame ==
    ASSUME HeldInv, UNCHANGED <<held, mixed>>, store \subseteq store'
    PROVE  HeldInv'
BY DEF HeldInv

LEMMA HeldAddFile == ASSUME HeldInv, NEW p, AddFile(p) PROVE HeldInv'
<1>1. CASE UNCHANGED <<store, held, mixed>>
    BY <1>1, HeldSame
<1>2. ASSUME NEW h, NEW c, CopyFile(h, c) PROVE HeldInv'
    <2>1. CASE UNCHANGED <<held, mixed>>
        BY <1>2, <2>1, HeldSame DEF CopyFile
    <2>2. CASE held' = Put(held, h, c) /\ mixed' = mixed \cup {h}
        BY <1>2, <2>2 DEF CopyFile, Put, HeldInv
    <2> QED BY <1>2, <2>1, <2>2 DEF CopyFile
<1> QED
    BY <1>1, <1>2 DEF AddFile

LEMMA HeldNext == HeldInv /\ [Next]_vars => HeldInv'
<1> SUFFICES ASSUME HeldInv, [Next]_vars PROVE HeldInv'
    OBVIOUS
<1>1. CASE UNCHANGED vars
    BY <1>1, HeldSame DEF vars, cacheVars
<1>2. CASE WriteStep
    <2>1. CASE \E p \in Paths : AddFile(p)
        BY <2>1, HeldAddFile
    <2>2. CASE ~(\E p \in Paths : AddFile(p))
        <3>1. UNCHANGED <<held, mixed>> /\ store \subseteq store'
            BY <1>2, <2>2 DEF WriteStep, StartWrite, ReadDirectory, Refresh, HashFile, EndAdd,
               WriteDirectory, WriteRoot, Save, cacheVars
        <3> QED BY <3>1, HeldSame
    <2> QED BY <2>1, <2>2
<1>3. CASE CheckoutStep
    <2>1. UNCHANGED <<held, mixed>> /\ store \subseteq store'
        BY <1>3 DEF CheckoutStep, StartCheckout, StartPullCheckout, Begin, StartWalk,
           CreateMissing, RemoveRest, RemoveExtra, SkipBelowLink, ReplaceDirectory, ReplaceOther,
           Update, EndWalk, Place, Drop, walkVars, cacheVars
    <2> QED BY <2>1, HeldSame
<1>4. CASE Environment
    <2>1. CASE Evict
        BY <2>1 DEF Evict, HeldInv
    <2>2. CASE ~Evict
        <3>1. UNCHANGED <<held, mixed, store>>
            BY <1>4, <2>2 DEF Environment, Kill, WriteFile, Chmod, Create, Delete, Edited, cacheVars
        <3> QED BY <3>1, HeldSame
    <2> QED BY <2>1, <2>2
<1> QED
    BY <1>1, <1>2, <1>3, <1>4 DEF Next

\* The invariants hold of every state: each node of an index that is loaded, made
\* or saved is right about the file it stands for, or its digest is one under
\* which something else has been stored, and its digest is one of a cache in
\* which every tree leads to what it names.
THEOREM InductiveInvariant == Spec => [](Inv /\ HeldInv)
<1>1. Init => Inv /\ HeldInv
    <2>1. Init => HeldInv
        BY DEF Init, HeldInv
    <2> QED BY <2>1, InitInv
<1> QED
    BY <1>1, NextInv, HeldNext, PTL DEF Spec

\* The types, and that no time of an entry or of a node is later than the clock.
THEOREM TypesHold == Spec => []TypeOK
<1>1. Inv /\ HeldInv => TypeOK
    BY TypeIs DEF Inv
<1> QED
    BY <1>1, InductiveInvariant, PTL

\* Whatever order the commands come in, whatever the user edits and others evict
\* meanwhile, and whichever command fails or is killed: a node of the index file
\* (index::save) that index::refresh takes for unchanged has the digest of the
\* file, or one under which cache::add has stored another content.
THEOREM IndexTruthful == Spec => []IndexIsTruthful
<1> QED
    BY TruthIs, InductiveInvariant, PTL

\* Until the trees are written, what the scan found is there while nobody edits.
ExactInv ==
    quiet /\ pc \in {"scan", "add"} => \A p \in DOMAIN scan : p \in DOMAIN ws /\ scan[p] = ws[p]

LEMMA ExactNext == ExactInv /\ [Next]_vars => ExactInv'
<1> SUFFICES ASSUME ExactInv, [Next]_vars PROVE ExactInv'
    OBVIOUS
<1>1. CASE quiet' = FALSE \/ pc' \notin {"scan", "add"}
    BY <1>1 DEF ExactInv
<1>2. CASE scan' = <<>>
    <2>1. PICK entries : entries = <<>> /\ DOMAIN entries = {}
        OBVIOUS
    <2> QED BY <1>2, <2>1 DEF ExactInv
<1>3. CASE UNCHANGED <<ws, quiet, scan>> /\ (pc \in {"scan", "add"} \/ pc' \notin {"scan", "add"})
    BY <1>3 DEF ExactInv
<1>4. ASSUME NEW d, ReadDirectory(d) PROVE ExactInv'
    <2>1. CASE Fail
        BY <1>1, <2>1 DEF Fail
    <2>2. CASE ~Fail
        <3>1. PICK found : found = {p \in DOMAIN ws \ ignored : Parent[p] = d}
            OBVIOUS
        <3>2. /\ scan' = [p \in DOMAIN scan \cup found |-> IF p \in found THEN ws[p] ELSE scan[p]]
              /\ pc = "scan" /\ UNCHANGED <<ws, quiet, pc>>
            BY <1>4, <2>2, <3>1 DEF ReadDirectory
        <3> QED BY <3>1, <3>2 DEF ExactInv
    <2> QED BY <2>1, <2>2
<1>5. CASE WriteStep
    <2>1. CASE EndAdd
        <3>1. pc' = "trees" \/ quiet' = FALSE
            BY <2>1 DEF EndAdd, Fail
        <3> QED BY <1>1, <3>1
    <2>2. CASE StartWrite
        BY <1>2, <2>2 DEF StartWrite
    <2>3. CASE Refresh \/ WriteRoot \/ Save \/ \E p \in Paths : HashFile(p) \/ AddFile(p) \/ WriteDirectory(p)
        BY <1>1, <1>3, <2>3 DEF Refresh, HashFile, AddFile, WriteDirectory, WriteRoot, Save, userVars
    <2> QED BY <1>4, <1>5, <2>1, <2>2, <2>3 DEF WriteStep
<1>6. CASE CheckoutStep
    <2>1. ASSUME NEW t, Begin(t) PROVE ExactInv'
        BY <1>2, <2>1 DEF Begin, Fail, Forget
    <2>2. CASE \E t \in known : StartCheckout(t) \/ StartPullCheckout(t)
        BY <2>1, <2>2 DEF StartCheckout, StartPullCheckout
    <2>3. ASSUME NEW disk, NEW next, Place(disk, next) PROVE pc' \notin {"scan", "add"}
        BY <2>3 DEF Place, Fail
    <2>4. CASE ~ \E t \in known : StartCheckout(t) \/ StartPullCheckout(t)
        <3>1. pc' \notin {"scan", "add"}
            BY <1>6, <2>3, <2>4 DEF CheckoutStep, StartWalk, CreateMissing, RemoveRest, RemoveExtra,
               SkipBelowLink, ReplaceDirectory, ReplaceOther, Update, EndWalk, Extra, Same, Both, Drop, walkVars
        <3> QED BY <1>1, <3>1
    <2> QED BY <2>2, <2>4
<1>7. CASE Environment
    <2>1. ASSUME NEW disk, Edited(disk) PROVE quiet' = FALSE
        BY <2>1 DEF Edited, Fail
    <2>2. ASSUME NEW p, WriteFile(p) \/ Chmod(p) \/ Create(p) \/ Delete(p) PROVE quiet' = FALSE
        BY <2>1, <2>2 DEF WriteFile, Chmod, Create, Delete
    <2>3. CASE Kill
        BY <1>1, <2>3 DEF Kill, Fail
    <2>4. CASE Evict
        BY <1>3, <2>4 DEF Evict, userVars
    <2> QED BY <1>1, <1>7, <2>2, <2>3, <2>4 DEF Environment
<1>8. CASE UNCHANGED vars
    BY <1>3, <1>8 DEF vars, userVars
<1> QED
    BY <1>5, <1>6, <1>7, <1>8 DEF Next

\* A file that is copied is the one that the scan found, and its digest is that
\* of the file or one of the mixed.
LEMMA AddMixed ==
    ASSUME Inv, ExactInv, NEW p, AddFile(p), quiet
    PROVE  mixed' = mixed
<1>1. pc = "add" /\ p \in todo
    BY DEF AddFile
<1>2. PICK k : k = Position(p)
    OBVIOUS
<1>3. /\ p \in DOMAIN scan /\ k \in 1..Len(nodes) /\ nodes[k].path = p
      /\ nodes[k].time = scan[p].time
    BY <1>1, <1>2, PositionIs
<1>4. p \in DOMAIN ws /\ ws[p].time = nodes[k].time
    BY <1>1, <1>3 DEF ExactInv
<1>5. nodes[k].hash # NoHash
    BY <1>2 DEF AddFile
<1>6. Truthful(ws, p, nodes[k].time, nodes[k].hash, mixed)
    BY <1>3, <1>5 DEF Inv, DataInv, Right
<1>7. Readable(p) => nodes[k].hash = FileHash(ws[p].data) \/ nodes[k].hash \in mixed
    BY <1>4, <1>6 DEF Readable, Truthful
<1> QED
    BY <1>2, <1>7 DEF AddFile, CopyFile

LEMMA MixedNext == ASSUME Inv, ExactInv, [Next]_vars PROVE mixed' # mixed => ~quiet
<1>1. CASE \E p \in Paths : AddFile(p)
    BY <1>1, AddMixed
<1>2. CASE ~ \E p \in Paths : AddFile(p)
    <2>1. CASE UNCHANGED vars
        BY <2>1 DEF vars, cacheVars
    <2>2. CASE WriteStep
        BY <1>2, <2>2 DEF WriteStep, StartWrite, ReadDirectory, Refresh, HashFile, EndAdd,
           WriteDirectory, WriteRoot, Save, cacheVars
    <2>3. CASE CheckoutStep
        BY <2>3 DEF CheckoutStep, StartCheckout, StartPullCheckout, Begin, StartWalk,
           CreateMissing, RemoveRest, RemoveExtra, SkipBelowLink, ReplaceDirectory, ReplaceOther,
           Update, EndWalk, Place, Drop, walkVars, cacheVars
    <2>4. CASE Environment
        BY <2>4 DEF Environment, Kill, Evict, WriteFile, Chmod, Create, Delete, Edited, cacheVars
    <2> QED BY <2>1, <2>2, <2>3, <2>4 DEF Next
<1> QED
    BY <1>1, <1>2

\* A digest under which nothing but its content has been stored is given another
\* (cache.cpp, create_file) only by a command during which the user has edited:
\* whatever an index had recorded, and others evicted, before.
THEOREM MixedOnlyByEdits == Spec => MixedByEdits
<1>1. Init => ExactInv
    BY DEF Init, ExactInv
<1>2. Inv /\ ExactInv /\ [Next]_vars => [mixed' # mixed => ~quiet]_vars
    BY MixedNext
<1> QED
    BY <1>1, <1>2, ExactNext, InductiveInvariant, PTL DEF Spec, MixedByEdits

-----------------------------------------------------------------------------
(* What refresh leaves without a digest. *)

\* set_dirty leaves no directory with a digest above a path without one.
LEMMA SetDirtyUp ==
    ASSUME NEW hash, NEW p \in Paths, NEW q \in Paths, q \in DOMAIN hash,
           Parent[q] # Root, Parent[q] \in DOMAIN hash,
           q = p \/ (hash[q] = NoHash => hash[Parent[q]] = NoHash),
           SetDirty(hash, p)[q] = NoHash
    PROVE  SetDirty(hash, p)[Parent[q]] = NoHash
<1> DEFINE clean(a) == \A b \in Above[p] : b = a \/ a \in Above[b] => hash[b] # NoHash
           a == Parent[q]
           new == SetDirty(hash, p)
<1>1. new = [r \in DOMAIN hash |-> IF r = p \/ (r \in Above[p] /\ clean(r)) THEN NoHash ELSE hash[r]]
    BY DEF SetDirty
<1>2. a \in Paths /\ a \in Above[q] /\ Rank[a] < Rank[q]
    BY ParentRank, ParentAbove
<1>3. \A b \in Above[q] : b = a \/ b \in Above[a]
    BY AboveParent
<1>4. \A b \in Paths : ~(a \in Above[b] /\ b \in Above[a])
    BY <1>2, AboveOrder, RankNat
<1>5. \A b \in Above[p] : b \in Paths
    BY AboveOrder
<1> HIDE DEF new
<1>6. \A r \in DOMAIN hash : hash[r] = NoHash => new[r] = NoHash
    BY <1>1
<1>7. CASE hash[a] = NoHash
    BY <1>6, <1>7 DEF new
<1>8. CASE hash[a] # NoHash
    <2>1. q = p \/ (q \in Above[p] /\ clean(q))
        BY <1>1, <1>8 DEF new
    <2>2. a \in Above[p]
        BY <1>2, <2>1, AboveOrder
    <2>3. clean(a)
        <3> SUFFICES ASSUME NEW b \in Above[p], a \in Above[b] PROVE hash[b] # NoHash
            BY <1>8
        <3>1. CASE q = p
            BY <1>3, <1>4, <1>5, <3>1
        <3>2. CASE q \in Above[p] /\ clean(q)
            <4>1. b = q \/ b \in Above[q] \/ q \in Above[b]
                BY <3>2, AboveChain
            <4>2. b \notin Above[q]
                BY <1>3, <1>4, <1>5, AboveOrder, RankNat
            <4> QED BY <3>2, <4>1, <4>2
        <3> QED BY <2>1, <3>1, <3>2
    <2> HIDE DEF clean
    <2> QED BY <1>1, <2>2, <2>3 DEF new
<1> QED
    BY <1>7, <1>8 DEF new

\* Of the paths that the scan and the index have, none without a digest is in
\* a directory with one.
DirtyUp(list, index, hash) ==
    \A x \in 1..Len(list), y \in 1..Len(index) :
        list[x] = index[y].path /\ hash[list[x]] = NoHash /\ Parent[list[x]] # Root
            => hash[Parent[list[x]]] = NoHash

LEMMA RefreshedUp ==
    ASSUME NEW list \in Seq(Paths), Increasing(list), NEW entries,
           \A x \in 1..Len(list) :
              /\ list[x] \in DOMAIN entries
              /\ Parent[list[x]] # Root => Parent[list[x]] \in DOMAIN entries,
           NEW index, IsList(index), Ordered(index)
    PROVE  DirtyUp(list, index, Refreshed(list, entries, index))
<1> DEFINE n == Len(list) + Len(index)
           hash == Refreshing(list, entries, index)
           paths == PathsOf(index)
           at == Walk(list, paths)
           Closed(h, q) == Parent[q] # Root /\ h[q] = NoHash => h[Parent[q]] = NoHash
           Good(s) == /\ DOMAIN hash[s] = DOMAIN entries
                      /\ \A t \in 1..s :
                            Match(list, paths, at[t - 1]) =>
                                /\ at[t - 1][1] < at[s][1]
                                /\ Closed(hash[s], list[at[t - 1][1]])
<1>1. /\ n \in Nat
      /\ Refreshed(list, entries, index) = hash[n]
      /\ hash[0] = [p \in DOMAIN entries |-> NoHash]
      /\ \A s \in 1..n :
            hash[s] = IF Match(list, paths, at[s - 1])
                      THEN Reuse(list, entries, index, hash[s - 1], at[s - 1])
                      ELSE hash[s - 1]
    <2>1. RefreshSteps(list, entries, index)
        BY RefreshingIs
    <2> QED BY <2>1 DEF RefreshSteps
<1>2. /\ paths \in Seq(Paths) /\ Len(paths) = Len(index) /\ Len(index) \in Nat
      /\ \A y \in 1..Len(index) : paths[y] = index[y].path
      /\ Increasing(paths)
    BY PathsOfList, OrderedIs
<1>3. /\ \A s \in 0..n : at[s] \in (1..Len(list) + 1) \X (1..Len(index) + 1)
      /\ \A s \in 1..n : at[s] = Turn(list, paths, at[s - 1])
    BY <1>2, WalkType
<1>4. Len(list) \in Nat
    OBVIOUS
<1> HIDE DEF n, hash, paths, at
<1>5. ASSUME NEW s \in 1..n
      PROVE  /\ at[s - 1][1] \in Nat /\ at[s][1] \in Nat /\ at[s - 1][1] <= at[s][1]
             /\ Match(list, paths, at[s - 1]) =>
                   /\ at[s - 1][1] \in 1..Len(list) /\ at[s - 1][2] \in 1..Len(index)
                   /\ list[at[s - 1][1]] = index[at[s - 1][2]].path
                   /\ at[s - 1][1] < at[s][1]
    <2> DEFINE m == at[s - 1]
    <2>1. m \in (1..Len(list) + 1) \X (1..Len(index) + 1) /\ at[s] = Turn(list, paths, m)
        BY <1>1, <1>3
    <2>2. at[s] \in (1..Len(list) + 1) \X (1..Len(index) + 1)
        BY <1>1, <1>3
    <2> HIDE DEF m
    <2>3. m[1] \in Nat /\ at[s][1] \in Nat
        BY <2>1, <2>2
    <2>4. at[s][1] = m[1] \/ at[s][1] = m[1] + 1
        BY <2>1 DEF Turn
    <2>5. ASSUME Match(list, paths, m)
          PROVE  /\ m[1] \in 1..Len(list) /\ m[2] \in 1..Len(index)
                 /\ list[m[1]] = index[m[2]].path
                 /\ at[s][1] = m[1] + 1
        <3>1. m[1] <= Len(list) /\ m[2] <= Len(index) /\ list[m[1]] = paths[m[2]]
            BY <1>2, <2>5 DEF Match
        <3>2. m[1] \in 1..Len(list) /\ m[2] \in 1..Len(index)
            BY <1>2, <1>4, <2>1, <3>1
        <3>3. list[m[1]] \in Paths
            BY <3>2
        <3>4. Rank[list[m[1]]] <= Rank[paths[m[2]]]
            BY <3>1, <3>3, RankNat
        <3>5. ~(m[1] > Len(list) \/ m[2] > Len(paths))
            BY <1>2, <1>4, <3>2
        <3>6. at[s] = <<m[1] + 1, IF Rank[paths[m[2]]] <= Rank[list[m[1]]] THEN m[2] + 1 ELSE m[2]>>
            BY <2>1, <3>4, <3>5 DEF Turn
        <3> QED BY <1>2, <3>1, <3>2, <3>6
    <2> QED BY <2>3, <2>4, <2>5 DEF m
<1>6. Good(0)
    BY <1>1
<1>7. ASSUME NEW s \in 1..n, Good(s - 1) PROVE Good(s)
    <2> DEFINE m == at[s - 1]
               old == hash[s - 1]
               new == hash[s]
               r == list[m[1]]
    <2>1. s - 1 \in 0..n /\ \A t \in 1..s : t \in 1..s - 1 \/ t = s
        BY <1>1
    <2>2. ASSUME NEW t \in 1..s - 1, Match(list, paths, at[t - 1])
          PROVE  at[t - 1][1] < m[1] /\ at[t - 1][1] < at[s][1] /\ Closed(old, list[at[t - 1][1]])
        <3>1. t \in 1..n
            BY <1>1
        <3>2. at[t - 1][1] \in Nat /\ m[1] \in Nat /\ at[s][1] \in Nat /\ m[1] <= at[s][1]
            BY <1>5, <3>1
        <3>3. at[t - 1][1] < at[s - 1][1] /\ Closed(hash[s - 1], list[at[t - 1][1]])
            <4> HIDE DEF Closed
            <4> QED BY <1>7, <2>2
        <3> QED BY <3>2, <3>3
    <2>3. DOMAIN old = DOMAIN entries
        BY <1>7
    <2> HIDE DEF Closed
    <2>4. CASE ~Match(list, paths, m)
        <3>1. new = old
            BY <1>1, <2>4
        <3> QED BY <2>1, <2>2, <2>3, <2>4, <3>1
    <2>5. CASE Match(list, paths, m)
        <3>1. new = Reuse(list, entries, index, old, m)
            BY <1>1, <2>5
        <3>2. m[1] \in 1..Len(list) /\ m[1] < at[s][1]
            BY <1>5, <2>5
        <3>3. r \in Paths /\ r \in DOMAIN entries /\ (Parent[r] # Root => Parent[r] \in DOMAIN entries)
            BY <3>2
        <3>4. ASSUME NEW t \in 1..s - 1, Match(list, paths, at[t - 1])
              PROVE  LET q == list[at[t - 1][1]] IN
                     /\ q \in Paths /\ q \in DOMAIN entries /\ Rank[q] < Rank[r]
                     /\ Parent[q] # Root => Parent[q] \in DOMAIN entries
            <4>1. t \in 1..n
                BY <1>1
            <4>2. at[t - 1][1] \in 1..Len(list)
                BY <1>5, <3>4, <4>1
            <4>3. at[t - 1][1] < m[1]
                BY <2>2, <3>4
            <4> HIDE DEF m
            <4> QED BY <3>2, <4>2, <4>3 DEF Increasing
        <3> DEFINE i0 == index[m[2]]
        <3>5. DOMAIN new = DOMAIN entries /\ Closed(new, r)
              /\ \A q \in Paths : q \in DOMAIN entries /\ Rank[q] < Rank[r]
                    /\ (Parent[q] # Root => Parent[q] \in DOMAIN entries)
                    /\ Closed(old, q) => Closed(new, q)
            <4>1. CASE i0.hash # NoHash /\ Equivalent(i0, entries[r])
                <5>1. new = [old EXCEPT ![r] = i0.hash]
                    BY <3>1, <4>1 DEF Reuse
                <5> HIDE DEF i0, new, old, r
                <5>2. new[r] # NoHash /\ DOMAIN new = DOMAIN entries
                    BY <2>3, <3>3, <4>1, <5>1
                <5>3. ASSUME NEW q \in Paths, q \in DOMAIN entries, Rank[q] < Rank[r],
                             Parent[q] # Root => Parent[q] \in DOMAIN entries, Closed(old, q)
                      PROVE  Closed(new, q)
                    <6>1. q # r /\ (Parent[q] # Root => Parent[q] # r)
                        BY <3>3, <5>3, ParentRank, RankNat
                    <6> QED BY <2>3, <5>1, <5>3, <6>1 DEF Closed
                <5> QED BY <5>2, <5>3 DEF Closed
            <4>2. CASE ~(i0.hash # NoHash /\ Equivalent(i0, entries[r]))
                <5>1. new = SetDirty(old, r)
                    BY <3>1, <4>2 DEF Reuse
                <5> HIDE DEF i0, new, old, r
                <5>2. DOMAIN new = DOMAIN entries
                    BY <2>3, <5>1 DEF SetDirty
                <5>3. Closed(new, r)
                    BY <2>3, <3>3, <5>1, SetDirtyUp DEF Closed
                <5>4. ASSUME NEW q \in Paths, q \in DOMAIN entries, Rank[q] < Rank[r],
                             Parent[q] # Root => Parent[q] \in DOMAIN entries, Closed(old, q)
                      PROVE  Closed(new, q)
                    BY <2>3, <3>3, <5>1, <5>4, SetDirtyUp DEF Closed
                <5> QED BY <5>2, <5>3, <5>4
            <4> QED BY <4>1, <4>2
        <3> HIDE DEF new, old
        <3>6. ASSUME NEW t \in 1..s, Match(list, paths, at[t - 1])
              PROVE  at[t - 1][1] < at[s][1] /\ Closed(new, list[at[t - 1][1]])
            <4>1. CASE t = s
                BY <3>2, <3>5, <4>1
            <4>2. CASE t \in 1..s - 1
                BY <2>2, <3>4, <3>5, <3>6, <4>2
            <4> QED BY <2>1, <4>1, <4>2
        <3> QED BY <3>5, <3>6 DEF new
    <2> QED BY <2>4, <2>5
<1>8. Good(n)
    <2> DEFINE P == {s \in 0..n : Good(s)}
    <2> HIDE DEF Good
    <2>1. 0 \in P /\ \A s \in 1..n : s - 1 \in P => s \in P
        BY <1>1, <1>6, <1>7
    <2>2. 0..n \subseteq P
        <3> HIDE DEF P
        <3> QED BY <1>1, <2>1, Counting
    <2>3. n \in 0..n
        BY <1>1
    <2> QED BY <2>2, <2>3
<1>9. ASSUME NEW x \in 1..Len(list), NEW y \in 1..Len(index), list[x] = index[y].path
      PROVE  Closed(hash[n], list[x])
    <2>1. y \in 1..Len(paths) /\ list[x] = paths[y] /\ Len(list) + Len(paths) = n
        BY <1>2, <1>9 DEF n
    <2>2. PICK t \in 1..n : at[t - 1] = <<x, y>>
        BY <1>2, <2>1, MatchesComplete DEF at
    <2>3. Match(list, paths, at[t - 1])
        BY <1>2, <2>1, <2>2 DEF Match
    <2>4. at[t - 1][1] = x
        BY <2>2
    <2> HIDE DEF Closed
    <2> QED BY <1>8, <2>3, <2>4
<1>10. DirtyUp(list, index, hash[n])
    BY <1>9 DEF DirtyUp
<1> QED
    BY <1>1, <1>10

-----------------------------------------------------------------------------
(* What the changes of a disk do to its directories. *)

SameIn(disk, new, d) == \A q \in Paths : Parent[q] = d => (q \in DOMAIN new <=> q \in DOMAIN disk)

\* A directory of new is one of disk with the same entries, or has the time t.
DirAged(disk, new, t) ==
    \A p \in DOMAIN new :
        new[p].type = "dir" =>
            \/ new[p].time = t
            \/ /\ p \in DOMAIN disk /\ disk[p].type = "dir"
               /\ disk[p].time = new[p].time /\ SameIn(disk, new, p)

\* Nothing of new is not in disk, or is something else.
Smaller(disk, new) ==
    DOMAIN new \subseteq DOMAIN disk /\ \A p \in DOMAIN new : new[p].type = disk[p].type
SameShape(disk, new) == Smaller(disk, new) /\ DOMAIN new = DOMAIN disk

\* Everything but p is still there, and what it was.
KeptBut(disk, new, p) ==
    \A q \in DOMAIN disk : q # p => q \in DOMAIN new /\ new[q].type = disk[q].type

\* There is something at p.
IsAt(disk, p, type, t) == p \in DOMAIN disk /\ disk[p].type = type /\ disk[p].time = t

LEMMA DirAgedTransitive ==
    ASSUME NEW a, NEW b, NEW c, NEW t, DirAged(a, b, t), DirAged(b, c, t)
    PROVE  DirAged(a, c, t)
<1> SUFFICES ASSUME NEW p \in DOMAIN c, c[p].type = "dir", c[p].time # t
             PROVE  /\ p \in DOMAIN a /\ a[p].type = "dir"
                    /\ a[p].time = c[p].time /\ SameIn(a, c, p)
    BY DEF DirAged
<1>1. p \in DOMAIN b /\ b[p].type = "dir" /\ b[p].time = c[p].time /\ SameIn(b, c, p)
    BY DEF DirAged
<1>2. p \in DOMAIN a /\ a[p].type = "dir" /\ a[p].time = b[p].time /\ SameIn(a, b, p)
    BY <1>1 DEF DirAged
<1> QED
    BY <1>1, <1>2 DEF SameIn

LEMMA DirAgedSame == ASSUME NEW a, NEW t PROVE DirAged(a, a, t) /\ SameShape(a, a)
BY DEF DirAged, SameIn, SameShape, Smaller

LEMMA SmallerTransitive ==
    ASSUME NEW a, NEW b, NEW c, Smaller(a, b), Smaller(b, c)
    PROVE  Smaller(a, c)
BY DEF Smaller

\* A directory gets a new time.
LEMMA TouchedShape ==
    ASSUME NEW disk, NEW d, NEW t, \A p \in DOMAIN disk : IsEntry(disk[p])
    PROVE  LET new == Touched(disk, d, t) IN
           /\ SameShape(disk, new)
           /\ \A p \in DOMAIN disk : p # d => new[p] = disk[p]
           /\ d \in DOMAIN disk => new[d].time = t
<1> DEFINE new == Touched(disk, d, t)
<1>1. DOMAIN new = DOMAIN disk
    BY DEF Touched
<1>2. \A p \in DOMAIN disk : p # d => new[p] = disk[p]
    BY DEF Touched
<1>3. d \in DOMAIN disk => new[d].time = t /\ new[d].type = disk[d].type
    <2> HAVE d \in DOMAIN disk
    <2>1. new[d] = [disk[d] EXCEPT !.time = t]
        BY DEF Touched
    <2>2. disk[d] = [type |-> disk[d].type, data |-> disk[d].data, mode |-> disk[d].mode, time |-> disk[d].time]
        BY DEF IsEntry
    <2> HIDE DEF new
    <2> QED BY <2>1, <2>2
<1> HIDE DEF new
<1>4. SameShape(disk, new)
    BY <1>1, <1>2, <1>3 DEF SameShape, Smaller
<1> QED
    BY <1>2, <1>3, <1>4 DEF new

\* An entry is put into a directory.
LEMMA PutDir ==
    ASSUME NEW disk, NEW p \in Paths, NEW e, NEW t, \A q \in DOMAIN disk : IsEntry(disk[q]),
           IsEntry(e), e.time = t
    PROVE  LET new == Touched(Put(disk, p, e), Parent[p], t) IN
           /\ DOMAIN new = DOMAIN disk \cup {p} /\ IsAt(new, p, e.type, t)
           /\ KeptBut(disk, new, p) /\ DirAged(disk, new, t)
<1> DEFINE put == Put(disk, p, e)
           new == Touched(put, Parent[p], t)
<1>1. /\ DOMAIN put = DOMAIN disk \cup {p} /\ put[p] = e
      /\ \A q \in DOMAIN disk : q # p => put[q] = disk[q]
    BY DEF Put
<1>2. Parent[p] # p
    BY ParentRank, RankNat, TreeAssumption
<1> HIDE DEF put
<1>3. \A q \in DOMAIN put : IsEntry(put[q])
    BY <1>1
<1>4. /\ SameShape(put, new)
      /\ \A q \in DOMAIN put : q # Parent[p] => new[q] = put[q]
      /\ Parent[p] \in DOMAIN put => new[Parent[p]].time = t
    BY <1>3, TouchedShape
<1> HIDE DEF new
<1>5. /\ DOMAIN new = DOMAIN disk \cup {p} /\ new[p] = e
      /\ \A q \in DOMAIN disk : q # p => new[q].type = disk[q].type
    BY <1>1, <1>2, <1>4 DEF SameShape, Smaller
<1>6. DirAged(disk, new, t)
    <2> SUFFICES ASSUME NEW d \in DOMAIN new, new[d].time # t
                 PROVE  d \in DOMAIN disk /\ disk[d] = new[d] /\ SameIn(disk, new, d)
        BY DEF DirAged
    <2>1. d # p /\ d # Parent[p]
        BY <1>1, <1>4, <1>5
    <2> QED BY <1>1, <1>4, <1>5, <2>1 DEF SameIn
<1>7. KeptBut(disk, new, p)
    BY <1>5 DEF KeptBut
<1> QED
    BY <1>5, <1>6, <1>7 DEF IsAt, new, put

\* Entries are removed: one of a directory that is left, and those below it.
LEMMA LessDir ==
    ASSUME NEW disk, NEW P, NEW q, NEW t, \A p \in DOMAIN disk : IsEntry(disk[p]),
           \A r \in DOMAIN disk \cap P : r = q \/ Parent[r] \in P
    PROVE  LET new == Touched([r \in DOMAIN disk \ P |-> disk[r]], Parent[q], t) IN
           /\ DOMAIN new = DOMAIN disk \ P
           /\ Smaller(disk, new) /\ DirAged(disk, new, t)
<1> DEFINE left == [r \in DOMAIN disk \ P |-> disk[r]]
           new == Touched(left, Parent[q], t)
<1>1. DOMAIN left = DOMAIN disk \ P /\ \A r \in DOMAIN left : left[r] = disk[r]
    OBVIOUS
<1> HIDE DEF left
<1>2. \A r \in DOMAIN left : IsEntry(left[r])
    BY <1>1
<1>3. /\ SameShape(left, new)
      /\ \A r \in DOMAIN left : r # Parent[q] => new[r] = left[r]
      /\ Parent[q] \in DOMAIN left => new[Parent[q]].time = t
    BY <1>2, TouchedShape
<1> HIDE DEF new
<1>4. DOMAIN new = DOMAIN disk \ P /\ Smaller(disk, new)
    BY <1>1, <1>3 DEF SameShape, Smaller
<1>5. DirAged(disk, new, t)
    <2> SUFFICES ASSUME NEW d \in DOMAIN new, new[d].time # t
                 PROVE  d \in DOMAIN disk /\ disk[d] = new[d] /\ SameIn(disk, new, d)
        BY DEF DirAged
    <2>1. d # Parent[q] /\ d \in DOMAIN left
        BY <1>1, <1>3, <1>4
    <2>2. \A r \in DOMAIN disk : Parent[r] = d => r \notin P
        BY <1>1, <2>1
    <2> QED BY <1>1, <1>3, <1>4, <2>1, <2>2 DEF SameIn
<1> QED
    BY <1>4, <1>5 DEF new, left

LEMMA RemoveAllDir ==
    ASSUME NEW disk, NEW p \in Paths, IsWorkspace(disk)
    PROVE  LET new == RemoveAll(disk, p)
               q == Real(disk, p)
           IN  /\ Smaller(disk, new) /\ DirAged(disk, new, clock + 1)
               /\ DOMAIN new = DOMAIN disk \ ({q} \cup Below(q))
<1> DEFINE q == Real(disk, p)
           P == {q} \cup Below(q)
           new == RemoveAll(disk, p)
<1>1. q \in Paths
    BY RealInPaths
<1>2. \A r \in DOMAIN disk :
          /\ r \in Paths /\ IsEntry(disk[r])
          /\ Parent[r] # Root => Parent[r] \in DOMAIN disk
    BY DEF IsWorkspace
<1> HIDE DEF q
<1>3. ASSUME NEW r \in DOMAIN disk \cap P PROVE r = q \/ Parent[r] \in P
    <2>1. CASE r \in Below(q)
        <3>1. q \in Above[r] /\ r \in Paths
            BY <2>1 DEF Below
        <3>2. Parent[r] # Root /\ (q = Parent[r] \/ q \in Above[Parent[r]])
            BY <3>1, AboveParent
        <3>3. Parent[r] \in Paths
            BY <3>1, <3>2, ParentRank
        <3> QED BY <3>2, <3>3 DEF Below
    <2> QED BY <2>1
<1>4. CASE q \in DOMAIN disk
    <2>1. new = Touched([r \in DOMAIN disk \ P |-> disk[r]], Parent[q], clock + 1)
        BY <1>4 DEF RemoveAll, q
    <2>2. \A r \in DOMAIN disk \cap P : r = q \/ Parent[r] \in P
        BY <1>3
    <2> HIDE DEF P, new
    <2>3. PICK t : t = clock + 1
        OBVIOUS
    <2>4. new = Touched([r \in DOMAIN disk \ P |-> disk[r]], Parent[q], t)
        BY <2>1, <2>3
    <2>5. /\ \A r \in DOMAIN disk : IsEntry(disk[r])
          /\ \A r \in DOMAIN disk \cap P : r = q \/ Parent[r] \in P
        BY <1>2, <2>2
    <2>6. Smaller(disk, new) /\ DirAged(disk, new, t) /\ DOMAIN new = DOMAIN disk \ P
        BY ZenonT(60), <2>4, <2>5, LessDir
    <2>7. Smaller(disk, new) /\ DirAged(disk, new, clock + 1) /\ DOMAIN new = DOMAIN disk \ P
        BY <2>3, <2>6
    <2> QED BY <2>7 DEF q, P, new
<1>5. CASE q \notin DOMAIN disk
    <2>1. new = disk
        BY <1>5 DEF RemoveAll, q
    <2>2. ASSUME NEW r \in DOMAIN disk \cap Below(q) PROVE FALSE
        <3> DEFINE Bad == DOMAIN disk \cap Below(q)
        <3>1. Bad # {} /\ Bad \subseteq Paths
            BY <1>2
        <3>2. PICK s \in Bad : \A u \in Bad : Rank[s] <= Rank[u]
            <4> HIDE DEF Bad
            <4> QED BY <3>1, Lowest
        <3>3. q \in Above[s] /\ s \in Paths /\ s \in DOMAIN disk
            BY <1>2 DEF Below
        <3>4. Parent[s] # Root /\ (q = Parent[s] \/ q \in Above[Parent[s]])
            BY <3>3, AboveParent
        <3>5. Parent[s] \in Paths /\ Rank[Parent[s]] < Rank[s] /\ Parent[s] \in DOMAIN disk
            BY <1>2, <3>3, <3>4, ParentRank
        <3>6. Parent[s] \in Bad
            BY <1>5, <3>4, <3>5 DEF Below
        <3> QED BY <3>2, <3>3, <3>5, <3>6, RankNat
    <2>3. DOMAIN disk = DOMAIN disk \ P
        BY <1>5, <2>2
    <2> QED BY <2>1, <2>3, DirAgedSame DEF SameShape, q
<1> QED
    BY <1>4, <1>5

LEMMA ModeDir ==
    ASSUME NEW disk, NEW p, NEW mode, NEW t, IsWorkspace(disk), Dated(disk, t)
    PROVE  LET new == WithMode(disk, p, mode) IN SameShape(disk, new) /\ DirAged(disk, new, t)
<1>1. PICK new : new = WithMode(disk, p, mode)
    OBVIOUS
<1>2. /\ DOMAIN new = DOMAIN disk
      /\ \A q \in DOMAIN disk :
            new[q].type = disk[q].type /\ new[q].time = disk[q].time /\ new[q].data = disk[q].data
    <2>1. \A q \in DOMAIN disk : q # p => new[q] = disk[q]
        BY <1>1 DEF WithMode
    <2>2. p \in DOMAIN disk => new[p] = [disk[p] EXCEPT !.mode = mode] /\ IsEntry(disk[p])
        BY <1>1 DEF WithMode, IsWorkspace
    <2>3. p \in DOMAIN disk =>
              new[p].type = disk[p].type /\ new[p].time = disk[p].time /\ new[p].data = disk[p].data
        BY <2>2 DEF IsEntry
    <2> QED BY <1>1, <2>1, <2>3 DEF WithMode
<1> QED
    BY <1>1, <1>2 DEF SameShape, Smaller, DirAged, SameIn

\* A path is where it seems to be when none of the directories above it that
\* exist is a symlink.
LEMMA RealPlain ==
    ASSUME NEW disk, DOMAIN disk \subseteq Paths, NEW p \in Paths, Canonical(disk, p)
    PROVE  Real(disk, p) = p
<1> DEFINE Bad == {r \in Paths : (r = p \/ r \in Above[p]) /\ Real(disk, r) # r}
<1>1. SUFFICES ASSUME Bad # {} PROVE FALSE
    OBVIOUS
<1>2. PICK r \in Bad : \A q \in Bad : Rank[r] <= Rank[q]
    <2>1. Bad \subseteq Paths
        OBVIOUS
    <2> HIDE DEF Bad
    <2> QED BY <1>1, <2>1, Lowest
<1>3. PICK real : real = [q \in Paths |-> RealOf(disk, real, q)] /\ \A q : Real(disk, q) = real[q]
    BY RealIs
<1>4. r \in Paths /\ Above[r] \subseteq Above[p]
    BY <1>2, AboveOrder
<1>5. Real(disk, r) = RealIn(disk, IF Parent[r] = Root THEN Root ELSE Real(disk, Parent[r]), r)
    BY <1>3, <1>4 DEF RealOf
<1>6. Parent[r] # Root => Real(disk, Parent[r]) = Parent[r] /\ Parent[r] \in Above[p] /\ Parent[r] \in Paths
    <2> HAVE Parent[r] # Root
    <2>1. Parent[r] \in Paths /\ Rank[Parent[r]] < Rank[r] /\ Parent[r] \in Above[p]
        BY <1>4, ParentRank, ParentAbove
    <2> QED BY <1>2, <1>4, <2>1, RankNat
<1>7. Real(disk, r) = RealIn(disk, Parent[r], r)
    BY <1>5, <1>6
<1>8. {q \in Paths : Parent[q] = Parent[r] /\ Name[q] = Name[r]} = {r}
    BY <1>4, TreeAssumption
<1>9. CASE Parent[r] \in Above[p]
    <2>1. ~(Parent[r] \in DOMAIN disk /\ disk[Parent[r]].type = "link")
        BY <1>9 DEF Canonical
    <2>2. RealIn(disk, Parent[r], r) = r
        BY <1>8, <2>1 DEF RealIn
    <2> QED BY <1>2, <1>7, <2>2
<1>10. CASE Parent[r] = Root
    <2>1. Root \notin DOMAIN disk
        BY TreeAssumption
    <2>2. RealIn(disk, Parent[r], r) = r
        BY <1>8, <1>10, <2>1 DEF RealIn
    <2> QED BY <1>2, <1>7, <2>2
<1> QED
    BY <1>6, <1>9, <1>10

\* A node is made: its directory gets the time of the change, and what was in
\* the way of a new directory is gone.
LEMMA CheckoutNodeDir ==
    ASSUME NEW disk, NEW n, clock \in Nat, IsWorkspace(disk), Dated(disk, clock + 1),
           IsNode(n), Clear(disk, n)
    PROVE  LET new == CheckoutNode(disk, n)
               q == Real(disk, n.path)
           IN  /\ DOMAIN new = DOMAIN disk \cup {q}
               /\ n.type # "dir" \/ q \notin DOMAIN disk => IsAt(new, q, n.type, clock + 1)
               /\ KeptBut(disk, new, q) /\ DirAged(disk, new, clock + 1)
<1> DEFINE new == CheckoutNode(disk, n)
           q == Real(disk, n.path)
           entry == [type |-> n.type, mode |-> n.mode, time |-> clock + 1,
                     data |-> CASE n.type = "file" -> HeldBy(n.hash)
                                [] n.type = "link" -> n.target
                                [] OTHER -> ""]
<1>1. q \in Paths
    BY RealInPaths DEF IsNode
<1>2. \A r \in DOMAIN disk : IsEntry(disk[r])
    BY DEF IsWorkspace
<1>3. CASE n.type = "dir" /\ q \in DOMAIN disk
    <2>1. new = WithMode(disk, q, n.mode)
        BY <1>3 DEF CheckoutNode, WithMode
    <2>2. disk[q].type = "dir"
        BY <1>3 DEF Clear
    <2> HIDE DEF new, q
    <2>3. SameShape(disk, new) /\ DirAged(disk, new, clock + 1)
        BY <2>1, ModeDir
    <2> QED BY <1>3, <2>2, <2>3 DEF SameShape, Smaller, KeptBut, new, q
<1>4. CASE ~(n.type = "dir" /\ q \in DOMAIN disk)
    <2>1. new = Touched(Put(disk, q, entry), Parent[q], clock + 1)
        BY <1>4 DEF CheckoutNode
    <2>2. IsEntry(entry) /\ entry.time = clock + 1 /\ entry.type = n.type
        BY DEF IsEntry, IsNode
    <2> HIDE DEF entry, q, new
    <2>3. PICK t : t = clock + 1
        OBVIOUS
    <2>4. /\ DOMAIN new = DOMAIN disk \cup {q} /\ IsAt(new, q, entry.type, t)
          /\ KeptBut(disk, new, q) /\ DirAged(disk, new, t)
        <3>1. new = Touched(Put(disk, q, entry), Parent[q], t) /\ entry.time = t
            BY <2>1, <2>2, <2>3
        <3> QED BY <1>1, <1>2, <2>2, <3>1, PutDir
    <2> QED BY <2>2, <2>3, <2>4 DEF IsAt, new, q
<1> QED
    BY <1>3, <1>4

\* The edits of the user.
LEMMA WriteFileDir ==
    ASSUME NEW disk, NEW p, NEW data, NEW t, IsWorkspace(disk), p \in DOMAIN disk, disk[p].type = "file"
    PROVE  LET new == [disk EXCEPT ![p].data = data, ![p].time = t] IN
           SameShape(disk, new) /\ DirAged(disk, new, t)
<1> DEFINE new == [disk EXCEPT ![p].data = data, ![p].time = t]
<1>1. DOMAIN new = DOMAIN disk /\ \A q \in DOMAIN disk : q # p => new[q] = disk[q]
    OBVIOUS
<1>2. new[p] = [disk[p] EXCEPT !.data = data, !.time = t] /\ IsEntry(disk[p])
    BY DEF IsWorkspace
<1> HIDE DEF new
<1>3. new[p].type = disk[p].type
    BY <1>2 DEF IsEntry
<1>4. SameShape(disk, new)
    BY <1>1, <1>3 DEF SameShape, Smaller
<1>5. DirAged(disk, new, t)
    BY <1>1, <1>3 DEF DirAged, SameIn
<1> QED
    BY <1>4, <1>5 DEF new

-----------------------------------------------------------------------------
(* What an index knows about the directories of a workspace. *)

\* What a scan finds in d.
EntriesOf(disk, ig, d) == {q \in Listed(disk, ig) : Parent[q] = d}
ScanKids(entries, d) == {q \in DOMAIN entries : Parent[q] = d}

\* A directory has the time the node recorded.
Current(disk, n) ==
    n.path \in DOMAIN disk /\ disk[n.path].type = n.type /\ disk[n.path].time = n.time

\* So have d and all directories below it.
Steady(disk, list, d) ==
    \A y \in Dirs(list) :
        list[y].path = d \/ d \in Above[list[y].path] => Current(disk, list[y])

\* A directory that has the time recorded has the entries of the index, and
\* these are the lines of its tree.  If those below have theirs too, the tree
\* is that of the nodes.
IndexInv(disk, ig, list) ==
    /\ Shaped(list, ig)
    /\ \A x \in Dirs(list) :
          LET n == list[x] IN
          /\ Current(disk, n) =>
                /\ EntriesOf(disk, ig, n.path) = Kids(list, n.path)
                /\ Held(n.hash, n.path) = Kids(list, n.path)
          /\ Steady(disk, list, n.path) => n.hash = TreeOf(list, n.path)

\* The tree that is checked out: a directory that has the time recorded has
\* no other entries, and all but those that come later.
TreeInv(disk, ig, list, from) ==
    /\ Shaped(list, ig)
    /\ \A x \in Dirs(list) :
          LET n == list[x] IN
          /\ n.hash = TreeOf(list, n.path)
          /\ Current(disk, n) =>
                /\ EntriesOf(disk, ig, n.path) \subseteq Kids(list, n.path)
                /\ \A y \in Within(list, n.path) : list[y].path \in DOMAIN disk \/ y >= from

\* The scan closes: every path is in a directory of it.
ScanShape(ig, entries) ==
    \A p \in DOMAIN entries :
        /\ p \in Seen(ig)
        /\ Parent[p] = Root \/ (Parent[p] \in DOMAIN entries /\ entries[Parent[p]].type = "dir")

\* A directory that was read, and has its time still, has the entries found.
ScanTrue(disk, ig, entries, unread) ==
    \A d \in DOMAIN entries :
        /\ entries[d].type = "dir" /\ d \notin unread
        /\ d \in DOMAIN disk /\ disk[d].type = "dir" /\ disk[d].time = entries[d].time
        => EntriesOf(disk, ig, d) = ScanKids(entries, d)

\* Nobody has edited.
ScanExact(disk, ig, entries, unread) ==
    /\ \A p \in DOMAIN entries : p \in DOMAIN disk /\ entries[p] = disk[p]
    /\ Root \notin unread => EntriesOf(disk, ig, Root) = ScanKids(entries, Root)

\* Nobody has created or deleted entries.
ScanTyped(disk, ig, entries, unread) ==
    /\ \A p \in DOMAIN entries : p \in DOMAIN disk /\ entries[p].type = disk[p].type
    /\ \A d \in DOMAIN entries \cup {Root} :
          (d = Root \/ entries[d].type = "dir") /\ d \notin unread
              => EntriesOf(disk, ig, d) = ScanKids(entries, d)

\* The directories still to be read: nothing of them was found yet.
ScanTodo(entries, unread) ==
    /\ \A p \in unread : p = Root \/ (p \in DOMAIN entries /\ entries[p].type = "dir")
    /\ \A p \in DOMAIN entries : Parent[p] \notin unread

\* The walk: what of the tree is on the disk already, and what of the scan and
\* of the disk is still to be looked at.
WalkInv(disk, ig, list, entries, found, a, b) ==
    /\ \A x \in 1..Len(list), y \in 1..Len(found) :
          /\ x < b /\ y >= a => Rank[list[x].path] < Rank[found[y]]
          /\ x >= b /\ y < a => list[x].path # found[y]
    /\ b <= Len(list) =>
          /\ \A x \in 1..Len(list) :
                x < b => list[x].path \in DOMAIN disk /\ disk[list[x].path].type = list[x].type
          /\ \A y \in 1..Len(found) :
                y >= a =>
                    \/ found[y] \in DOMAIN disk /\ disk[found[y]].type = entries[found[y]].type
                    \/ \E d \in Above[found[y]] : \A x \in Dirs(list) : list[x].path # d
          /\ \A p \in Listed(disk, ig) :
                p \in DOMAIN entries \/ \E x \in 1..Len(list) : x < b /\ list[x].path = p

-----------------------------------------------------------------------------

LEMMA EntriesSame ==
    ASSUME NEW disk, NEW new, NEW ig, NEW d, DOMAIN disk \subseteq Paths, DOMAIN new \subseteq Paths,
           SameIn(disk, new, d)
    PROVE  EntriesOf(new, ig, d) = EntriesOf(disk, ig, d)
BY DEF SameIn, EntriesOf, Listed

LEMMA SameShapeEntries ==
    ASSUME NEW disk, NEW new, NEW ig, NEW d, SameShape(disk, new)
    PROVE  EntriesOf(new, ig, d) = EntriesOf(disk, ig, d)
BY DEF SameShape, EntriesOf, Listed

\* A record that is not of the time of the change is still right.
LEMMA CurrentAged ==
    ASSUME NEW disk, NEW new, NEW t, DirAged(disk, new, t), NEW n, n.type = "dir", n.time # t,
           Current(new, n)
    PROVE  Current(disk, n) /\ SameIn(disk, new, n.path)
BY DEF DirAged, Current

LEMMA IndexInvAged ==
    ASSUME NEW disk, NEW new, NEW t, DirAged(disk, new, t), NEW ig,
           DOMAIN disk \subseteq Paths, DOMAIN new \subseteq Paths,
           NEW list, \A x \in Dirs(list) : list[x].time # t,
           IndexInv(disk, ig, list)
    PROVE  IndexInv(new, ig, list)
<1>1. \A x \in Dirs(list) : Current(new, list[x]) => Current(disk, list[x]) /\ SameIn(disk, new, list[x].path)
    BY CurrentAged DEF Dirs
<1>2. ASSUME NEW x \in Dirs(list), Current(new, list[x])
      PROVE  /\ EntriesOf(new, ig, list[x].path) = Kids(list, list[x].path)
             /\ Held(list[x].hash, list[x].path) = Kids(list, list[x].path)
    BY <1>1, <1>2, EntriesSame DEF IndexInv
<1>3. ASSUME NEW x \in Dirs(list), Steady(new, list, list[x].path)
      PROVE  list[x].hash = TreeOf(list, list[x].path)
    <2>1. Steady(disk, list, list[x].path)
        BY <1>1, <1>3 DEF Steady
    <2> QED BY <2>1 DEF IndexInv
<1> QED
    BY <1>2, <1>3 DEF IndexInv

LEMMA TreeInvAged ==
    ASSUME NEW disk, NEW new, NEW t, DirAged(disk, new, t), NEW ig,
           DOMAIN disk \subseteq Paths, DOMAIN new \subseteq Paths,
           NEW list, IsList(list), \A x \in Dirs(list) : list[x].time # t,
           NEW from, TreeInv(disk, ig, list, from)
    PROVE  TreeInv(new, ig, list, from)
<1>1. \A x \in Dirs(list) : Current(new, list[x]) => Current(disk, list[x]) /\ SameIn(disk, new, list[x].path)
    BY CurrentAged DEF Dirs
<1>2. ASSUME NEW x \in Dirs(list), Current(new, list[x])
      PROVE  /\ EntriesOf(new, ig, list[x].path) \subseteq Kids(list, list[x].path)
             /\ \A y \in Within(list, list[x].path) : list[y].path \in DOMAIN new \/ y >= from
    <2>1. /\ EntriesOf(disk, ig, list[x].path) \subseteq Kids(list, list[x].path)
          /\ \A y \in Within(list, list[x].path) : list[y].path \in DOMAIN disk \/ y >= from
        BY <1>1, <1>2 DEF TreeInv
    <2>2. SameIn(disk, new, list[x].path)
        BY <1>1, <1>2
    <2>3. \A y \in Within(list, list[x].path) : list[y].path \in Paths /\ Parent[list[y].path] = list[x].path
        BY DEF Within, IsList
    <2> QED BY <2>1, <2>2, <2>3, EntriesSame DEF SameIn
<1> QED
    BY <1>2 DEF TreeInv

LEMMA ScanTrueAged ==
    ASSUME NEW disk, NEW new, NEW t, DirAged(disk, new, t), NEW ig,
           DOMAIN disk \subseteq Paths, DOMAIN new \subseteq Paths,
           NEW entries, \A p \in DOMAIN entries : entries[p].time # t,
           NEW unread, ScanTrue(disk, ig, entries, unread)
    PROVE  ScanTrue(new, ig, entries, unread)
<1> SUFFICES ASSUME NEW d \in DOMAIN entries,
                    entries[d].type = "dir", d \notin unread, d \in DOMAIN new,
                    new[d].type = "dir", new[d].time = entries[d].time
             PROVE  EntriesOf(new, ig, d) = ScanKids(entries, d)
    BY DEF ScanTrue
<1>1. d \in DOMAIN disk /\ disk[d].type = "dir" /\ disk[d].time = new[d].time /\ SameIn(disk, new, d)
    BY DEF DirAged
<1> QED
    BY <1>1, EntriesSame DEF ScanTrue

LEMMA ScanTypedShape ==
    ASSUME NEW disk, NEW new, SameShape(disk, new), NEW ig, NEW entries, NEW unread,
           ScanTyped(disk, ig, entries, unread)
    PROVE  ScanTyped(new, ig, entries, unread)
<1>1. \A p \in DOMAIN entries : p \in DOMAIN new /\ entries[p].type = new[p].type
    BY DEF ScanTyped, SameShape, Smaller
<1>2. \A d : EntriesOf(new, ig, d) = EntriesOf(disk, ig, d)
    BY SameShapeEntries
<1> QED
    BY <1>1, <1>2 DEF ScanTyped

LEMMA WalkShape ==
    ASSUME NEW disk, NEW new, SameShape(disk, new), NEW ig, NEW list, NEW entries, NEW found,
           NEW a, NEW b, WalkInv(disk, ig, list, entries, found, a, b)
    PROVE  WalkInv(new, ig, list, entries, found, a, b)
<1>1. DOMAIN new = DOMAIN disk /\ \A p \in DOMAIN disk : new[p].type = disk[p].type
    BY DEF SameShape, Smaller
<1>2. Listed(new, ig) = Listed(disk, ig)
    BY <1>1 DEF Listed
<1> QED
    BY <1>1, <1>2 DEF WalkInv

-----------------------------------------------------------------------------
(* What a scan finds of a workspace. *)

\* A scan that found the entries of every directory found all there is.
LEMMA ScanWhole ==
    ASSUME NEW disk, IsWorkspace(disk), NEW ig, NEW entries, ScanTyped(disk, ig, entries, {})
    PROVE  Listed(disk, ig) \subseteq DOMAIN entries
<1> DEFINE Bad == Listed(disk, ig) \ DOMAIN entries
<1>1. SUFFICES ASSUME Bad # {} PROVE FALSE
    OBVIOUS
<1>2. DOMAIN disk \subseteq Paths
    BY DEF IsWorkspace
<1>3. PICK p \in Bad : \A q \in Bad : Rank[p] <= Rank[q]
    <2>1. Bad \subseteq Paths
        BY <1>2 DEF Listed
    <2> HIDE DEF Bad
    <2> QED BY <1>1, <2>1, Lowest
<1>4. p \in DOMAIN disk /\ p \in Paths /\ p \in Seen(ig) /\ p \in Listed(disk, ig) /\ p \notin DOMAIN entries
    BY <1>2 DEF Listed, Seen
<1>5. p \in EntriesOf(disk, ig, Parent[p])
    BY <1>4 DEF EntriesOf
<1>6. CASE Parent[p] = Root
    <2>1. EntriesOf(disk, ig, Root) = ScanKids(entries, Root)
        BY DEF ScanTyped
    <2> QED BY <1>4, <1>5, <1>6, <2>1 DEF ScanKids
<1>7. CASE Parent[p] # Root
    <2>1. Parent[p] \in DOMAIN disk /\ disk[Parent[p]].type = "dir" /\ Parent[p] \in Seen(ig)
        BY <1>4, <1>7, SeenParent DEF IsWorkspace
    <2>2. Parent[p] \in Listed(disk, ig) /\ Parent[p] \in Paths /\ Rank[Parent[p]] < Rank[p]
        BY <1>4, <1>7, <2>1, ParentRank DEF Listed, Seen
    <2>3. Parent[p] \in DOMAIN entries
        BY <1>3, <1>4, <2>2, RankNat
    <2>4. entries[Parent[p]].type = "dir"
        BY <2>1, <2>3 DEF ScanTyped
    <2>5. EntriesOf(disk, ig, Parent[p]) = ScanKids(entries, Parent[p])
        BY <2>3, <2>4 DEF ScanTyped
    <2> QED BY <1>4, <1>5, <2>5 DEF ScanKids
<1> QED
    BY <1>6, <1>7

\* A scan that nobody disturbed.
LEMMA ScanOfExact ==
    ASSUME NEW disk, NEW ig, NEW entries, NEW unread,
           ScanExact(disk, ig, entries, unread), ScanTrue(disk, ig, entries, unread)
    PROVE  ScanTyped(disk, ig, entries, unread)
BY DEF ScanExact, ScanTrue, ScanTyped

\* A directory is read.
Found(disk, ig, d) == {p \in DOMAIN disk \ ig : Parent[p] = d}
Extended(disk, entries, found) ==
    [p \in DOMAIN entries \cup found |-> IF p \in found THEN disk[p] ELSE entries[p]]
Left(disk, todos, d, found) == (todos \ {d}) \cup {p \in found : disk[p].type = "dir"}

LEMMA ReadIs ==
    ASSUME NEW disk, NEW ig, DOMAIN disk \subseteq Paths,
           NEW entries, DOMAIN entries \subseteq Paths, NEW todos,
           ScanShape(ig, entries), ScanTodo(entries, todos),
           NEW d \in todos
    PROVE  LET found == Found(disk, ig, d)
               new == Extended(disk, entries, found)
               left == Left(disk, todos, d, found)
           IN  /\ ScanShape(ig, new) /\ ScanTodo(new, left)
               /\ ScanTrue(disk, ig, entries, todos) => ScanTrue(disk, ig, new, left)
               /\ ScanExact(disk, ig, entries, todos) => ScanExact(disk, ig, new, left)
               /\ ScanTyped(disk, ig, entries, todos) => ScanTyped(disk, ig, new, left)
<1> DEFINE found == Found(disk, ig, d)
           new == Extended(disk, entries, found)
           left == Left(disk, todos, d, found)
<1>1. d = Root \/ (d \in DOMAIN entries /\ entries[d].type = "dir" /\ d \in Paths /\ d \in Seen(ig))
    BY DEF ScanTodo, ScanShape
<1>2. \A p \in found : p \in DOMAIN disk /\ p \in Paths /\ p \notin ig /\ Parent[p] = d /\ p # d
    BY ParentRank, RankNat, TreeAssumption DEF Found
<1>3. \A p \in found : p \in Seen(ig)
    <2> TAKE p \in found
    <2>1. Parent[p] = Root \/ Parent[p] \in Seen(ig)
        BY <1>1, <1>2
    <2> QED BY <1>2, <2>1, SeenParent
<1>4. found = EntriesOf(disk, ig, d)
    BY <1>2, <1>3 DEF EntriesOf, Listed, Found, Seen
<1>5. /\ DOMAIN new = DOMAIN entries \cup found
      /\ \A p \in found : new[p] = disk[p]
      /\ \A p \in DOMAIN entries \ found : new[p] = entries[p]
    BY DEF Extended
<1>6. \A p \in found : p \notin DOMAIN entries
    BY <1>2 DEF ScanTodo
<1>7. left = (todos \ {d}) \cup {p \in found : disk[p].type = "dir"}
    BY DEF Left
<1> HIDE DEF found, new, left
<1>8. d \notin left
    BY <1>2, <1>7
<1>9. ScanKids(new, d) = found
    <2>1. \A p \in DOMAIN entries : Parent[p] # d
        BY DEF ScanTodo
    <2> QED BY <1>2, <1>5, <2>1 DEF ScanKids
<1>10. \A e : e # d => ScanKids(new, e) = ScanKids(entries, e)
    BY <1>2, <1>5 DEF ScanKids
<1>11. \A e \in DOMAIN new : e \notin left /\ new[e].type = "dir" =>
           e \in DOMAIN entries /\ new[e] = entries[e] /\ (e = d \/ e \notin todos)
    BY <1>5, <1>7
<1>12. ScanShape(ig, new)
    <2> SUFFICES ASSUME NEW p \in DOMAIN new
                 PROVE  /\ p \in Seen(ig)
                        /\ Parent[p] = Root \/ (Parent[p] \in DOMAIN new /\ new[Parent[p]].type = "dir")
        BY DEF ScanShape
    <2>1. CASE p \in found
        <3>1. d = Root \/ (d \in DOMAIN new /\ new[d].type = "dir")
            BY <1>1, <1>2, <1>5
        <3> QED BY <1>2, <1>3, <2>1, <3>1
    <2>2. CASE p \notin found
        <3>1. p \in DOMAIN entries
            BY <1>5, <2>2
        <3>2. Parent[p] # Root => Parent[p] \in DOMAIN entries /\ entries[Parent[p]].type = "dir"
            BY <3>1 DEF ScanShape
        <3> QED BY <1>5, <1>6, <3>1, <3>2 DEF ScanShape
    <2> QED BY <2>1, <2>2
<1>13. ScanTodo(new, left)
    <2>1. ASSUME NEW p \in left PROVE p = Root \/ (p \in DOMAIN new /\ new[p].type = "dir")
        <3>1. CASE p \in found /\ disk[p].type = "dir"
            BY <1>5, <3>1
        <3>2. CASE p \in todos /\ p # d
            BY <1>5, <1>6, <3>2 DEF ScanTodo
        <3> QED BY <1>7, <2>1, <3>1, <3>2
    <2>2. ASSUME NEW p \in DOMAIN new PROVE Parent[p] \notin left
        <3>1. CASE p \in found
            BY <1>2, <1>8, <3>1
        <3>2. CASE p \in DOMAIN entries
            <4>1. Parent[p] \notin todos
                BY <3>2 DEF ScanTodo
            <4>2. Parent[p] \notin found
                <5>1. Parent[p] = Root \/ Parent[p] \in DOMAIN entries
                    BY <3>2 DEF ScanShape
                <5>2. Root \notin found
                    BY <1>2, TreeAssumption
                <5> QED BY <1>6, <5>1, <5>2
            <4> QED BY <1>7, <4>1, <4>2
        <3> QED BY <1>5, <3>1, <3>2
    <2> QED BY <2>1, <2>2 DEF ScanTodo
<1>14. ASSUME ScanTrue(disk, ig, entries, todos) PROVE ScanTrue(disk, ig, new, left)
    <2> SUFFICES ASSUME NEW e \in DOMAIN new,
                        new[e].type = "dir", e \notin left,
                        e \in DOMAIN disk, disk[e].type = "dir", disk[e].time = new[e].time
                 PROVE  EntriesOf(disk, ig, e) = ScanKids(new, e)
        BY DEF ScanTrue
    <2>1. CASE e = d
        BY <1>4, <1>9, <2>1
    <2>2. CASE e # d
        BY <1>10, <1>11, <1>14, <2>2 DEF ScanTrue
    <2> QED BY <2>1, <2>2
<1>15. \A p \in DOMAIN new :
           \/ p \in DOMAIN entries /\ new[p] = entries[p]
           \/ p \in DOMAIN disk /\ new[p] = disk[p]
    BY <1>2, <1>5
<1>16. (Root \notin left /\ Root # d) => Root \notin todos
    BY <1>7
<1>17. ASSUME ScanExact(disk, ig, entries, todos) PROVE ScanExact(disk, ig, new, left)
    <2>1. \A p \in DOMAIN new : p \in DOMAIN disk /\ new[p] = disk[p]
        BY <1>15, <1>17 DEF ScanExact
    <2>2. Root \notin left => EntriesOf(disk, ig, Root) = ScanKids(new, Root)
        BY <1>4, <1>9, <1>10, <1>16, <1>17 DEF ScanExact
    <2> QED BY <2>1, <2>2 DEF ScanExact
<1>18. ASSUME ScanTyped(disk, ig, entries, todos) PROVE ScanTyped(disk, ig, new, left)
    <2>1. \A p \in DOMAIN new : p \in DOMAIN disk /\ new[p].type = disk[p].type
        BY <1>15, <1>18 DEF ScanTyped
    <2>2. ASSUME NEW e \in DOMAIN new \cup {Root}, e = Root \/ new[e].type = "dir", e \notin left
          PROVE  EntriesOf(disk, ig, e) = ScanKids(new, e)
        <3>1. CASE e = d
            BY <1>4, <1>9, <3>1
        <3>2. CASE e # d
            <4>1. e \in DOMAIN entries \cup {Root} /\ (e = Root \/ entries[e].type = "dir") /\ e \notin todos
                BY <1>11, <1>16, <2>2, <3>2
            <4>2. EntriesOf(disk, ig, e) = ScanKids(entries, e)
                BY <1>18, <4>1 DEF ScanTyped
            <4> QED BY <1>10, <3>2, <4>2
        <3> QED BY <3>1, <3>2
    <2> QED BY <2>1, <2>2 DEF ScanTyped
<1> QED
    BY <1>12, <1>13, <1>14, <1>17, <1>18 DEF new, left, found

-----------------------------------------------------------------------------
(* The index that write-tree makes of a scan. *)

\* The nodes are those of the scan.
OfScan(list, entries) ==
    /\ PathsOf(list) = Sorted(DOMAIN entries)
    /\ \A x \in 1..Len(list) :
          list[x] = Node(list[x].path, entries[list[x].path], list[x].hash)

\* What refresh has kept.
Clean(entries, index) == Refreshed(Sorted(DOMAIN entries), entries, index)

FilesKept(list, hash) ==
    \A x \in 1..Len(list) :
        list[x].type = "file" /\ hash[list[x].path] # NoHash => list[x].hash = hash[list[x].path]
DirsKept(list, hash) == \A x \in Dirs(list) : list[x].hash = hash[list[x].path]

\* A directory that is not to be written has kept its digest, or was written,
\* after those in it.
DirsWritten(list, hash, todos) ==
    \A x \in Dirs(list) :
        LET n == list[x] IN
        n.path \notin todos =>
            \/ n.hash = hash[n.path] /\ n.hash # NoHash
            \/ n.hash = TreeOf(list, n.path) /\ Kids(list, n.path) \cap todos = {}

LEMMA OfScanIs ==
    ASSUME NEW entries, DOMAIN entries \subseteq Paths, \A p \in DOMAIN entries : IsEntry(entries[p]),
           NEW list, IsList(list), OfScan(list, entries)
    PROVE  /\ Ordered(list) /\ Typed(list)
           /\ \A x \in 1..Len(list) :
                 LET n == list[x]
                     e == entries[n.path]
                 IN  /\ n.path \in DOMAIN entries
                     /\ n.type = e.type /\ n.mode = e.mode /\ n.target = Target(e) /\ n.time = e.time
           /\ \A p \in DOMAIN entries : \E x \in 1..Len(list) : list[x].path = p
           /\ \A d : Kids(list, d) = ScanKids(entries, d)
           /\ \A ig : ScanShape(ig, entries) => Shaped(list, ig)
<1>1. /\ Sorted(DOMAIN entries) \in Seq(DOMAIN entries)
      /\ Increasing(Sorted(DOMAIN entries))
      /\ \A p \in DOMAIN entries : \E x \in 1..Len(Sorted(DOMAIN entries)) : Sorted(DOMAIN entries)[x] = p
    BY SortedTheorem DEF IsSortedList
<1>2. Len(PathsOf(list)) = Len(list) /\ \A x \in 1..Len(list) : PathsOf(list)[x] = list[x].path
    BY PathsOfList
<1>3. Ordered(list)
    BY <1>1, OrderedIs DEF OfScan
<1>4. \A x \in 1..Len(list) : list[x].path \in DOMAIN entries
    <2> DEFINE found == Sorted(DOMAIN entries)
    <2>1. found \in Seq(DOMAIN entries) /\ Len(found) = Len(list) /\ \A x \in 1..Len(list) : found[x] = list[x].path
        BY <1>1, <1>2 DEF OfScan
    <2> HIDE DEF found
    <2>2. \A x \in 1..Len(found) : found[x] \in DOMAIN entries
        BY <2>1
    <2> QED BY <2>1, <2>2
<1>5. \A p \in DOMAIN entries : \E x \in 1..Len(list) : list[x].path = p
    BY <1>1, <1>2 DEF OfScan
<1>6. ASSUME NEW x \in 1..Len(list)
      PROVE  LET n == list[x]
                 e == entries[n.path]
             IN  n.type = e.type /\ n.mode = e.mode /\ n.target = Target(e) /\ n.time = e.time
    <2> DEFINE n == list[x]
               e == entries[n.path]
    <2>1. n = Node(n.path, e, n.hash)
        BY DEF OfScan
    <2> HIDE DEF n, e
    <2>2. n.type = e.type /\ n.mode = e.mode /\ n.target = Target(e) /\ n.time = e.time
        BY <2>1 DEF Node
    <2> QED BY <2>2 DEF n, e
<1>7. Typed(list)
    BY <1>4, <1>6 DEF Typed, IsEntry
<1>8. \A d : Kids(list, d) = ScanKids(entries, d)
    BY <1>4, <1>5 DEF Kids, Within, ScanKids
<1>9. ASSUME NEW ig, ScanShape(ig, entries) PROVE Shaped(list, ig)
    <2> SUFFICES ASSUME NEW x \in 1..Len(list)
                 PROVE  /\ list[x].path \in Seen(ig)
                        /\ \/ Parent[list[x].path] = Root
                           \/ \E y \in Dirs(list) : list[y].path = Parent[list[x].path]
        BY <1>3 DEF Shaped
    <2> DEFINE p == list[x].path
    <2>1. p \in Seen(ig) /\ (Parent[p] = Root \/ (Parent[p] \in DOMAIN entries /\ entries[Parent[p]].type = "dir"))
        BY <1>4, <1>9 DEF ScanShape
    <2>2. CASE Parent[p] # Root
        <3>1. PICK y \in 1..Len(list) : list[y].path = Parent[p]
            BY <1>5, <2>1, <2>2
        <3>2. list[y].type = "dir"
            BY <1>6, <2>1, <2>2, <3>1
        <3> QED BY <2>1, <3>1, <3>2 DEF Dirs
    <2> QED BY <2>1, <2>2
<1> QED
    BY <1>3, <1>4, <1>5, <1>6, <1>7, <1>8, <1>9

LEMMA CleanIs ==
    ASSUME NEW entries, DOMAIN entries \subseteq Paths, NEW ig, ScanShape(ig, entries),
           NEW index, IsList(index), Ordered(index)
    PROVE  LET hash == Clean(entries, index) IN
           /\ DOMAIN hash = DOMAIN entries
           /\ \A p \in DOMAIN entries : hash[p] # NoHash => Reused(index, entries, p, hash[p])
           /\ \A y \in 1..Len(index) :
                 LET p == index[y].path IN
                 p \in DOMAIN entries /\ hash[p] = NoHash /\ Parent[p] # Root => hash[Parent[p]] = NoHash
<1> DEFINE list == Sorted(DOMAIN entries)
           hash == Clean(entries, index)
<1>1. /\ list \in Seq(DOMAIN entries) /\ Increasing(list)
      /\ \A p \in DOMAIN entries : \E x \in 1..Len(list) : list[x] = p
    BY SortedTheorem DEF IsSortedList
<1>2. list \in Seq(Paths) /\ \A x \in 1..Len(list) : list[x] \in DOMAIN entries
    <2> HIDE DEF list
    <2> QED BY <1>1
<1>3. hash = Refreshed(list, entries, index)
    BY DEF Clean
<1> HIDE DEF list, hash
<1>4. /\ DOMAIN hash = DOMAIN entries
      /\ \A p \in DOMAIN entries : hash[p] # NoHash => Reused(index, entries, p, hash[p])
    BY <1>2, <1>3, RefreshedIs
<1>5. \A x \in 1..Len(list) :
          /\ list[x] \in DOMAIN entries
          /\ Parent[list[x]] # Root => Parent[list[x]] \in DOMAIN entries
    BY <1>2 DEF ScanShape
<1>6. DirtyUp(list, index, hash)
    BY <1>1, <1>2, <1>3, <1>5, RefreshedUp
<1>7. ASSUME NEW y \in 1..Len(index), index[y].path \in DOMAIN entries,
             hash[index[y].path] = NoHash, Parent[index[y].path] # Root
      PROVE  hash[Parent[index[y].path]] = NoHash
    BY <1>1, <1>6, <1>7 DEF DirtyUp
<1> QED
    BY <1>4, <1>7 DEF hash

\* What is known of a directory of the index whose digest was kept.
IsKept(disk, entries, hash, n) ==
    /\ n.path \in DOMAIN entries /\ Equivalent(n, entries[n.path])
    /\ hash[n.path] = n.hash /\ n.hash # NoHash
    /\ Current(disk, n)

LEMMA SteadyBelow ==
    ASSUME NEW disk, NEW list, IsList(list), NEW p \in Paths, NEW c \in Paths, p \in Above[c],
           Steady(disk, list, p)
    PROVE  Steady(disk, list, c)
<1> SUFFICES ASSUME NEW y \in Dirs(list), list[y].path = c \/ c \in Above[list[y].path]
             PROVE  Current(disk, list[y])
    BY DEF Steady
<1>1. list[y].path \in Paths
    BY DEF Dirs, IsList
<1>2. p \in Above[list[y].path]
    BY <1>1, AboveOrder
<1> QED
    BY <1>2 DEF Steady

\* If a digest was kept, so were those of all directories below.
LEMMA KeptBelow ==
    ASSUME NEW disk, NEW ig, DOMAIN disk \subseteq Paths,
           NEW entries, DOMAIN entries \subseteq Paths, \A q \in DOMAIN entries : IsEntry(entries[q]),
           ScanShape(ig, entries), ScanTrue(disk, ig, entries, {}),
           NEW index, IsList(index), IndexInv(disk, ig, index),
           NEW list, IsList(list), OfScan(list, entries),
           NEW hash, hash = Clean(entries, index),
           NEW p \in DOMAIN entries, hash[p] # NoHash, Steady(disk, list, p)
    PROVE  \A y \in Dirs(index) :
              index[y].path = p \/ p \in Above[index[y].path] => IsKept(disk, entries, hash, index[y])
<1> DEFINE Under(z) == z = p \/ p \in Above[z]
           Bad == {z \in Paths : Under(z) /\ \E y \in Dirs(index) :
                                    index[y].path = z /\ ~IsKept(disk, entries, hash, index[y])}
<1>1. \A y \in Dirs(index) : y \in 1..Len(index) /\ index[y].type = "dir" /\ index[y].path \in Paths
    BY DEF Dirs, IsList
<1>2. SUFFICES ASSUME Bad # {} PROVE FALSE
    BY <1>1
<1>3. PICK z \in Bad : \A q \in Bad : Rank[z] <= Rank[q]
    <2>1. Bad \subseteq Paths
        OBVIOUS
    <2> HIDE DEF Bad
    <2> QED BY <1>2, <2>1, Lowest
<1>4. PICK y \in Dirs(index) : index[y].path = z /\ ~IsKept(disk, entries, hash, index[y])
    BY <1>3
<1>5. z \in Paths /\ Under(z)
    BY <1>3
<1>6. /\ Ordered(index) /\ Shaped(index, ig)
      /\ \A a, b \in 1..Len(index) : index[a].path = index[b].path => a = b
    BY OrderedIs DEF IndexInv, Shaped
<1>7. /\ \A q \in DOMAIN entries : hash[q] # NoHash => Reused(index, entries, q, hash[q])
      /\ \A x \in 1..Len(index) :
            LET q == index[x].path IN
            q \in DOMAIN entries /\ hash[q] = NoHash /\ Parent[q] # Root => hash[Parent[q]] = NoHash
    BY <1>6, CleanIs
<1>8. z \in DOMAIN entries /\ hash[z] # NoHash
    <2>1. CASE z = p
        BY <2>1
    <2>2. CASE p \in Above[z]
        <3> DEFINE d == Parent[z]
        <3>1. d # Root /\ Under(d)
            BY <1>5, <2>2, AboveParent
        <3>2. d \in Paths /\ Rank[d] < Rank[z]
            BY <1>5, <3>1, ParentRank
        <3>3. PICK m \in Dirs(index) : index[m].path = d
            BY <1>1, <1>4, <1>6, <3>1 DEF Shaped
        <3> HIDE DEF d
        <3>4. IsKept(disk, entries, hash, index[m])
            <4>1. d \notin Bad
                <5> HIDE DEF Bad
                <5> QED BY <1>3, <1>5, <3>2, RankNat
            <4> QED BY <3>1, <3>2, <3>3, <4>1
        <3>5. /\ d \in DOMAIN entries /\ entries[d].type = "dir" /\ hash[d] # NoHash
              /\ d \in DOMAIN disk /\ disk[d].type = "dir" /\ disk[d].time = entries[d].time
            BY <1>1, <3>3, <3>4 DEF IsKept, Equivalent, Current
        <3>6. EntriesOf(disk, ig, d) = ScanKids(entries, d)
            BY <3>5 DEF ScanTrue
        <3>7. EntriesOf(disk, ig, d) = Kids(index, d)
            BY <3>3, <3>4 DEF IndexInv, IsKept
        <3>8. z \in Kids(index, d)
            BY <1>1, <1>4 DEF Kids, Within, d
        <3>9. z \in DOMAIN entries
            BY <3>6, <3>7, <3>8 DEF ScanKids
        <3> QED BY <1>1, <1>4, <1>7, <3>1, <3>5, <3>9 DEF d
    <2> QED BY <1>5, <2>1, <2>2
<1>9. index[y].hash = hash[z] /\ Equivalent(index[y], entries[z])
    <2>1. PICK k \in 1..Len(index) :
              index[k].path = z /\ index[k].hash = hash[z] /\ Equivalent(index[k], entries[z])
        BY <1>7, <1>8 DEF Reused
    <2>2. k = y
        BY <1>1, <1>4, <1>6, <2>1
    <2> QED BY <2>1, <2>2
<1>10. Current(disk, index[y])
    <2>1. PICK x \in 1..Len(list) : list[x].path = z
        BY <1>8, OfScanIs
    <2>2. list[x].type = entries[z].type /\ list[x].time = entries[z].time
        BY <2>1, OfScanIs
    <2>3. list[x].type = index[y].type /\ list[x].time = index[y].time /\ list[x].type = "dir"
        BY <1>1, <1>9, <2>2 DEF Equivalent
    <2>4. x \in Dirs(list)
        BY <2>3 DEF Dirs
    <2>5. Current(disk, list[x])
        BY <1>5, <2>1, <2>4 DEF Steady
    <2> QED BY <1>4, <2>1, <2>3, <2>5 DEF Current
<1> QED
    BY <1>4, <1>8, <1>9, <1>10 DEF IsKept

\* Two lists with the same lines in d.
LEMMA SameTree ==
    ASSUME NEW a, NEW b, NEW d, Kids(a, d) = Kids(b, d),
           \A x \in Within(a, d), y \in Within(b, d) : a[x].path = b[y].path => Line(a[x]) = Line(b[y])
    PROVE  TreeOf(a, d) = TreeOf(b, d)
<1>1. \A x \in Within(a, d) : \E y \in Within(b, d) : a[x].path = b[y].path
    BY DEF Kids
<1>2. \A y \in Within(b, d) : \E x \in Within(a, d) : a[x].path = b[y].path
    BY DEF Kids
<1>3. {Line(a[x]) : x \in Within(a, d)} = {Line(b[y]) : y \in Within(b, d)}
    BY <1>1, <1>2
<1> QED
    BY <1>3 DEF TreeOf

\* A digest that was kept is that of the directory, when it and those below
\* have the times recorded still.
LEMMA KeptTree ==
    ASSUME NEW disk, NEW ig, DOMAIN disk \subseteq Paths,
           NEW entries, DOMAIN entries \subseteq Paths, \A q \in DOMAIN entries : IsEntry(entries[q]),
           ScanShape(ig, entries), ScanTrue(disk, ig, entries, {}),
           NEW F, NEW index, IsList(index), IndexInv(disk, ig, index), Formed(F, index),
           NEW list, IsList(list), OfScan(list, entries),
           NEW hash, hash = Clean(entries, index),
           FilesKept(list, hash), DirsWritten(list, hash, {})
    PROVE  \A p \in DOMAIN entries :
              entries[p].type = "dir" /\ hash[p] # NoHash /\ Steady(disk, list, p)
                  => hash[p] = TreeOf(list, p)
<1> DEFINE Bad == {p \in DOMAIN entries :
                      /\ entries[p].type = "dir" /\ hash[p] # NoHash /\ Steady(disk, list, p)
                      /\ hash[p] # TreeOf(list, p)}
<1>1. SUFFICES ASSUME Bad # {} PROVE FALSE
    OBVIOUS
<1>2. PICK p \in Bad : \A q \in Bad : Rank[q] <= Rank[p]
    <2>1. Bad \subseteq Paths
        OBVIOUS
    <2> HIDE DEF Bad
    <2> QED BY <1>1, <2>1, Highest
<1>3. /\ p \in DOMAIN entries /\ p \in Paths /\ entries[p].type = "dir" /\ hash[p] # NoHash
      /\ Steady(disk, list, p) /\ hash[p] # TreeOf(list, p)
    BY <1>2
<1>4. /\ Ordered(index) /\ Shaped(index, ig)
      /\ \A a, b \in 1..Len(index) : index[a].path = index[b].path => a = b
    BY OrderedIs DEF IndexInv, Shaped
<1>5. /\ \A q \in DOMAIN entries : hash[q] # NoHash => Reused(index, entries, q, hash[q])
      /\ \A x \in 1..Len(index) :
            LET q == index[x].path IN
            q \in DOMAIN entries /\ hash[q] = NoHash /\ Parent[q] # Root => hash[Parent[q]] = NoHash
    BY <1>4, CleanIs
<1>6. \A y \in Dirs(index) :
          index[y].path = p \/ p \in Above[index[y].path] => IsKept(disk, entries, hash, index[y])
    BY <1>3, KeptBelow
<1>7. PICK m \in 1..Len(index) :
          index[m].path = p /\ index[m].hash = hash[p] /\ Equivalent(index[m], entries[p])
    BY <1>3, <1>5 DEF Reused
<1>8. m \in Dirs(index)
    BY <1>3, <1>7 DEF Dirs, Equivalent
<1>9. hash[p] = TreeOf(index, p)
    <2>1. Steady(disk, index, p)
        BY <1>6 DEF Steady, IsKept
    <2> QED BY <1>7, <1>8, <2>1 DEF IndexInv
<1>10. Kids(index, p) = Kids(list, p)
    <2>1. IsKept(disk, entries, hash, index[m])
        BY <1>6, <1>7, <1>8
    <2>2. EntriesOf(disk, ig, p) = Kids(index, p)
        BY <1>7, <1>8, <2>1 DEF IsKept, IndexInv
    <2>3. EntriesOf(disk, ig, p) = ScanKids(entries, p)
        BY <1>3, <1>7, <1>8, <2>1 DEF IsKept, ScanTrue, Current, Equivalent, Dirs
    <2>4. Kids(list, p) = ScanKids(entries, p)
        BY OfScanIs
    <2> QED BY <2>2, <2>3, <2>4
<1>11. ASSUME NEW x \in Within(list, p), NEW y \in Within(index, p), list[x].path = index[y].path
       PROVE  Line(list[x]) = Line(index[y])
    <2> DEFINE c == list[x].path
    <2>1. x \in 1..Len(list) /\ y \in 1..Len(index) /\ Parent[c] = p /\ index[y].path = c
        BY <1>11 DEF Within
    <2>2. /\ c \in DOMAIN entries /\ c \in Paths
          /\ list[x].type = entries[c].type /\ list[x].mode = entries[c].mode
          /\ list[x].target = Target(entries[c])
        BY <2>1, OfScanIs
    <2>3. Parent[c] # Root
        BY <1>3, <2>1, TreeAssumption
    <2> HIDE DEF c
    <2>4. hash[c] # NoHash
        BY <1>3, <1>5, <2>1, <2>2, <2>3
    <2>5. PICK k \in 1..Len(index) :
              index[k].path = c /\ index[k].hash = hash[c] /\ Equivalent(index[k], entries[c])
        BY <1>5, <2>2, <2>4 DEF Reused
    <2>6. k = y
        BY <1>4, <2>1, <2>5
    <2>7. list[x].type = index[y].type /\ list[x].mode = index[y].mode /\ list[x].target = index[y].target
        BY <2>2, <2>5, <2>6 DEF Equivalent
    <2>8. list[x].hash = hash[c]
        <3>1. CASE list[x].type = "file"
            BY <2>1, <2>4, <3>1 DEF FilesKept, c
        <3>2. CASE list[x].type = "link"
            BY <2>1, <2>4, <2>5, <2>6, <2>7, <3>2 DEF Formed
        <3>3. CASE list[x].type = "dir"
            <4>1. x \in Dirs(list)
                BY <2>1, <3>3 DEF Dirs
            <4>2. \/ list[x].hash = hash[c]
                  \/ list[x].hash = TreeOf(list, c)
                BY <4>1 DEF DirsWritten, c
            <4>3. p \in Above[c] /\ Rank[p] < Rank[c]
                BY <2>1, <2>2, <2>3, ParentAbove, ParentRank
            <4>4. Steady(disk, list, c)
                BY <1>3, <2>2, <4>3, SteadyBelow
            <4>5. c \notin Bad
                <5> HIDE DEF Bad
                <5> QED BY <1>2, <1>3, <2>2, <4>3, RankNat
            <4>6. hash[c] = TreeOf(list, c)
                BY <2>2, <2>4, <3>3, <4>4, <4>5
            <4> QED BY <4>2, <4>6
        <3> QED BY <2>1, <3>1, <3>2, <3>3, OfScanIs DEF Typed
    <2> QED BY <2>1, <2>5, <2>6, <2>7, <2>8 DEF Line, c
<1>12. TreeOf(list, p) = TreeOf(index, p)
    BY <1>10, <1>11, SameTree
<1> QED
    BY <1>3, <1>9, <1>12

\* What write-tree saves records the directories that have not changed since
\* they were read.
LEMMA WrittenIndex ==
    ASSUME NEW disk, NEW ig, DOMAIN disk \subseteq Paths,
           NEW entries, DOMAIN entries \subseteq Paths, \A q \in DOMAIN entries : IsEntry(entries[q]),
           ScanShape(ig, entries), ScanTrue(disk, ig, entries, {}),
           NEW F, NEW index, IsList(index), IndexInv(disk, ig, index), Formed(F, index),
           NEW list, IsList(list), OfScan(list, entries),
           NEW hash, hash = Clean(entries, index),
           FilesKept(list, hash), DirsWritten(list, hash, {})
    PROVE  /\ IndexInv(disk, ig, list)
           /\ \A x \in Dirs(list) : list[x].hash # NoHash
<1>1. Ordered(list) /\ Typed(list) /\ Shaped(list, ig)
    BY OfScanIs
<1>2. \A d : /\ TreeOf(list, d) # NoHash
             /\ Held(TreeOf(list, d), d) = Kids(list, d)
    BY <1>1, TreeLines DEF Typed
<1>3. Ordered(index) /\ \A a, b \in 1..Len(index) : index[a].path = index[b].path => a = b
    BY OrderedIs DEF IndexInv, Shaped
<1>4. \A q \in DOMAIN entries : hash[q] # NoHash => Reused(index, entries, q, hash[q])
    BY <1>3, CleanIs
<1>5. ASSUME NEW x \in Dirs(list)
      PROVE  /\ list[x].path \in DOMAIN entries /\ entries[list[x].path].type = "dir"
             /\ entries[list[x].path].time = list[x].time
             /\ \/ list[x].hash = hash[list[x].path] /\ list[x].hash # NoHash
                \/ list[x].hash = TreeOf(list, list[x].path)
    <2>1. x \in 1..Len(list) /\ list[x].type = "dir"
        BY DEF Dirs
    <2>2. \/ list[x].hash = hash[list[x].path] /\ list[x].hash # NoHash
          \/ list[x].hash = TreeOf(list, list[x].path)
        BY DEF DirsWritten
    <2> QED BY <2>1, <2>2, OfScanIs
<1>6. ASSUME NEW x \in Dirs(list), Current(disk, list[x])
      PROVE  /\ EntriesOf(disk, ig, list[x].path) = Kids(list, list[x].path)
             /\ Held(list[x].hash, list[x].path) = Kids(list, list[x].path)
    <2> DEFINE p == list[x].path
               h == list[x].hash
    <2>1. list[x].type = "dir"
        BY DEF Dirs
    <2>2. EntriesOf(disk, ig, p) = ScanKids(entries, p)
        BY <1>5, <1>6, <2>1 DEF ScanTrue, Current
    <2>3. EntriesOf(disk, ig, p) = Kids(list, p)
        BY <2>2, OfScanIs
    <2>4. CASE h = TreeOf(list, p)
        BY <1>2, <2>3, <2>4
    <2>5. CASE h = hash[p] /\ h # NoHash
        <3>1. PICK k \in 1..Len(index) :
                  index[k].path = p /\ index[k].hash = h /\ Equivalent(index[k], entries[p])
            BY <1>4, <1>5, <2>5 DEF Reused
        <3>2. k \in Dirs(index) /\ Current(disk, index[k])
            BY <1>5, <1>6, <2>1, <3>1 DEF Dirs, Equivalent, Current
        <3>3. EntriesOf(disk, ig, p) = Kids(index, p) /\ Held(h, p) = Kids(index, p)
            BY <3>1, <3>2 DEF IndexInv
        <3> QED BY <2>3, <3>3
    <2> QED BY <1>5, <2>4, <2>5
<1>7. ASSUME NEW x \in Dirs(list), Steady(disk, list, list[x].path)
      PROVE  list[x].hash = TreeOf(list, list[x].path)
    BY <1>5, <1>7, KeptTree
<1>8. \A x \in Dirs(list) : list[x].hash # NoHash
    BY <1>2, <1>5
<1> QED
    BY <1>1, <1>6, <1>7, <1>8 DEF IndexInv

\* A node has the line of the entry, if it has the digest of it.
IsLineOf(n, e) ==
    /\ n.type = e.type /\ n.mode = e.mode /\ n.target = Target(e)
    /\ n.type = "file" => n.hash = FileHash(e.data)
    /\ n.type = "link" => n.hash = NoHash

\* The lines of a directory of the workspace.
LEMMA SameLinesAsDisk ==
    ASSUME NEW disk, NEW ig, NEW list, NEW hash, NEW d, Kids(list, d) = EntriesOf(disk, ig, d),
           \A x \in Within(list, d) :
              IsLineOf(list[x], disk[list[x].path]) /\ list[x].hash = hash[list[x].path]
    PROVE  TreeOf(list, d) = DirHash(disk, ig, hash, d)
<1> DEFINE line(q) == Line(Node(q, disk[q], hash[q]))
           here == {q \in Listed(disk, ig) : Parent[q] = d}
<1>1. \A x \in Within(list, d) : Line(list[x]) = line(list[x].path)
    <2> TAKE x \in Within(list, d)
    <2>1. IsLineOf(list[x], disk[list[x].path]) /\ list[x].hash = hash[list[x].path]
        OBVIOUS
    <2> QED BY <2>1 DEF IsLineOf, Line, Node
<1>2. here = Kids(list, d)
    BY DEF EntriesOf
<1> HIDE DEF here, line
<1>3. {Line(list[x]) : x \in Within(list, d)} = {line(q) : q \in here}
    BY <1>1, <1>2 DEF Kids
<1>4. TreeOf(list, d) = TreeHash({line(q) : q \in here})
    BY <1>3 DEF TreeOf
<1> QED
    BY <1>4 DEF DirHash, here, line

\* A list that has the lines of the workspace, and for each directory the
\* digest of its nodes, has the digest of the workspace.
LEMMA SnapshotOfNodes ==
    ASSUME NEW disk, NEW ig, DOMAIN disk \subseteq Paths, NEW list, IsList(list), Typed(list),
           \A d : Kids(list, d) = EntriesOf(disk, ig, d),
           \A x \in 1..Len(list) : IsLineOf(list[x], disk[list[x].path]),
           \A x \in Dirs(list) : list[x].hash = TreeOf(list, list[x].path)
    PROVE  TreeOf(list, Root) = Snapshot(disk, ig)
<1> DEFINE hash == Hashes(disk, ig)
<1>1. hash = [p \in Paths \cup {Root} |-> HashOf(disk, ig, hash, p)]
    BY HashesIs
<1>2. \A p \in Paths \cup {Root} : hash[p] = HashOf(disk, ig, hash, p)
    BY <1>1
<1> HIDE DEF hash
<1>3. \A d : (\A x \in Within(list, d) : list[x].hash = hash[list[x].path]) => TreeOf(list, d) = DirHash(disk, ig, hash, d)
    <2> TAKE d
    <2> HAVE \A x \in Within(list, d) : list[x].hash = hash[list[x].path]
    <2>1. \A x \in Within(list, d) : x \in 1..Len(list)
        BY DEF Within
    <2>2. \A x \in Within(list, d) :
             IsLineOf(list[x], disk[list[x].path]) /\ list[x].hash = hash[list[x].path]
        BY <2>1
    <2> QED BY <2>2, SameLinesAsDisk
<1>4. \A x \in 1..Len(list) : list[x].hash = hash[list[x].path]
    <2> DEFINE Bad == {p \in Paths : \E x \in 1..Len(list) : list[x].path = p /\ list[x].hash # hash[p]}
    <2>1. SUFFICES ASSUME Bad # {} PROVE FALSE
        BY DEF IsList
    <2>2. PICK p \in Bad : \A q \in Bad : Rank[q] <= Rank[p]
        <3>1. Bad \subseteq Paths
            OBVIOUS
        <3> HIDE DEF Bad
        <3> QED BY <2>1, <3>1, Highest
    <2>3. PICK x \in 1..Len(list) : list[x].path = p /\ list[x].hash # hash[p]
        BY <2>2
    <2>4. /\ p \in Paths /\ p # Root /\ hash[p] = HashOf(disk, ig, hash, p)
          /\ IsLineOf(list[x], disk[p])
        BY <1>2, <2>2, <2>3, TreeAssumption
    <2>5. CASE list[x].type \in {"file", "link"}
        BY <2>3, <2>4, <2>5 DEF HashOf, IsLineOf
    <2>6. CASE list[x].type = "dir"
        <3>1. hash[p] = DirHash(disk, ig, hash, p)
            BY <2>4, <2>6 DEF HashOf, IsLineOf
        <3>2. ASSUME NEW y \in Within(list, p) PROVE list[y].hash = hash[list[y].path]
            <4>1. y \in 1..Len(list) /\ Parent[list[y].path] = p /\ list[y].path \in Paths
                BY DEF Within, IsList
            <4>2. Rank[p] < Rank[list[y].path]
                BY <2>4, <4>1, ParentRank
            <4>3. list[y].path \notin Bad
                <5> HIDE DEF Bad
                <5> QED BY <2>2, <2>4, <4>1, <4>2, RankNat
            <4> QED BY <4>1, <4>3
        <3>3. list[x].hash = TreeOf(list, p)
            BY <2>3, <2>6 DEF Dirs
        <3> QED BY <1>3, <2>3, <3>1, <3>2, <3>3
    <2> QED BY <2>5, <2>6 DEF Typed
<1>5. hash[Root] = DirHash(disk, ig, hash, Root)
    BY <1>2 DEF HashOf
<1>6. TreeOf(list, Root) = DirHash(disk, ig, hash, Root)
    BY <1>3, <1>4 DEF Within
<1> QED
    BY <1>5, <1>6 DEF Snapshot, hash

\* When nobody edits, each directory has the digest of its nodes, since none
\* has changed after the scan.
LEMMA WrittenTrees ==
    ASSUME NEW disk, NEW ig, IsWorkspace(disk),
           NEW entries, DOMAIN entries \subseteq Paths, \A q \in DOMAIN entries : IsEntry(entries[q]),
           ScanShape(ig, entries), ScanTrue(disk, ig, entries, {}), ScanExact(disk, ig, entries, {}),
           NEW list, IsList(list), OfScan(list, entries), IndexInv(disk, ig, list)
    PROVE  /\ DOMAIN entries = Listed(disk, ig)
           /\ \A q \in DOMAIN entries : q \in DOMAIN disk /\ entries[q] = disk[q]
           /\ \A x \in 1..Len(list) : Current(disk, list[x])
           /\ \A x \in Dirs(list) : list[x].hash = TreeOf(list, list[x].path)
<1>1. DOMAIN entries = Listed(disk, ig) /\ \A q \in DOMAIN entries : q \in DOMAIN disk /\ entries[q] = disk[q]
    <2>1. Listed(disk, ig) \subseteq DOMAIN entries
        BY ScanOfExact, ScanWhole
    <2>2. \A q \in DOMAIN entries : q \in DOMAIN disk /\ q \in Seen(ig) /\ entries[q] = disk[q]
        BY DEF ScanExact, ScanShape
    <2> QED BY <2>1, <2>2 DEF Listed, Seen
<1>2. \A x \in 1..Len(list) :
         /\ list[x].path \in DOMAIN entries
         /\ list[x].type = entries[list[x].path].type /\ list[x].time = entries[list[x].path].time
    BY OfScanIs
<1>3. \A x \in 1..Len(list) : Current(disk, list[x])
    BY <1>1, <1>2 DEF Current
<1>4. \A x \in Dirs(list) : list[x].hash = TreeOf(list, list[x].path)
    BY <1>3 DEF IndexInv, Steady, Dirs
<1> QED
    BY <1>1, <1>3, <1>4

\* When nobody edits, the tree is that of the workspace.
LEMMA WrittenSnapshot ==
    ASSUME NEW disk, NEW ig, IsWorkspace(disk),
           NEW entries, DOMAIN entries \subseteq Paths, \A q \in DOMAIN entries : IsEntry(entries[q]),
           ScanShape(ig, entries), ScanTrue(disk, ig, entries, {}), ScanExact(disk, ig, entries, {}),
           NEW list, IsList(list), OfScan(list, entries),
           IndexInv(disk, ig, list), Right(disk, list, mixed),
           \A x \in 1..Len(list) : list[x].type = "file" => list[x].hash # NoHash /\ list[x].hash \notin mixed,
           \A x \in 1..Len(list) : list[x].type = "link" => list[x].hash = NoHash
    PROVE  TreeOf(list, Root) = Snapshot(disk, ig)
<1>1. DOMAIN entries = Listed(disk, ig) /\ \A q \in DOMAIN entries : q \in DOMAIN disk /\ entries[q] = disk[q]
    BY WrittenTrees
<1>2. /\ \A x \in 1..Len(list) :
            LET n == list[x]
                e == entries[n.path]
            IN  /\ n.path \in DOMAIN entries
                /\ n.type = e.type /\ n.mode = e.mode /\ n.target = Target(e) /\ n.time = e.time
      /\ \A d : Kids(list, d) = ScanKids(entries, d)
      /\ Typed(list)
    BY OfScanIs
<1>3. \A d : Kids(list, d) = EntriesOf(disk, ig, d)
    BY <1>1, <1>2 DEF EntriesOf, ScanKids
<1>4. \A x \in Dirs(list) : list[x].hash = TreeOf(list, list[x].path)
    <2>1. \A x \in 1..Len(list) : Current(disk, list[x])
        BY <1>1, <1>2 DEF Current
    <2> QED BY <2>1 DEF IndexInv, Steady, Dirs
<1>5. ASSUME NEW x \in 1..Len(list) PROVE IsLineOf(list[x], disk[list[x].path])
    <2> DEFINE n == list[x]
               e == disk[n.path]
    <2>1. n.path \in DOMAIN disk /\ n.type = e.type /\ n.mode = e.mode /\ n.target = Target(e) /\ n.time = e.time
        BY <1>1, <1>2
    <2>2. ASSUME n.type = "file" PROVE n.hash = FileHash(e.data)
        <3>1. n.hash # NoHash /\ n.hash \notin mixed
            BY <2>2
        <3>2. Truthful(disk, n.path, n.time, n.hash, mixed)
            BY <3>1 DEF Right
        <3> QED BY <2>1, <2>2, <3>1, <3>2 DEF Truthful
    <2>3. n.type = "link" => n.hash = NoHash
        OBVIOUS
    <2> QED BY <2>1, <2>2, <2>3 DEF IsLineOf
<1> QED
    BY <1>2, <1>3, <1>4, <1>5, SnapshotOfNodes DEF IsWorkspace

\* new is list but for the digest of the node at k, which is h.
Rehashed(list, new, k, h) ==
    /\ Len(new) = Len(list)
    /\ PathsOf(new) = PathsOf(list)
    /\ \A x \in 1..Len(list) : x # k => new[x] = list[x]
    /\ new[k] = [list[k] EXCEPT !.hash = h]

LEMMA RehashedIs ==
    ASSUME NEW list, NEW t, IsTimedList(list, t), NEW k \in 1..Len(list), NEW h
    PROVE  Rehashed(list, [list EXCEPT ![k].hash = h], k, h)
<1>1. IsNode(list[k]) /\ list[k].time \in 0..t
    BY DEF IsTimedList
<1> DEFINE n == [list[k] EXCEPT !.hash = h]
           new == [list EXCEPT ![k] = n]
<1>2. n.path = list[k].path /\ n.time = list[k].time /\ IsNode(n)
    BY <1>1, NodeWith
<1>3. new = [list EXCEPT ![k].hash = h]
    OBVIOUS
<1> HIDE DEF n
<1>4. /\ IsTimedList(new, t) /\ Len(new) = Len(list)
      /\ PathsOf(new) = PathsOf(list)
      /\ \A x \in 1..Len(new) : new[x] = IF x = k THEN n ELSE list[x]
    BY <1>1, <1>2, ReplacedIs
<1> HIDE DEF new
<1>5. Rehashed(list, new, k, h)
    BY <1>4 DEF Rehashed, n
<1> QED
    BY <1>3, <1>5

LEMMA RehashedNodes ==
    ASSUME NEW list, \A x \in 1..Len(list) : IsNode(list[x]),
           NEW new, NEW k \in 1..Len(list), NEW h, Rehashed(list, new, k, h)
    PROVE  /\ Len(new) = Len(list)
           /\ \A x \in 1..Len(list) :
                 /\ new[x].path = list[x].path /\ new[x].type = list[x].type
                 /\ new[x].hash = IF x = k THEN h ELSE list[x].hash
                 /\ new[x].target = list[x].target
           /\ Dirs(new) = Dirs(list)
           /\ \A d : Within(new, d) = Within(list, d) /\ Kids(new, d) = Kids(list, d)
           /\ \A d : Parent[list[k].path] # d => TreeOf(new, d) = TreeOf(list, d)
           /\ \A entries : OfScan(list, entries) => OfScan(new, entries)
<1>1. \A x \in 1..Len(list) :
          /\ new[x].path = list[x].path /\ new[x].type = list[x].type
          /\ new[x].hash = IF x = k THEN h ELSE list[x].hash
          /\ new[x].target = list[x].target
    <2> TAKE x \in 1..Len(list)
    <2>1. CASE x # k
        BY <2>1 DEF Rehashed
    <2>2. CASE x = k
        <3> DEFINE n == list[k]
        <3>1. new[k] = [n EXCEPT !.hash = h] /\ IsNode(n)
            BY DEF Rehashed
        <3> HIDE DEF n
        <3>2. new[k].path = n.path /\ new[k].type = n.type /\ new[k].hash = h /\ new[k].target = n.target
            BY <3>1 DEF IsNode
        <3> QED BY <2>2, <3>2 DEF n
    <2> QED BY <2>1, <2>2
<1>2. Len(new) = Len(list)
    BY DEF Rehashed
<1>3. Dirs(new) = Dirs(list)
    BY <1>1, <1>2 DEF Dirs
<1>4. ASSUME NEW d PROVE Within(new, d) = Within(list, d) /\ Kids(new, d) = Kids(list, d)
    <2>1. Within(new, d) = Within(list, d)
        BY <1>1, <1>2 DEF Within
    <2>2. \A x \in Within(list, d) : new[x].path = list[x].path
        BY <1>1 DEF Within
    <2> QED BY <2>1, <2>2 DEF Kids
<1>5. ASSUME NEW d, Parent[list[k].path] # d PROVE TreeOf(new, d) = TreeOf(list, d)
    <2>1. \A x \in Within(list, d) : new[x] = list[x]
        BY <1>5 DEF Within, Rehashed
    <2>2. {Line(new[x]) : x \in Within(new, d)} = {Line(list[x]) : x \in Within(list, d)}
        BY <1>4, <2>1
    <2> QED BY <2>2 DEF TreeOf
<1>6. ASSUME NEW entries, OfScan(list, entries) PROVE OfScan(new, entries)
    <2> SUFFICES ASSUME NEW x \in 1..Len(list)
                 PROVE  new[x] = Node(new[x].path, entries[new[x].path], new[x].hash)
        BY <1>2, <1>6 DEF OfScan, Rehashed
    <2>1. list[x] = Node(list[x].path, entries[list[x].path], list[x].hash)
        BY <1>6 DEF OfScan
    <2>2. CASE x # k
        BY <2>1, <2>2 DEF Rehashed
    <2>3. CASE x = k
        <3> DEFINE n == list[k]
                   p == n.path
                   e == entries[p]
        <3>1. n = Node(p, e, n.hash) /\ new[k] = [n EXCEPT !.hash = h] /\ new[k].path = p /\ new[k].hash = h
            BY <1>1, <2>1, <2>3 DEF Rehashed
        <3> HIDE DEF n, e, p
        <3>2. new[k] = Node(p, e, h)
            BY <3>1 DEF Node
        <3> QED BY <2>3, <3>1, <3>2 DEF e
    <2> QED BY <2>2, <2>3
<1> QED
    BY <1>1, <1>2, <1>3, <1>4, <1>5, <1>6

\* What refresh makes.
LEMMA RefreshedNodes ==
    ASSUME NEW entries, DOMAIN entries \subseteq Paths, NEW ig, ScanShape(ig, entries),
           \A q \in DOMAIN entries : IsEntry(entries[q]),
           NEW F, NEW index, IsList(index), Ordered(index), Formed(F, index),
           NEW found, found = Sorted(DOMAIN entries), NEW hash, hash = Clean(entries, index),
           NEW list, list = [k \in DOMAIN found |-> Node(found[k], entries[found[k]], hash[found[k]])]
    PROVE  /\ OfScan(list, entries) /\ FilesKept(list, hash) /\ DirsKept(list, hash)
           /\ Formed(F, list)
<1>1. found \in Seq(DOMAIN entries)
    BY SortedTheorem DEF IsSortedList
<1>2. Len(list) = Len(found) /\ DOMAIN list = 1..Len(found) /\ DOMAIN found = 1..Len(found)
    BY <1>1, MappedList
<1>3. ASSUME NEW x \in 1..Len(list)
      PROVE  LET n == list[x]
                 p == found[x]
             IN  /\ n = Node(p, entries[p], hash[p]) /\ p \in DOMAIN entries
                 /\ n.path = p /\ n.type = entries[p].type /\ n.target = Target(entries[p])
                 /\ n.hash = hash[p]
    <2> DEFINE n == list[x]
               p == found[x]
    <2>1. n = Node(p, entries[p], hash[p])
        BY <1>2
    <2>2. p \in DOMAIN entries
        BY <1>1, <1>2
    <2> HIDE DEF n, p
    <2>3. n.path = p /\ n.type = entries[p].type /\ n.target = Target(entries[p]) /\ n.hash = hash[p]
        BY <2>1 DEF Node
    <2> QED BY <2>1, <2>2, <2>3 DEF n, p
<1>4. PathsOf(list) = found
    <2>1. PathsOf(list) = [x \in 1..Len(found) |-> list[x].path]
        BY <1>2 DEF PathsOf
    <2>2. found = [x \in 1..Len(found) |-> found[x]]
        BY <1>1, <1>2
    <2> QED BY <1>2, <1>3, <2>1, <2>2
<1>5. OfScan(list, entries)
    BY <1>3, <1>4 DEF OfScan
<1>6. FilesKept(list, hash) /\ DirsKept(list, hash)
    BY <1>3 DEF FilesKept, DirsKept, Dirs
<1>7. \A q \in DOMAIN entries : hash[q] # NoHash => Reused(index, entries, q, hash[q])
    BY CleanIs
<1>8. ASSUME NEW x \in 1..Len(list)
      PROVE  LET n == list[x] IN
             /\ n.type = "dir" => n.hash = NoHash \/ <<n.path, n.hash>> \in F
             /\ n.type = "link" => n.hash = NoHash
             /\ n.type # "link" => n.target = ""
    <2> DEFINE n == list[x]
               p == found[x]
    <2>1. /\ p \in DOMAIN entries
          /\ n.path = p /\ n.type = entries[p].type /\ n.target = Target(entries[p]) /\ n.hash = hash[p]
        BY <1>3
    <2> HIDE DEF n, p
    <2>2. n.type # "link" => n.target = ""
        BY <2>1 DEF Target
    <2>3. CASE n.hash # NoHash
        <3>1. PICK k \in 1..Len(index) :
                  index[k].path = p /\ index[k].hash = hash[p] /\ Equivalent(index[k], entries[p])
            BY <1>7, <2>1, <2>3 DEF Reused
        <3>2. index[k].type = n.type
            BY <2>1, <3>1 DEF Equivalent
        <3>3. /\ n.type = "dir" => n.hash = NoHash \/ <<p, n.hash>> \in F
              /\ n.type = "link" => n.hash = NoHash
            BY <2>1, <3>1, <3>2 DEF Formed
        <3> QED BY <2>1, <2>2, <3>3 DEF n
    <2> QED BY <2>2, <2>3 DEF n
<1>9. Formed(F, list)
    BY <1>8 DEF Formed
<1> QED
    BY <1>5, <1>6, <1>9

\* A file gets its digest.
LEMMA AddedNode ==
    ASSUME NEW list, \A x \in 1..Len(list) : IsNode(list[x]),
           NEW new, NEW k \in 1..Len(list), NEW h, Rehashed(list, new, k, h),
           list[k].type = "file", list[k].hash # NoHash => h = list[k].hash,
           NEW entries, OfScan(list, entries), NEW hash, FilesKept(list, hash), DirsKept(list, hash),
           NEW F, Formed(F, list)
    PROVE  OfScan(new, entries) /\ FilesKept(new, hash) /\ DirsKept(new, hash) /\ Formed(F, new)
<1>1. /\ Len(new) = Len(list)
      /\ \A x \in 1..Len(list) :
            /\ new[x].path = list[x].path /\ new[x].type = list[x].type
            /\ new[x].hash = IF x = k THEN h ELSE list[x].hash
            /\ new[x].target = list[x].target
      /\ Dirs(new) = Dirs(list)
      /\ OfScan(new, entries)
    BY RehashedNodes
<1>2. FilesKept(new, hash)
    BY <1>1 DEF FilesKept
<1>3. DirsKept(new, hash)
    BY <1>1 DEF DirsKept, Dirs
<1>4. Formed(F, new)
    <2> SUFFICES ASSUME NEW x \in 1..Len(list)
                 PROVE  /\ new[x].type = "dir" => new[x].hash = NoHash \/ <<new[x].path, new[x].hash>> \in F
                        /\ new[x].type = "link" => new[x].hash = NoHash
                        /\ new[x].type # "link" => new[x].target = ""
        BY <1>1 DEF Formed
    <2>1. new[x].type # "file" => new[x].hash = list[x].hash
        BY <1>1
    <2>2. /\ list[x].type = "dir" => list[x].hash = NoHash \/ <<list[x].path, list[x].hash>> \in F
          /\ list[x].type = "link" => list[x].hash = NoHash
          /\ list[x].type # "link" => list[x].target = ""
        BY DEF Formed
    <2> QED BY <1>1, <2>1, <2>2
<1> QED
    BY <1>1, <1>2, <1>3, <1>4

\* The last directory that is to be written is written.
LEMMA WrittenNode ==
    ASSUME NEW list, IsList(list), \A x \in 1..Len(list) : IsNode(list[x]),
           NEW ig, NEW entries, DOMAIN entries \subseteq Paths,
           \A q \in DOMAIN entries : IsEntry(entries[q]), ScanShape(ig, entries),
           OfScan(list, entries),
           NEW todos, todos \subseteq Paths, NEW p \in todos, \A q \in todos : Rank[q] <= Rank[p],
           NEW k \in 1..Len(list), list[k].path = p, list[k].type = "dir",
           NEW new, Rehashed(list, new, k, TreeOf(list, p)),
           NEW hash, FilesKept(list, hash), DirsWritten(list, hash, todos),
           NEW F, IsForest(ig, F), Formed(F, list)
    PROVE  /\ OfScan(new, entries) /\ FilesKept(new, hash) /\ DirsWritten(new, hash, todos \ {p})
           /\ IsForest(ig, F \cup {<<p, TreeOf(list, p)>>})
           /\ Formed(F \cup {<<p, TreeOf(list, p)>>}, new)
<1> DEFINE h == TreeOf(list, p)
           K == F \cup {<<p, h>>}
<1>1. /\ Len(new) = Len(list)
      /\ \A x \in 1..Len(list) :
            /\ new[x].path = list[x].path /\ new[x].type = list[x].type
            /\ new[x].hash = IF x = k THEN h ELSE list[x].hash
            /\ new[x].target = list[x].target
      /\ Dirs(new) = Dirs(list)
      /\ \A d : Kids(new, d) = Kids(list, d)
      /\ \A d : Parent[list[k].path] # d => TreeOf(new, d) = TreeOf(list, d)
      /\ OfScan(new, entries)
    BY RehashedNodes
<1>2. /\ Ordered(list) /\ Typed(list) /\ Shaped(list, ig)
      /\ \A x, y \in 1..Len(list) : list[x].path = list[y].path => x = y
    BY OfScanIs, OrderedIs
<1>3. \A d : TreeOf(list, d) # NoHash
    BY <1>2, TreeLines DEF Typed
<1>4. \A c \in Kids(list, p) : c \in Paths /\ Parent[c] = p /\ c \notin todos
    <2> TAKE c \in Kids(list, p)
    <2>1. c \in Paths /\ Parent[c] = p
        BY DEF Kids, Within, IsList
    <2>2. p \in Paths /\ p # Root
        BY TreeAssumption
    <2>3. Rank[p] < Rank[c]
        BY <2>1, <2>2, ParentRank
    <2> QED BY <2>1, <2>2, <2>3, RankNat
<1> HIDE DEF h
<1>5. FilesKept(new, hash)
    BY <1>1 DEF FilesKept
<1>6. Parent[p] # p
    BY ParentRank, RankNat, TreeAssumption
<1>7. DirsWritten(new, hash, todos \ {p})
    <2> SUFFICES ASSUME NEW x \in Dirs(list), list[x].path \notin todos \ {p}
                 PROVE  \/ new[x].hash = hash[list[x].path] /\ new[x].hash # NoHash
                        \/ /\ new[x].hash = TreeOf(new, list[x].path)
                           /\ Kids(new, list[x].path) \cap (todos \ {p}) = {}
        BY <1>1 DEF DirsWritten, Dirs
    <2>1. x \in 1..Len(list)
        BY DEF Dirs
    <2>2. CASE x = k
        <3>1. new[x].hash = TreeOf(new, p)
            BY <1>1, <1>6, <2>2 DEF h
        <3>2. Kids(new, p) \cap (todos \ {p}) = {}
            BY <1>1, <1>4
        <3> QED BY <2>2, <3>1, <3>2
    <2>3. CASE x # k
        <3> DEFINE q == list[x].path
        <3>1. q # p /\ q \notin todos /\ new[x].hash = list[x].hash
            BY <1>1, <1>2, <2>1, <2>3
        <3>2. CASE list[x].hash = hash[q] /\ list[x].hash # NoHash
            BY <3>1, <3>2
        <3>3. CASE list[x].hash = TreeOf(list, q) /\ Kids(list, q) \cap todos = {}
            <4>1. Parent[p] # q
                <5>1. SUFFICES ASSUME Parent[p] = q PROVE FALSE
                    OBVIOUS
                <5>2. p \in Kids(list, q)
                    BY <5>1 DEF Kids, Within
                <5> QED BY <3>3, <5>2
            <4>2. TreeOf(new, q) = TreeOf(list, q)
                BY <1>1, <4>1
            <4> QED BY <1>1, <3>1, <3>3, <4>2
        <3> QED BY <3>1, <3>2, <3>3 DEF DirsWritten
    <2> QED BY <2>2, <2>3
<1>8. IsTree(ig, F, p, h)
    <2>1. ASSUME NEW x \in Within(list, p)
          PROVE  list[x].path \in Seen(ig) /\ (list[x].type = "dir" => list[x].hash # NoHash)
        <3>1. x \in 1..Len(list) /\ list[x].path \in Kids(list, p)
            BY DEF Within, Kids
        <3>2. list[x].path \in Seen(ig)
            BY <1>2, <3>1 DEF Shaped
        <3>3. ASSUME list[x].type = "dir" PROVE list[x].hash # NoHash
            <4>1. x \in Dirs(list) /\ list[x].path \notin todos
                BY <1>4, <3>1, <3>3 DEF Dirs
            <4> QED BY <1>3, <4>1 DEF DirsWritten
        <3> QED BY <3>2, <3>3
    <2> QED BY <1>2, <2>1, TreeIsTree DEF h
<1>9. IsForest(ig, K)
    BY <1>8, AddedToForest
<1>10. Formed(K, new)
    <2> SUFFICES ASSUME NEW x \in 1..Len(list)
                 PROVE  /\ new[x].type = "dir" => new[x].hash = NoHash \/ <<new[x].path, new[x].hash>> \in K
                        /\ new[x].type = "link" => new[x].hash = NoHash
                        /\ new[x].type # "link" => new[x].target = ""
        BY <1>1 DEF Formed
    <2>1. CASE x = k
        BY <1>1, <2>1 DEF Formed
    <2>2. CASE x # k
        BY <1>1, <2>2 DEF Formed
    <2> QED BY <2>1, <2>2
<1> QED
    BY <1>1, <1>5, <1>7, <1>9, <1>10 DEF h

\* The root, when all directories are written.
LEMMA WrittenRoot ==
    ASSUME NEW list, IsList(list), NEW ig, NEW entries, DOMAIN entries \subseteq Paths,
           \A q \in DOMAIN entries : IsEntry(entries[q]), ScanShape(ig, entries),
           OfScan(list, entries), NEW hash, DirsWritten(list, hash, {}),
           NEW F, IsForest(ig, F), Formed(F, list)
    PROVE  IsForest(ig, F \cup {<<Root, TreeOf(list, Root)>>})
<1>1. Ordered(list) /\ Typed(list) /\ Shaped(list, ig)
    BY OfScanIs
<1>2. \A d : TreeOf(list, d) # NoHash
    BY <1>1, TreeLines DEF Typed
<1>3. \A x \in Within(list, Root) :
          list[x].path \in Seen(ig) /\ (list[x].type = "dir" => list[x].hash # NoHash)
    <2> TAKE x \in Within(list, Root)
    <2>1. x \in 1..Len(list)
        BY DEF Within
    <2>2. list[x].type = "dir" => list[x].hash # NoHash
        BY <1>2, <2>1 DEF DirsWritten, Dirs
    <2> QED BY <1>1, <2>1, <2>2 DEF Shaped
<1>4. IsTree(ig, F, Root, TreeOf(list, Root))
    BY <1>1, <1>3, TreeIsTree
<1> QED
    BY <1>4, AddedToForest

\* The directories to be written are those that have no digest, and others.
LEMMA ToWrite ==
    ASSUME NEW list, NEW hash, DirsKept(list, hash), NEW todos,
           \A x \in Dirs(list) : list[x].hash = NoHash => list[x].path \in todos
    PROVE  DirsWritten(list, hash, todos)
BY DEF DirsKept, DirsWritten

-----------------------------------------------------------------------------
(* The index that checkout makes of a tree. *)

LEMMA ListingNodes ==
    ASSUME NEW t, Typed(Listing(t))
    PROVE  \A x \in 1..Len(Listing(t)) : IsNode(Listing(t)[x]) /\ Listing(t)[x].time = 0
<1> TAKE x \in 1..Len(Listing(t))
<1> DEFINE p == Sorted(ListedIn(t))[x]
           line == Lines(t)[p]
           n == Listing(t)[x]
<1>1. n = [path |-> p, type |-> line[2], mode |-> line[3], target |-> line[4], hash |-> line[5], time |-> 0]
      /\ p \in ListedIn(t)
    BY ListingIs
<1>2. n.type \in {"file", "dir", "link"}
    BY DEF Typed
<1>3. p \in Paths
    BY <1>1 DEF ListedIn
<1> HIDE DEF p, line, n
<1>4. IsNode(n) /\ n.time = 0
    BY <1>1, <1>2, <1>3 DEF IsNode
<1> QED
    BY <1>4 DEF n

\* copy_metadata changes times only: each is that of a record with the same
\* path and digest, or 0.
LEMMA CopiedLines ==
    ASSUME NEW list, IsList(list), \A x \in 1..Len(list) : IsNode(list[x]) /\ list[x].time = 0,
           NEW old, IsList(old)
    PROVE  /\ SameLines(list, CopyMetadata(list, old))
           /\ IsList(CopyMetadata(list, old))
           /\ \A x \in 1..Len(list) :
                 LET n == CopyMetadata(list, old)[x] IN
                 \/ n.time = 0
                 \/ \E y \in 1..Len(old) :
                       old[y].path = n.path /\ old[y].hash = n.hash /\ old[y].time = n.time
<1> DEFINE new == CopyMetadata(list, old)
<1>1. /\ new \in Seq(ToSet(new)) /\ Len(new) = Len(list)
      /\ \A x \in 1..Len(list) :
            \/ new[x] = list[x]
            \/ \E y \in 1..Len(old) :
                  /\ old[y].path = list[x].path /\ old[y].hash = list[x].hash
                  /\ new[x] = [list[x] EXCEPT !.time = old[y].time]
    BY CopyMetadataIs
<1> HIDE DEF new
<1>2. ASSUME NEW x \in 1..Len(list)
      PROVE  /\ new[x].path = list[x].path /\ new[x].type = list[x].type /\ new[x].mode = list[x].mode
             /\ new[x].target = list[x].target /\ new[x].hash = list[x].hash
             /\ \/ new[x].time = 0
                \/ \E y \in 1..Len(old) :
                      old[y].path = new[x].path /\ old[y].hash = new[x].hash /\ old[y].time = new[x].time
    <2> DEFINE n == list[x]
    <2>1. IsNode(n) /\ n.time = 0
        OBVIOUS
    <2>2. CASE new[x] = n
        BY <2>1, <2>2
    <2>3. CASE new[x] # n
        <3>1. PICK y \in 1..Len(old) :
                  /\ old[y].path = n.path /\ old[y].hash = n.hash
                  /\ new[x] = [n EXCEPT !.time = old[y].time]
            BY <1>1, <2>3
        <3> HIDE DEF n
        <3>2. /\ new[x].path = n.path /\ new[x].type = n.type /\ new[x].mode = n.mode
              /\ new[x].target = n.target /\ new[x].hash = n.hash /\ new[x].time = old[y].time
            BY <2>1, <3>1 DEF IsNode
        <3> QED BY <3>1, <3>2 DEF n
    <2> QED BY <2>2, <2>3
<1>3. SameLines(list, new)
    BY <1>1, <1>2 DEF SameLines
<1>4. IsList(new)
    BY <1>1, <1>2 DEF IsList
<1> QED
    BY <1>2, <1>3, <1>4 DEF new

\* A digest of a file is not one of a directory.
LEMMA FileIsNoTree == \A c, lines : FileHash(c) # TreeHash(lines)
<1> TAKE c, lines
<1>1. SUFFICES ASSUME FileHash(c) = TreeHash(lines) PROVE FALSE
    OBVIOUS
<1>2. <<"tree">> \in {<<"file", c>>}
    BY <1>1 DEF FileHash, TreeHash
<1>3. Len(<<"tree">>) = 1 /\ Len(<<"file", c>>) = 2
    OBVIOUS
<1> QED
    BY <1>2, <1>3

\* The index of a tree that has taken the times of the saved one.
LEMMA CopiedTree ==
    ASSUME NEW disk, NEW ig, NEW t, Dated(disk, t),
           NEW F, IsForest(ig, F), NEW G, IsCache(G), NEW h \in G, <<Root, h>> \in F,
           NEW index, IsList(index), IndexInv(disk, ig, index), Formed(F, index), Typed(index),
           \A x \in 1..Len(index) : index[x].type = "file" => \E c : index[x].hash = FileHash(c)
    PROVE  LET list == CopyMetadata(Listing(h), index) IN
           TreeInv(disk, ig, list, Len(list) + 1) /\ Formed(F, list)
<1> DEFINE a == Listing(h)
           list == CopyMetadata(a, index)
<1>1. /\ IsList(a) /\ Shaped(a, ig) /\ Typed(a) /\ Formed(F, a)
      /\ \A x \in Dirs(a) :
            LET n == a[x] IN
            Held(n.hash, n.path) = Kids(a, n.path) /\ n.hash = TreeOf(a, n.path)
    <2>1. PICK b : b = Listing(h)
        OBVIOUS
    <2>2. IsTreeList(F, b) /\ IsList(b) /\ Shaped(b, ig) /\ Typed(b) /\ Formed(F, b)
        BY <2>1, ListingForest
    <2> QED BY <2>1, <2>2 DEF IsTreeList
<1>2. \A x \in 1..Len(a) : IsNode(a[x]) /\ a[x].time = 0
    BY <1>1, ListingNodes
<1> HIDE DEF a
<1>3. /\ SameLines(a, list) /\ IsList(list)
      /\ \A x \in 1..Len(a) :
            \/ list[x].time = 0
            \/ \E y \in 1..Len(index) :
                  index[y].path = list[x].path /\ index[y].hash = list[x].hash /\ index[y].time = list[x].time
    BY <1>1, <1>2, CopiedLines
<1> HIDE DEF list
<1>4. /\ Dirs(list) = Dirs(a) /\ Len(list) = Len(a)
      /\ \A d : Within(list, d) = Within(a, d) /\ Kids(list, d) = Kids(a, d) /\ TreeOf(list, d) = TreeOf(a, d)
      /\ Shaped(list, ig)
    BY <1>1, <1>3, SameLinesIs DEF SameLines
<1>5. \A x \in 1..Len(a) : list[x].path = a[x].path /\ list[x].type = a[x].type
                            /\ list[x].hash = a[x].hash /\ list[x].target = a[x].target
    BY <1>3 DEF SameLines
<1>6. Formed(F, list)
    <2> SUFFICES ASSUME NEW x \in 1..Len(a)
                 PROVE  /\ list[x].type = "dir" => list[x].hash = NoHash \/ <<list[x].path, list[x].hash>> \in F
                        /\ list[x].type = "link" => list[x].hash = NoHash
                        /\ list[x].type # "link" => list[x].target = ""
        BY <1>4 DEF Formed
    <2>1. /\ a[x].type = "dir" => a[x].hash = NoHash \/ <<a[x].path, a[x].hash>> \in F
          /\ a[x].type = "link" => a[x].hash = NoHash
          /\ a[x].type # "link" => a[x].target = ""
        BY <1>1 DEF Formed
    <2> QED BY <1>5, <2>1
<1>7. ASSUME NEW x \in Dirs(list)
      PROVE  /\ list[x].hash = TreeOf(list, list[x].path)
             /\ Held(list[x].hash, list[x].path) = Kids(list, list[x].path)
             /\ x \in 1..Len(a) /\ list[x].type = "dir"
    <2>1. x \in Dirs(a) /\ x \in 1..Len(a) /\ a[x].type = "dir"
        BY <1>4 DEF Dirs
    <2> QED BY <1>1, <1>4, <1>5, <2>1
<1>8. ASSUME NEW x \in Dirs(list), Current(disk, list[x])
      PROVE  EntriesOf(disk, ig, list[x].path) = Kids(list, list[x].path)
    <2> DEFINE p == list[x].path
    <2>1. list[x].time # 0
        BY <1>8 DEF Current, Dated
    <2>2. PICK y \in 1..Len(index) :
              index[y].path = p /\ index[y].hash = list[x].hash /\ index[y].time = list[x].time
        BY <1>3, <1>7, <2>1
    <2>3. index[y].type = "dir"
        <3>1. CASE index[y].type = "file"
            <4>1. PICK c : index[y].hash = FileHash(c)
                BY <3>1
            <4>2. FileHash(c) = TreeOf(list, p)
                BY <1>7, <2>2, <4>1
            <4> QED BY <4>2, FileIsNoTree DEF TreeOf
        <3>2. CASE index[y].type = "link"
            <4>1. index[y].hash = NoHash
                BY <3>2 DEF Formed
            <4>2. TreeOf(list, p) = NoHash
                BY <1>7, <2>2, <4>1
            <4> QED BY <4>2 DEF TreeOf, TreeHash, NoHash
        <3> QED BY <3>1, <3>2 DEF Typed
    <2>4. y \in Dirs(index) /\ Current(disk, index[y])
        BY <1>7, <1>8, <2>2, <2>3 DEF Dirs, Current
    <2>5. EntriesOf(disk, ig, p) = Kids(index, p) /\ Held(index[y].hash, p) = Kids(index, p)
        BY <2>2, <2>4 DEF IndexInv
    <2> QED BY <1>7, <2>2, <2>5
<1>9. ASSUME NEW x \in Dirs(list), Current(disk, list[x]), NEW y \in Within(list, list[x].path)
      PROVE  list[y].path \in DOMAIN disk
    <2>1. list[y].path \in Kids(list, list[x].path)
        BY DEF Kids
    <2> QED BY <1>8, <1>9, <2>1 DEF EntriesOf, Listed
<1>10. TreeInv(disk, ig, list, Len(list) + 1)
    BY <1>4, <1>7, <1>8, <1>9 DEF TreeInv
<1> QED
    BY <1>6, <1>10 DEF list, a

-----------------------------------------------------------------------------
(* The nodes that the walk has made. *)

\* The directories above a node are nodes before it.
LEMMA NodesAbove ==
    ASSUME NEW ig, NEW list, IsList(list), Shaped(list, ig), NEW x \in 1..Len(list),
           NEW d \in Above[list[x].path]
    PROVE  \E y \in Dirs(list) : list[y].path = d /\ y < x
<1> DEFINE Bad == {p \in Paths : \E k \in 1..Len(list) : list[k].path = p /\
                                    \E a \in Above[p] : \A y \in Dirs(list) : ~(list[y].path = a /\ y < k)}
<1>1. Bad = {}
    <2>1. SUFFICES ASSUME Bad # {} PROVE FALSE
        OBVIOUS
    <2>2. PICK p \in Bad : \A q \in Bad : Rank[p] <= Rank[q]
        <3>1. Bad \subseteq Paths
            OBVIOUS
        <3> HIDE DEF Bad
        <3> QED BY <2>1, <3>1, Lowest
    <2>3. PICK k \in 1..Len(list), a \in Above[p] :
              list[k].path = p /\ \A y \in Dirs(list) : ~(list[y].path = a /\ y < k)
        BY <2>2
    <2>4. p \in Paths /\ Parent[p] # Root /\ (a = Parent[p] \/ a \in Above[Parent[p]])
        BY <2>2, AboveParent
    <2>5. Parent[p] \in Paths /\ Rank[Parent[p]] < Rank[p]
        BY <2>4, ParentRank
    <2>6. PICK y \in Dirs(list) : list[y].path = Parent[p]
        BY <2>3, <2>4 DEF Shaped
    <2>7. y \in 1..Len(list) /\ y < k
        <3>1. y \in 1..Len(list) /\ Len(list) \in Nat /\ (k < y => Rank[list[k].path] < Rank[list[y].path])
            BY OrderedIs DEF Dirs, Shaped, Ordered
        <3>2. ~(Rank[p] < Rank[Parent[p]]) /\ Parent[p] # p
            BY <2>4, <2>5, RankNat
        <3>3. ~(k < y) /\ k # y
            BY <2>3, <2>6, <3>1, <3>2
        <3> QED BY <3>1, <3>3
    <2>8. CASE a = Parent[p]
        BY <2>3, <2>6, <2>7, <2>8
    <2>9. CASE a \in Above[Parent[p]]
        <3>1. Parent[p] \notin Bad
            <4> HIDE DEF Bad
            <4> QED BY <2>2, <2>4, <2>5, RankNat
        <3>2. PICK z \in Dirs(list) : list[z].path = a /\ z < y
            BY <2>5, <2>6, <2>7, <2>9, <3>1
        <3>3. z < k
            BY <2>7, <3>2, OrderedIs DEF Dirs
        <3> QED BY <2>3, <3>2, <3>3
    <2> QED BY <2>4, <2>8, <2>9
<1>2. list[x].path \in Paths
    BY DEF IsList
<1> QED
    BY <1>1, <1>2

\* The same for a scan.
LEMMA ScanAbove ==
    ASSUME NEW ig, NEW entries, DOMAIN entries \subseteq Paths, ScanShape(ig, entries)
    PROVE  \A p \in DOMAIN entries : \A d \in Above[p] : d \in DOMAIN entries /\ entries[d].type = "dir"
<1> DEFINE Bad == {p \in DOMAIN entries : \E d \in Above[p] : ~(d \in DOMAIN entries /\ entries[d].type = "dir")}
<1>1. SUFFICES ASSUME Bad # {} PROVE FALSE
    OBVIOUS
<1>2. PICK p \in Bad : \A q \in Bad : Rank[p] <= Rank[q]
    <2>1. Bad \subseteq Paths
        OBVIOUS
    <2> HIDE DEF Bad
    <2> QED BY <1>1, <2>1, Lowest
<1>3. PICK d \in Above[p] : ~(d \in DOMAIN entries /\ entries[d].type = "dir")
    BY <1>2
<1>4. p \in Paths /\ Parent[p] # Root /\ (d = Parent[p] \/ d \in Above[Parent[p]])
    BY <1>2, AboveParent
<1>5. Parent[p] \in Paths /\ Rank[Parent[p]] < Rank[p]
    BY <1>4, ParentRank
<1>6. Parent[p] \in DOMAIN entries /\ entries[Parent[p]].type = "dir"
    BY <1>2, <1>4 DEF ScanShape
<1>7. Parent[p] \notin Bad
    <2> HIDE DEF Bad
    <2> QED BY <1>2, <1>4, <1>5, RankNat
<1> QED
    BY <1>3, <1>4, <1>6, <1>7

\* new is list but for the time of the node at k.
Retimed(list, new, k, t) ==
    /\ SameLines(list, new) /\ IsList(new)
    /\ \A x \in 1..Len(list) : x # k => new[x] = list[x]
    /\ new[k].time = t

LEMMA RetimedIs ==
    ASSUME NEW list, NEW t \in Nat, IsTimedList(list, t), NEW k \in 1..Len(list), NEW u \in 0..t
    PROVE  Retimed(list, [list EXCEPT ![k].time = u], k, u)
<1>1. IsNode(list[k])
    BY DEF IsTimedList
<1> DEFINE n == [list[k] EXCEPT !.time = u]
           new == [list EXCEPT ![k] = n]
<1>2. /\ n.path = list[k].path /\ n.type = list[k].type /\ n.mode = list[k].mode
      /\ n.target = list[k].target /\ n.hash = list[k].hash /\ n.time = u /\ IsNode(n)
    <2> DEFINE m == list[k]
    <2>1. n = [m EXCEPT !.time = u] /\ IsNode(m)
        BY <1>1
    <2> HIDE DEF n, m
    <2>2. /\ n.path = m.path /\ n.type = m.type /\ n.mode = m.mode
          /\ n.target = m.target /\ n.hash = m.hash /\ n.time = u /\ IsNode(n)
        BY <2>1 DEF IsNode
    <2> QED BY <2>2 DEF m
<1>3. new = [list EXCEPT ![k].time = u]
    OBVIOUS
<1> HIDE DEF n
<1>4. /\ IsTimedList(new, t) /\ Len(new) = Len(list)
      /\ \A x \in 1..Len(new) : new[x] = IF x = k THEN n ELSE list[x]
    BY <1>2, ReplacedIs
<1> HIDE DEF new
<1>5. SameLines(list, new)
    BY <1>2, <1>4 DEF SameLines
<1>6. IsList(new)
    BY <1>4, ListOfTimed
<1>7. Retimed(list, new, k, u)
    BY <1>2, <1>4, <1>5, <1>6 DEF Retimed
<1> QED
    BY <1>3, <1>7

\* The nodes up to the one at b are where they seem to be.
LEMMA NodePlain ==
    ASSUME NEW disk, NEW ig, NEW list, IsList(list), Shaped(list, ig), NEW b \in 1..Len(list),
           \A x \in 1..Len(list) :
              x < b => list[x].path \in DOMAIN disk /\ disk[list[x].path].type = list[x].type
    PROVE  Canonical(disk, list[b].path)
<1> SUFFICES ASSUME NEW d \in Above[list[b].path], d \in DOMAIN disk
             PROVE  disk[d].type # "link"
    BY DEF Canonical
<1>1. PICK y \in Dirs(list) : list[y].path = d /\ y < b
    BY NodesAbove
<1> QED
    BY <1>1 DEF Dirs

LEMMA CanonicalSmaller ==
    ASSUME NEW disk, NEW new, Smaller(disk, new), NEW p, Canonical(disk, p)
    PROVE  Canonical(new, p)
BY DEF Smaller, Canonical

-----------------------------------------------------------------------------
(* A node is made. *)

LEMMA PlacedTree ==
    ASSUME clock \in Nat, NEW disk, IsWorkspace(disk), NEW left, IsWorkspace(left),
           Dated(left, clock + 1), DirAged(disk, left, clock + 1), NEW ig,
           NEW list, IsTimedList(list, clock), NEW b \in 1..Len(list), TreeInv(disk, ig, list, b),
           Canonical(left, list[b].path), Clear(left, list[b]),
           list[b].type = "dir" => list[b].path \notin DOMAIN left,
           NEW new, new = CheckoutNode(left, list[b]),
           NEW next, Retimed(list, next, b, new[list[b].path].time)
    PROVE  TreeInv(new, ig, next, b + 1)
<1> DEFINE n == list[b]
           p == n.path
<1>1. IsList(list) /\ Len(list) \in Nat /\ IsNode(n) /\ p \in Paths
    BY ListOfTimed DEF IsTimedList, IsNode
<1>2. DOMAIN disk \subseteq Paths /\ DOMAIN left \subseteq Paths
    BY DEF IsWorkspace
<1>3. Real(left, p) = p
    BY <1>1, <1>2, RealPlain
<1>4. /\ DOMAIN new = DOMAIN left \cup {p} /\ DirAged(left, new, clock + 1)
      /\ new[p].time = clock + 1
    <2>1. LET made == CheckoutNode(left, n)
              q == Real(left, n.path)
          IN  /\ DOMAIN made = DOMAIN left \cup {q}
              /\ n.type # "dir" \/ q \notin DOMAIN left => IsAt(made, q, n.type, clock + 1)
              /\ DirAged(left, made, clock + 1)
        BY <1>1, CheckoutNodeDir
    <2> QED BY <1>3, <2>1 DEF IsAt
<1>5. DirAged(disk, new, clock + 1) /\ DOMAIN new \subseteq Paths
    BY <1>1, <1>2, <1>4, DirAgedTransitive
<1>6. /\ Len(next) = Len(list)
      /\ Dirs(next) = Dirs(list)
      /\ \A d : Within(next, d) = Within(list, d) /\ Kids(next, d) = Kids(list, d) /\ TreeOf(next, d) = TreeOf(list, d)
      /\ Shaped(next, ig)
      /\ \A x \in 1..Len(list) : next[x].path = list[x].path /\ next[x].type = list[x].type /\ next[x].hash = list[x].hash
      /\ \A x \in 1..Len(list) : x # b => next[x] = list[x]
      /\ next[b].time = clock + 1
    BY <1>4, SameLinesIs DEF Retimed, SameLines, TreeInv
<1>7. Ordered(list) /\ \A x, y \in 1..Len(list) : list[x].path = list[y].path => x = y
    BY <1>1, OrderedIs DEF TreeInv, Shaped
<1> HIDE DEF n
<1>8. ASSUME NEW x \in Dirs(list), x # b, Current(new, next[x])
      PROVE  /\ EntriesOf(new, ig, list[x].path) \subseteq Kids(list, list[x].path)
             /\ \A y \in Within(list, list[x].path) : list[y].path \in DOMAIN new \/ y >= b + 1
    <2>1. x \in 1..Len(list) /\ list[x].type = "dir" /\ next[x] = list[x] /\ list[x].time \in 0..clock
        BY <1>6, <1>8 DEF Dirs, IsTimedList
    <2>2. list[x].time # clock + 1
        BY <2>1
    <2>3. Current(disk, list[x]) /\ SameIn(disk, new, list[x].path)
        BY <1>5, <1>8, <2>1, <2>2, CurrentAged
    <2>4. EntriesOf(new, ig, list[x].path) = EntriesOf(disk, ig, list[x].path)
        BY <1>2, <1>5, <2>3, EntriesSame
    <2>5. /\ EntriesOf(disk, ig, list[x].path) \subseteq Kids(list, list[x].path)
          /\ \A y \in Within(list, list[x].path) : list[y].path \in DOMAIN disk \/ y >= b
        BY <2>3 DEF TreeInv
    <2>6. ASSUME NEW y \in Within(list, list[x].path)
          PROVE  list[y].path \in DOMAIN new \/ y >= b + 1
        <3>1. y \in 1..Len(list) /\ Parent[list[y].path] = list[x].path /\ list[y].path \in Paths
            BY <1>1 DEF Within, IsList
        <3>2. CASE list[y].path \in DOMAIN disk
            BY <2>3, <3>1, <3>2 DEF SameIn
        <3>3. CASE y = b
            BY <1>4, <3>3 DEF n
        <3>4. CASE y >= b /\ y # b
            BY <1>1, <3>1, <3>4
        <3> QED BY <2>5, <3>2, <3>3, <3>4
    <2> QED BY <2>4, <2>5, <2>6
<1>9. ASSUME b \in Dirs(list)
      PROVE  /\ EntriesOf(new, ig, p) = {}
             /\ \A y \in Within(list, p) : y >= b + 1
    <2>1. p \notin DOMAIN left /\ p # Root
        BY <1>1, <1>9, TreeAssumption DEF Dirs, n
    <2>2. Parent[p] # p
        BY <1>1, ParentRank, RankNat, TreeAssumption
    <2>3. \A q \in DOMAIN left : Parent[q] # p
        BY <2>1 DEF IsWorkspace
    <2>4. EntriesOf(new, ig, p) = {}
        BY <1>4, <2>2, <2>3 DEF EntriesOf, Listed
    <2>5. ASSUME NEW y \in Within(list, p) PROVE y >= b + 1
        <3>1. y \in 1..Len(list) /\ Parent[list[y].path] = p /\ list[y].path \in Paths
            BY <1>1 DEF Within, IsList
        <3>2. Rank[p] < Rank[list[y].path]
            BY <2>1, <3>1, ParentRank
        <3>3. ~(Rank[list[y].path] < Rank[p]) /\ list[y].path # p
            BY <1>1, <3>1, <3>2, RankNat
        <3>4. y < b => Rank[list[y].path] < Rank[p]
            BY <1>7, <3>1 DEF Ordered, n
        <3>5. ~(y < b) /\ y # b
            BY <3>3, <3>4 DEF n
        <3> QED BY <1>1, <3>1, <3>5
    <2> QED BY <2>4, <2>5
<1>10. ASSUME NEW x \in Dirs(list)
       PROVE  /\ next[x].hash = TreeOf(next, next[x].path)
              /\ Current(new, next[x]) =>
                    /\ EntriesOf(new, ig, next[x].path) \subseteq Kids(next, next[x].path)
                    /\ \A y \in Within(next, next[x].path) : next[y].path \in DOMAIN new \/ y >= b + 1
    <2>1. x \in 1..Len(list) /\ next[x].path = list[x].path /\ next[x].hash = list[x].hash
        BY <1>6 DEF Dirs
    <2>2. list[x].hash = TreeOf(list, list[x].path)
        BY DEF TreeInv
    <2>3. \A y \in Within(list, list[x].path) : next[y].path = list[y].path
        BY <1>6 DEF Within
    <2>4. CASE x # b
        BY <1>6, <1>8, <2>1, <2>2, <2>3, <2>4
    <2>5. CASE x = b
        BY <1>6, <1>9, <2>1, <2>2, <2>3, <2>5 DEF n
    <2> QED BY <2>4, <2>5
<1> QED
    BY <1>6, <1>10 DEF TreeInv

-----------------------------------------------------------------------------
(* The turns of the walk. *)

\* What is known at each turn.
Walking(disk, ig, list, entries, found, a, b) ==
    /\ DOMAIN disk \subseteq Paths /\ IsList(list) /\ Shaped(list, ig)
    /\ DOMAIN entries \subseteq Paths /\ ScanShape(ig, entries)
    /\ found = Sorted(DOMAIN entries)
    /\ a \in 1..Len(found) + 1 /\ b \in 1..Len(list) + 1
    /\ WalkInv(disk, ig, list, entries, found, a, b)

LEMMA WalkingIs ==
    ASSUME NEW disk, NEW ig, NEW list, NEW entries, NEW found, NEW a, NEW b,
           Walking(disk, ig, list, entries, found, a, b)
    PROVE  /\ Len(found) \in Nat /\ Len(list) \in Nat /\ a \in Nat /\ b \in Nat
           /\ \A y \in 1..Len(found) : found[y] \in DOMAIN entries /\ found[y] \in Paths
           /\ \A p \in DOMAIN entries : \E y \in 1..Len(found) : found[y] = p
           /\ \A x, y \in 1..Len(found) : x < y => Rank[found[x]] < Rank[found[y]]
           /\ \A x \in 1..Len(list) : list[x].path \in Paths
           /\ \A x, y \in 1..Len(list) : x < y => Rank[list[x].path] < Rank[list[y].path]
           /\ \A x, y \in 1..Len(list) : list[x].path = list[y].path => x = y
<1>1. IsList(list) /\ Shaped(list, ig) /\ DOMAIN entries \subseteq Paths /\ found = Sorted(DOMAIN entries)
    BY DEF Walking
<1>2. IsSortedList(found, DOMAIN entries)
    BY <1>1, SortedTheorem
<1>3. found \in Seq(DOMAIN entries)
    BY <1>2 DEF IsSortedList
<1>4. Len(found) \in Nat /\ \A y \in 1..Len(found) : found[y] \in DOMAIN entries
    BY <1>3
<1>5. a \in 1..Len(found) + 1 /\ b \in 1..Len(list) + 1 /\ Len(list) \in Nat
    BY <1>1, OrderedIs DEF Walking
<1>6. a \in Nat /\ b \in Nat
    BY <1>4, <1>5
<1>7. Ordered(list)
    BY <1>1 DEF Shaped
<1>8. /\ \A x, y \in 1..Len(list) : x < y => Rank[list[x].path] < Rank[list[y].path]
      /\ \A x, y \in 1..Len(list) : list[x].path = list[y].path => x = y
    BY <1>1, <1>7, OrderedIs DEF Ordered
<1>9. \A x \in 1..Len(list) : list[x].path \in Paths
    BY <1>1 DEF IsList
<1>10. \A x, y \in 1..Len(found) : x < y => Rank[found[x]] < Rank[found[y]]
    BY <1>2 DEF IsSortedList, Increasing
<1>11. \A p \in DOMAIN entries : \E y \in 1..Len(found) : found[y] = p
    BY <1>2 DEF IsSortedList
<1> QED
    BY <1>1, <1>4, <1>5, <1>6, <1>8, <1>9, <1>10, <1>11

\* The node at b is made on what is left of the disk, and the walk goes on at a2.
LEMMA PlacedWalk ==
    ASSUME NEW disk, NEW ig, NEW list, NEW entries, NEW found, NEW a, NEW b,
           Walking(disk, ig, list, entries, found, a, b), b <= Len(list),
           NEW left, Smaller(disk, left), NEW a2 \in Nat, a <= a2,
           \A y \in 1..Len(found) : y >= a2 => Rank[list[b].path] < Rank[found[y]],
           \A x \in 1..Len(list), y \in 1..Len(found) : x > b /\ y >= a /\ y < a2 => list[x].path # found[y],
           \A x \in 1..Len(list) : x < b => list[x].path \in DOMAIN left,
           \A y \in 1..Len(found) :
              y >= a2 => \/ found[y] \in DOMAIN disk => found[y] \in DOMAIN left
                         \/ \E d \in Above[found[y]] : \A x \in Dirs(list) : list[x].path # d,
           NEW new, KeptBut(left, new, list[b].path), DOMAIN new = DOMAIN left \cup {list[b].path},
           new[list[b].path].type = list[b].type,
           NEW next, SameLines(list, next)
    PROVE  WalkInv(new, ig, next, entries, found, a2, b + 1)
<1> DEFINE p == list[b].path
<1>1. /\ Len(found) \in Nat /\ Len(list) \in Nat /\ a \in Nat /\ b \in 1..Len(list)
      /\ \A y \in 1..Len(found) : found[y] \in Paths
      /\ \A x \in 1..Len(list) : list[x].path \in Paths
      /\ \A x, y \in 1..Len(list) : x < y => Rank[list[x].path] < Rank[list[y].path]
      /\ \A x, y \in 1..Len(list) : list[x].path = list[y].path => x = y
    <2>1. a \in 1..Len(found) + 1 /\ b \in 1..Len(list) + 1
        BY DEF Walking
    <2>2. Len(found) \in Nat /\ Len(list) \in Nat
        BY WalkingIs
    <2>3. b \in 1..Len(list) /\ (a <= Len(found) => a \in 1..Len(found)) /\ a \in Nat
        BY <2>1, <2>2
    <2> QED BY <2>3, WalkingIs
<1>2. WalkInv(disk, ig, list, entries, found, a, b)
    BY DEF Walking
<1>3. Len(next) = Len(list) /\ Dirs(next) = Dirs(list)
      /\ \A x \in 1..Len(list) : next[x].path = list[x].path /\ next[x].type = list[x].type
    BY SameLinesIs DEF SameLines
<1>4. p \in Paths /\ p \in DOMAIN new /\ new[p].type = list[b].type
    BY <1>1
<1>5. \A q \in DOMAIN left : q # p => q \in DOMAIN new /\ new[q].type = left[q].type /\ q \in DOMAIN disk /\ left[q].type = disk[q].type
    BY DEF KeptBut, Smaller
<1>6. ASSUME NEW x \in 1..Len(list), NEW y \in 1..Len(found)
      PROVE  /\ x < b + 1 /\ y >= a2 => Rank[list[x].path] < Rank[found[y]]
             /\ x >= b + 1 /\ y < a2 => list[x].path # found[y]
    <2>1. /\ x < b /\ y >= a => Rank[list[x].path] < Rank[found[y]]
          /\ x >= b /\ y < a => list[x].path # found[y]
        BY <1>2 DEF WalkInv
    <2>2. ASSUME x < b + 1, y >= a2 PROVE Rank[list[x].path] < Rank[found[y]]
        <3>1. y >= a
            BY <1>1, <2>2
        <3>2. x < b \/ x = b
            BY <1>1, <2>2
        <3> QED BY <2>1, <2>2, <3>1, <3>2
    <2>3. ASSUME x >= b + 1, y < a2 PROVE list[x].path # found[y]
        <3>1. x > b /\ x >= b /\ (y < a \/ y >= a)
            BY <1>1, <2>3
        <3> QED BY <2>1, <2>3, <3>1
    <2> QED BY <2>2, <2>3
<1>7. ASSUME NEW x \in 1..Len(list), x < b + 1
      PROVE  list[x].path \in DOMAIN new /\ new[list[x].path].type = list[x].type
    <2>1. CASE x = b
        BY <1>4, <2>1
    <2>2. CASE x # b
        <3>1. x < b
            BY <1>1, <1>7, <2>2
        <3>2. list[x].path # p
            BY <1>1, <2>2
        <3>3. disk[list[x].path].type = list[x].type
            BY <1>1, <1>2, <3>1 DEF WalkInv
        <3> QED BY <1>5, <3>1, <3>2, <3>3
    <2> QED BY <2>1, <2>2
<1>8. ASSUME NEW y \in 1..Len(found), y >= a2
      PROVE  \/ found[y] \in DOMAIN new /\ new[found[y]].type = entries[found[y]].type
             \/ \E d \in Above[found[y]] : \A x \in Dirs(list) : list[x].path # d
    <2>1. y >= a /\ Rank[p] < Rank[found[y]]
        BY <1>1, <1>8
    <2>2. found[y] # p
        BY <1>1, <1>4, <2>1, RankNat
    <2>3. \/ found[y] \in DOMAIN disk /\ disk[found[y]].type = entries[found[y]].type
          \/ \E d \in Above[found[y]] : \A x \in Dirs(list) : list[x].path # d
        BY <1>1, <1>2, <2>1 DEF WalkInv
    <2> QED BY <1>5, <1>8, <2>2, <2>3
<1>9. ASSUME NEW q \in Listed(new, ig)
      PROVE  q \in DOMAIN entries \/ \E x \in 1..Len(list) : x < b + 1 /\ list[x].path = q
    <2>1. CASE q = p
        <3>1. b \in 1..Len(list) /\ b < b + 1
            BY <1>1
        <3> QED BY <2>1, <3>1
    <2>2. CASE q # p
        <3>1. q \in DOMAIN left
            BY <2>2 DEF Listed
        <3>2. q \in Listed(disk, ig)
            BY <2>2, <3>1 DEF Listed, Smaller
        <3>3. q \in DOMAIN entries \/ \E x \in 1..Len(list) : x < b /\ list[x].path = q
            BY <1>1, <1>2, <3>2 DEF WalkInv
        <3>4. \A x \in 1..Len(list) : x < b => x < b + 1
            BY <1>1
        <3> QED BY <3>3, <3>4
    <2> QED BY <2>1, <2>2
<1> HIDE DEF p
<1>10. \A d : (\A x \in Dirs(list) : list[x].path # d) => \A x \in Dirs(next) : next[x].path # d
    BY <1>3 DEF Dirs
<1>11. /\ \A x \in 1..Len(next), y \in 1..Len(found) :
             /\ x < b + 1 /\ y >= a2 => Rank[next[x].path] < Rank[found[y]]
             /\ x >= b + 1 /\ y < a2 => next[x].path # found[y]
       /\ \A x \in 1..Len(next) :
             x < b + 1 => next[x].path \in DOMAIN new /\ new[next[x].path].type = next[x].type
    BY <1>3, <1>6, <1>7
<1>12. \A y \in 1..Len(found) :
          y >= a2 =>
              \/ found[y] \in DOMAIN new /\ new[found[y]].type = entries[found[y]].type
              \/ \E d \in Above[found[y]] : \A x \in Dirs(next) : next[x].path # d
    BY <1>8, <1>10
<1>13. \A q \in Listed(new, ig) :
          q \in DOMAIN entries \/ \E x \in 1..Len(next) : x < b + 1 /\ next[x].path = q
    BY <1>3, <1>9
<1> QED
    BY <1>11, <1>12, <1>13 DEF WalkInv

\* The entry at a is not in the tree, and nor is what is below it.
LEMMA ExtraWalk ==
    ASSUME NEW disk, NEW ig, NEW list, NEW entries, NEW found, NEW a, NEW b,
           Walking(disk, ig, list, entries, found, a, b), b <= Len(list), a <= Len(found),
           Rank[found[a]] < Rank[list[b].path],
           NEW left, left = disk \/ (Smaller(disk, left) /\ DOMAIN left = DOMAIN disk \ ({found[a]} \cup Below(found[a])))
    PROVE  WalkInv(left, ig, list, entries, found, a + 1, b)
<1> DEFINE r == found[a]
<1>1. /\ Len(found) \in Nat /\ Len(list) \in Nat /\ a \in 1..Len(found) /\ b \in 1..Len(list)
      /\ \A y \in 1..Len(found) : found[y] \in Paths
      /\ \A x \in 1..Len(list) : list[x].path \in Paths
      /\ \A x, y \in 1..Len(list) : x < y => Rank[list[x].path] < Rank[list[y].path]
      /\ \A x, y \in 1..Len(found) : x < y => Rank[found[x]] < Rank[found[y]]
    <2>1. a \in 1..Len(found) + 1 /\ b \in 1..Len(list) + 1
        BY DEF Walking
    <2>2. Len(found) \in Nat /\ Len(list) \in Nat
        BY WalkingIs
    <2>3. b \in 1..Len(list) /\ (a <= Len(found) => a \in 1..Len(found)) /\ a \in Nat
        BY <2>1, <2>2
    <2> QED BY <2>3, WalkingIs
<1>2. WalkInv(disk, ig, list, entries, found, a, b)
    BY DEF Walking
<1>3. r \in Paths /\ Rank[r] < Rank[list[b].path] /\ Rank \in [Paths -> Nat]
    BY <1>1, RankNat
<1>4. \A x \in 1..Len(list) : list[x].path # r
    <2> TAKE x \in 1..Len(list)
    <2>1. CASE x < b
        <3>1. Rank[list[x].path] < Rank[r]
            BY <1>1, <1>2, <2>1 DEF WalkInv
        <3> QED BY <1>1, <1>3, <3>1
    <2>2. CASE x = b
        BY <1>1, <1>3, <2>2
    <2>3. CASE b < x
        <3>1. Rank[list[b].path] < Rank[list[x].path]
            BY <1>1, <2>3
        <3> QED BY <1>1, <1>3, <3>1
    <2> QED BY <1>1, <2>1, <2>2, <2>3
<1>5. ASSUME NEW x \in 1..Len(list), x < b PROVE list[x].path \notin Below(r)
    <2>1. Rank[list[x].path] < Rank[r]
        BY <1>1, <1>2, <1>5 DEF WalkInv
    <2>2. SUFFICES ASSUME r \in Above[list[x].path] PROVE FALSE
        BY DEF Below
    <2>3. Rank[r] < Rank[list[x].path]
        BY <1>1, <2>2, AboveOrder
    <2> QED BY <1>1, <1>3, <2>1, <2>3
<1>6. \A q \in DOMAIN left : q \in DOMAIN disk /\ left[q].type = disk[q].type
    BY DEF Smaller
<1>7. \A q \in DOMAIN disk : q \notin {r} \cup Below(r) => q \in DOMAIN left
    OBVIOUS
<1>8. ASSUME NEW x \in 1..Len(list), NEW y \in 1..Len(found)
      PROVE  /\ x < b /\ y >= a + 1 => Rank[list[x].path] < Rank[found[y]]
             /\ x >= b /\ y < a + 1 => list[x].path # found[y]
    <2>1. (y >= a + 1 => y >= a) /\ (y < a + 1 => y < a \/ y = a)
        BY <1>1
    <2>2. /\ x < b /\ y >= a => Rank[list[x].path] < Rank[found[y]]
          /\ x >= b /\ y < a => list[x].path # found[y]
        BY <1>2 DEF WalkInv
    <2> QED BY <1>4, <2>1, <2>2
<1>9. ASSUME NEW x \in 1..Len(list), x < b
      PROVE  list[x].path \in DOMAIN left /\ left[list[x].path].type = list[x].type
    <2>1. list[x].path \in DOMAIN disk /\ disk[list[x].path].type = list[x].type
        BY <1>1, <1>2, <1>9 DEF WalkInv
    <2> QED BY <1>4, <1>5, <1>6, <1>7, <1>9, <2>1
<1>10. ASSUME NEW y \in 1..Len(found), y >= a + 1
       PROVE  \/ found[y] \in DOMAIN left /\ left[found[y]].type = entries[found[y]].type
              \/ \E d \in Above[found[y]] : \A x \in Dirs(list) : list[x].path # d
    <2>1. y >= a /\ a < y
        BY <1>1, <1>10
    <2>2. found[y] # r
        BY <1>1, <1>3, <2>1
    <2>3. \/ found[y] \in DOMAIN disk /\ disk[found[y]].type = entries[found[y]].type
          \/ \E d \in Above[found[y]] : \A x \in Dirs(list) : list[x].path # d
        BY <1>1, <1>2, <2>1 DEF WalkInv
    <2>4. CASE found[y] \in Below(r)
        <3>1. r \in Above[found[y]]
            BY <2>4 DEF Below
        <3>2. \A x \in Dirs(list) : list[x].path # r
            BY <1>4 DEF Dirs
        <3> HIDE DEF r
        <3> QED BY <3>1, <3>2
    <2>5. CASE found[y] \notin Below(r)
        BY <1>6, <1>7, <2>2, <2>3, <2>5
    <2> QED BY <2>4, <2>5
<1>11. \A q \in Listed(left, ig) : q \in DOMAIN entries \/ \E x \in 1..Len(list) : x < b /\ list[x].path = q
    <2>1. Listed(left, ig) \subseteq Listed(disk, ig)
        BY <1>6 DEF Listed
    <2> QED BY <1>1, <1>2, <2>1 DEF WalkInv
<1> QED
    BY <1>8, <1>9, <1>10, <1>11 DEF WalkInv

\* What PlacedWalk asks of what is left of the disk, and of where the walk goes on.
Passed(disk, left, list, found, a, b, a2) ==
    /\ Smaller(disk, left) /\ a2 \in Nat /\ a <= a2
    /\ \A y \in 1..Len(found) : y >= a2 => Rank[list[b].path] < Rank[found[y]]
    /\ \A x \in 1..Len(list), y \in 1..Len(found) : x > b /\ y >= a /\ y < a2 => list[x].path # found[y]
    /\ \A x \in 1..Len(list) : x < b => list[x].path \in DOMAIN left
    /\ \A y \in 1..Len(found) :
          y >= a2 => \/ found[y] \in DOMAIN disk => found[y] \in DOMAIN left
                     \/ \E d \in Above[found[y]] : \A x \in Dirs(list) : list[x].path # d

\* The node at b is not on the disk.
LEMMA MissingPassed ==
    ASSUME NEW disk, NEW ig, NEW list, NEW entries, NEW found, NEW a, NEW b,
           Walking(disk, ig, list, entries, found, a, b), b <= Len(list),
           a <= Len(found) => Rank[list[b].path] < Rank[found[a]]
    PROVE  Passed(disk, disk, list, found, a, b, a) /\ list[b].path \notin DOMAIN disk
<1> DEFINE p == list[b].path
<1>1. /\ Len(found) \in Nat /\ Len(list) \in Nat /\ a \in Nat
      /\ \A y \in 1..Len(found) : found[y] \in Paths
      /\ \A q \in DOMAIN entries : \E y \in 1..Len(found) : found[y] = q
      /\ \A x \in 1..Len(list) : list[x].path \in Paths
      /\ \A x, y \in 1..Len(list) : x < y => Rank[list[x].path] < Rank[list[y].path]
      /\ \A x, y \in 1..Len(found) : x < y => Rank[found[x]] < Rank[found[y]]
    BY WalkingIs
<1>2. a \in 1..Len(found) + 1 /\ b \in 1..Len(list) + 1 /\ Shaped(list, ig)
      /\ WalkInv(disk, ig, list, entries, found, a, b)
    BY DEF Walking
<1>3. b \in 1..Len(list) /\ p \in Paths /\ (a <= Len(found) => a \in 1..Len(found))
    BY <1>1, <1>2
<1>4. ASSUME NEW y \in 1..Len(found), y >= a PROVE Rank[p] < Rank[found[y]]
    <2>1. a \in 1..Len(found) /\ (y = a \/ a < y) /\ Rank[p] < Rank[found[a]]
        BY <1>1, <1>3, <1>4
    <2>2. Rank[found[a]] \in Nat /\ Rank[found[y]] \in Nat /\ Rank[p] \in Nat
        BY <1>1, <1>3, <2>1, RankNat
    <2>3. a < y => Rank[found[a]] < Rank[found[y]]
        BY <1>1, <2>1
    <2> QED BY <2>1, <2>2, <2>3
<1>5. \A y \in 1..Len(found) : found[y] # p
    <2> TAKE y \in 1..Len(found)
    <2>1. CASE y < a
        <3>1. b >= b
            BY <1>1, <1>3
        <3> QED BY <1>2, <1>3, <2>1, <3>1 DEF WalkInv
    <2>2. CASE y >= a
        BY <1>3, <1>4, <2>2, RankNat
    <2> QED BY <1>1, <2>1, <2>2
<1>6. p \notin DOMAIN entries
    BY <1>1, <1>5
<1>7. \A x \in 1..Len(list) : x < b => list[x].path # p
    <2> TAKE x \in 1..Len(list)
    <2> HAVE x < b
    <2>1. Rank[list[x].path] < Rank[p]
        BY <1>1, <1>3
    <2>2. list[x].path \in Paths
        BY <1>1
    <2> QED BY <1>3, <2>1, <2>2, RankNat
<1>8. p \notin Listed(disk, ig)
    BY <1>2, <1>3, <1>6, <1>7 DEF WalkInv
<1>9. p \in Seen(ig)
    BY <1>2, <1>3 DEF Shaped
<1>10. p \notin DOMAIN disk
    BY <1>8, <1>9 DEF Listed, Seen
<1>11. \A x \in 1..Len(list) : x < b => list[x].path \in DOMAIN disk
    BY <1>2, <1>3 DEF WalkInv
<1>12. \A y \in Nat : ~(y >= a /\ y < a)
    BY <1>1
<1>13. Smaller(disk, disk) /\ a \in Nat /\ a <= a
    BY <1>1 DEF Smaller
<1> QED
    BY <1>4, <1>10, <1>11, <1>12, <1>13 DEF Passed

\* The entry at a has the path of the node at b: it is on the disk.
LEMMA SameAt ==
    ASSUME NEW disk, NEW ig, NEW list, NEW entries, NEW found, NEW a, NEW b,
           Walking(disk, ig, list, entries, found, a, b), b <= Len(list), a <= Len(found),
           found[a] = list[b].path
    PROVE  /\ found[a] \in DOMAIN disk /\ disk[found[a]].type = entries[found[a]].type
           /\ \A x \in 1..Len(list) : x < b => list[x].path # found[a] /\ list[x].path \notin Below(found[a])
           /\ \A y \in 1..Len(found) : y >= a + 1 => Rank[list[b].path] < Rank[found[y]]
           /\ \A x \in 1..Len(list) : x > b => list[x].path # found[a]
<1> DEFINE p == list[b].path
<1>1. /\ Len(found) \in Nat /\ Len(list) \in Nat /\ a \in Nat
      /\ \A y \in 1..Len(found) : found[y] \in Paths
      /\ \A x \in 1..Len(list) : list[x].path \in Paths
      /\ \A x, y \in 1..Len(list) : x < y => Rank[list[x].path] < Rank[list[y].path]
      /\ \A x, y \in 1..Len(found) : x < y => Rank[found[x]] < Rank[found[y]]
    BY WalkingIs
<1>2. a \in 1..Len(found) + 1 /\ b \in 1..Len(list) + 1 /\ Shaped(list, ig) /\ IsList(list)
      /\ WalkInv(disk, ig, list, entries, found, a, b)
    BY DEF Walking
<1>3. b \in 1..Len(list) /\ a \in 1..Len(found) /\ p \in Paths /\ found[a] = p
    BY <1>1, <1>2
<1>4. p \in DOMAIN disk /\ disk[p].type = entries[p].type
    <2>1. \A d \in Above[p] : \E x \in Dirs(list) : list[x].path = d
        BY <1>2, <1>3, NodesAbove
    <2>2. a >= a
        BY <1>3
    <2>3. \/ found[a] \in DOMAIN disk /\ disk[found[a]].type = entries[found[a]].type
          \/ \E d \in Above[found[a]] : \A x \in Dirs(list) : list[x].path # d
        BY <1>2, <1>3, <2>2 DEF WalkInv
    <2> HIDE DEF p
    <2> QED BY <1>3, <2>1, <2>3
<1>5. ASSUME NEW x \in 1..Len(list), x < b PROVE list[x].path # p /\ list[x].path \notin Below(p)
    <2>1. list[x].path \in Paths /\ Rank[list[x].path] < Rank[p]
        BY <1>1, <1>3, <1>5
    <2>2. p \in Above[list[x].path] => Rank[p] < Rank[list[x].path]
        BY <2>1, AboveOrder
    <2>3. list[x].path # p /\ p \notin Above[list[x].path]
        BY <1>3, <2>1, <2>2, RankNat
    <2> QED BY <2>3 DEF Below
<1>6. ASSUME NEW y \in 1..Len(found), y >= a + 1 PROVE Rank[p] < Rank[found[y]]
    <2>1. a < y
        BY <1>3, <1>6
    <2> QED BY <1>1, <1>3, <2>1
<1>7. ASSUME NEW x \in 1..Len(list), x > b PROVE list[x].path # p
    <2>1. list[x].path \in Paths /\ Rank[p] < Rank[list[x].path]
        BY <1>1, <1>3, <1>7
    <2> QED BY <1>3, <2>1, RankNat
<1> QED
    BY <1>3, <1>4, <1>5, <1>6, <1>7

\* It is of the same type: the walk goes on after both.
LEMMA UpdatePassed ==
    ASSUME NEW disk, NEW ig, NEW list, NEW entries, NEW found, NEW a, NEW b,
           Walking(disk, ig, list, entries, found, a, b), b <= Len(list), a <= Len(found),
           found[a] = list[b].path, entries[found[a]].type = list[b].type
    PROVE  /\ Passed(disk, disk, list, found, a, b, a + 1)
           /\ WalkInv(disk, ig, list, entries, found, a + 1, b + 1)
<1>1. /\ Len(found) \in Nat /\ Len(list) \in Nat /\ a \in Nat
    BY WalkingIs
<1>2. a \in 1..Len(found) + 1 /\ b \in 1..Len(list) + 1
      /\ WalkInv(disk, ig, list, entries, found, a, b)
    BY DEF Walking
<1>3. b \in 1..Len(list) /\ a \in 1..Len(found)
    BY <1>1, <1>2
<1>4. /\ found[a] \in DOMAIN disk /\ disk[found[a]].type = entries[found[a]].type
      /\ \A y \in 1..Len(found) : y >= a + 1 => Rank[list[b].path] < Rank[found[y]]
      /\ \A x \in 1..Len(list) : x > b => list[x].path # found[a]
    BY SameAt
<1>5. ASSUME NEW x \in 1..Len(list), NEW y \in 1..Len(found), x > b, y >= a, y < a + 1
      PROVE  list[x].path # found[y]
    <2>1. y = a
        BY <1>3, <1>5
    <2> QED BY <1>4, <1>5, <2>1
<1>6. \A x \in 1..Len(list) : x < b => list[x].path \in DOMAIN disk /\ disk[list[x].path].type = list[x].type
    BY <1>2, <1>3 DEF WalkInv
<1>7. Smaller(disk, disk) /\ a + 1 \in Nat /\ a <= a + 1
    BY <1>1 DEF Smaller
<1>8. Passed(disk, disk, list, found, a, b, a + 1)
    BY <1>4, <1>5, <1>6, <1>7 DEF Passed
<1>9. ASSUME NEW x \in 1..Len(list), NEW y \in 1..Len(found)
      PROVE  /\ x < b + 1 /\ y >= a + 1 => Rank[list[x].path] < Rank[found[y]]
             /\ x >= b + 1 /\ y < a + 1 => list[x].path # found[y]
    <2>1. /\ x < b /\ y >= a => Rank[list[x].path] < Rank[found[y]]
          /\ x >= b /\ y < a => list[x].path # found[y]
        BY <1>2 DEF WalkInv
    <2>2. (x < b + 1 => x < b \/ x = b) /\ (x >= b + 1 => x > b /\ x >= b)
          /\ (y >= a + 1 => y >= a) /\ (y < a + 1 => y < a \/ y = a)
        BY <1>3
    <2> QED BY <1>4, <2>1, <2>2
<1>10. ASSUME NEW x \in 1..Len(list), x < b + 1
       PROVE  list[x].path \in DOMAIN disk /\ disk[list[x].path].type = list[x].type
    <2>1. x < b \/ x = b
        BY <1>3, <1>10
    <2> QED BY <1>4, <1>6, <2>1
<1>11. ASSUME NEW y \in 1..Len(found), y >= a + 1
       PROVE  \/ found[y] \in DOMAIN disk /\ disk[found[y]].type = entries[found[y]].type
              \/ \E d \in Above[found[y]] : \A x \in Dirs(list) : list[x].path # d
    <2>1. y >= a
        BY <1>3, <1>11
    <2> QED BY <1>2, <1>3, <2>1 DEF WalkInv
<1>12. \A q \in Listed(disk, ig) :
          q \in DOMAIN entries \/ \E x \in 1..Len(list) : x < b + 1 /\ list[x].path = q
    <2>1. \A x \in 1..Len(list) : x < b => x < b + 1
        BY <1>3
    <2> QED BY <1>2, <1>3, <2>1 DEF WalkInv
<1>13. WalkInv(disk, ig, list, entries, found, a + 1, b + 1)
    BY <1>9, <1>10, <1>11, <1>12 DEF WalkInv
<1> QED
    BY <1>8, <1>13

\* It is of another type: it is removed, with what is below it.
LEMMA ReplacedPassed ==
    ASSUME NEW disk, NEW ig, NEW list, NEW entries, NEW found, NEW a, NEW b,
           Walking(disk, ig, list, entries, found, a, b), b <= Len(list), a <= Len(found),
           found[a] = list[b].path,
           NEW left, Smaller(disk, left), DOMAIN left = DOMAIN disk \ ({found[a]} \cup Below(found[a])),
           NEW a2 \in Nat, a + 1 <= a2,
           \A y \in 1..Len(found) : y > a /\ y < a2 => found[y] \in Below(found[a]),
           list[b].type # "dir" \/ (entries[found[a]].type # "dir" /\ a2 = a + 1)
    PROVE  Passed(disk, left, list, found, a, b, a2)
<1> DEFINE p == list[b].path
<1>1. /\ Len(found) \in Nat /\ Len(list) \in Nat /\ a \in Nat
      /\ \A y \in 1..Len(found) : found[y] \in Paths /\ found[y] \in DOMAIN entries
      /\ \A x \in 1..Len(list) : list[x].path \in Paths
      /\ \A x, y \in 1..Len(list) : list[x].path = list[y].path => x = y
      /\ \A x, y \in 1..Len(found) : x < y => Rank[found[x]] < Rank[found[y]]
    BY WalkingIs
<1>2. a \in 1..Len(found) + 1 /\ b \in 1..Len(list) + 1 /\ Shaped(list, ig) /\ IsList(list)
      /\ WalkInv(disk, ig, list, entries, found, a, b)
      /\ ScanShape(ig, entries) /\ DOMAIN entries \subseteq Paths
    BY DEF Walking
<1>3. b \in 1..Len(list) /\ a \in 1..Len(found) /\ found[a] = p
    BY <1>1, <1>2
<1>4. /\ \A x \in 1..Len(list) : x < b => list[x].path # p /\ list[x].path \notin Below(p)
      /\ \A y \in 1..Len(found) : y >= a + 1 => Rank[p] < Rank[found[y]]
      /\ \A x \in 1..Len(list) : x > b => list[x].path # p
    BY SameAt
<1>5. ASSUME list[b].type # "dir" PROVE \A x \in Dirs(list) : list[x].path # p
    BY <1>1, <1>3, <1>5 DEF Dirs
<1>6. ASSUME NEW y \in 1..Len(found), y >= a2 PROVE Rank[p] < Rank[found[y]]
    <2>1. y >= a + 1
        BY <1>1, <1>6
    <2> QED BY <1>4, <2>1
<1>7. ASSUME NEW x \in 1..Len(list), NEW y \in 1..Len(found), x > b, y >= a, y < a2
      PROVE  list[x].path # found[y]
    <2>1. CASE y = a
        BY <1>3, <1>4, <1>7, <2>1
    <2>2. CASE y # a
        <3>1. y > a /\ list[b].type # "dir"
            BY <1>1, <1>3, <1>7, <2>2
        <3>2. found[y] \in Below(p)
            BY <1>3, <1>7, <3>1
        <3>3. SUFFICES ASSUME list[x].path = found[y] PROVE FALSE
            OBVIOUS
        <3>4. p \in Above[list[x].path]
            BY <3>2, <3>3 DEF Below
        <3>5. \E z \in Dirs(list) : list[z].path = p
            <4> HIDE DEF p
            <4> QED BY <1>2, <3>4, NodesAbove
        <3> QED BY <1>5, <3>1, <3>5
    <2> QED BY <2>1, <2>2
<1>8. \A x \in 1..Len(list) : x < b => list[x].path \in DOMAIN left
    <2>1. \A x \in 1..Len(list) : x < b => list[x].path \in DOMAIN disk
        BY <1>2, <1>3 DEF WalkInv
    <2> QED BY <1>3, <1>4, <2>1
<1>9. ASSUME NEW y \in 1..Len(found), y >= a2, found[y] \in DOMAIN disk, found[y] \notin DOMAIN left
      PROVE  \E d \in Above[found[y]] : \A x \in Dirs(list) : list[x].path # d
    <2>1. found[y] \in {p} \cup Below(p)
        BY <1>3, <1>9
    <2>2. Rank[p] < Rank[found[y]] /\ p \in Paths
        BY <1>1, <1>3, <1>6, <1>9
    <2>3. found[y] # p
        BY <2>2, RankNat
    <2>4. p \in Above[found[y]]
        BY <2>1, <2>3 DEF Below
    <2>5. list[b].type # "dir"
        <3>1. entries[p].type = "dir"
            BY <1>1, <1>2, <2>4, ScanAbove
        <3> QED BY <1>3, <3>1
    <2> HIDE DEF p
    <2> QED BY <1>5, <2>4, <2>5
<1>10. a <= a2
    BY <1>1
<1> QED
    BY <1>6, <1>7, <1>8, <1>9, <1>10 DEF Passed

-----------------------------------------------------------------------------
(* A turn that makes a node, and the end of the walk. *)

LEMMA PlaceWalks ==
    ASSUME clock \in Nat, NEW disk, IsWorkspace(disk), NEW left, IsWorkspace(left),
           Dated(left, clock + 1), DirAged(disk, left, clock + 1),
           NEW ig, NEW list, IsTimedList(list, clock), NEW entries, NEW found, NEW a, NEW b,
           Walking(disk, ig, list, entries, found, a, b), b <= Len(list),
           TreeInv(disk, ig, list, b),
           NEW a2, Passed(disk, left, list, found, a, b, a2),
           Clear(left, list[b]), list[b].type = "dir" => list[b].path \notin DOMAIN left,
           NEW new, new = CheckoutNode(left, list[b]),
           NEW next, next = [list EXCEPT ![b].time = new[Real(left, list[b].path)].time]
    PROVE  TreeInv(new, ig, next, b + 1) /\ SameLines(list, next)
           /\ WalkInv(new, ig, next, entries, found, a2, b + 1)
<1> DEFINE p == list[b].path
<1>1. Len(list) \in Nat /\ b \in 1..Len(list) + 1 /\ IsList(list) /\ Shaped(list, ig)
      /\ WalkInv(disk, ig, list, entries, found, a, b)
    BY WalkingIs DEF Walking
<1>2. b \in 1..Len(list) /\ IsNode(list[b]) /\ p \in Paths
    BY <1>1 DEF IsTimedList, IsNode
<1>3. \A x \in 1..Len(list) : x < b => list[x].path \in DOMAIN disk /\ disk[list[x].path].type = list[x].type
    BY <1>1, <1>2 DEF WalkInv
<1>4. Canonical(left, p)
    <2>1. Canonical(disk, p)
        BY <1>1, <1>2, <1>3, NodePlain
    <2> QED BY <2>1, CanonicalSmaller DEF Passed
<1>5. Real(left, p) = p
    BY <1>2, <1>4, RealPlain DEF IsWorkspace
<1>6. /\ DOMAIN new = DOMAIN left \cup {p} /\ IsAt(new, p, list[b].type, clock + 1)
      /\ KeptBut(left, new, p)
    <2>1. LET made == CheckoutNode(left, list[b])
              q == Real(left, list[b].path)
          IN  /\ DOMAIN made = DOMAIN left \cup {q}
              /\ list[b].type # "dir" \/ q \notin DOMAIN left => IsAt(made, q, list[b].type, clock + 1)
              /\ KeptBut(left, made, q)
        BY <1>2, CheckoutNodeDir
    <2> QED BY <1>5, <2>1
<1>7. next = [list EXCEPT ![b].time = clock + 1] /\ new[p].time = clock + 1 /\ new[p].type = list[b].type
    BY <1>5, <1>6 DEF IsAt
<1>8. Retimed(list, next, b, clock + 1)
    <2>1. IsTimedList(list, clock + 1)
        <3>1. clock + 1 \in Nat /\ clock <= clock + 1
            OBVIOUS
        <3> QED BY <3>1, LaterList
    <2>2. clock + 1 \in Nat /\ clock + 1 \in 0..clock + 1
        OBVIOUS
    <2>3. PICK u : u = clock + 1
        OBVIOUS
    <2>4. u \in Nat /\ u \in 0..u /\ IsTimedList(list, u) /\ next = [list EXCEPT ![b].time = u]
        BY <1>7, <2>1, <2>2, <2>3
    <2>5. Retimed(list, [list EXCEPT ![b].time = u], b, u)
        BY <1>2, <2>4, RetimedIs
    <2> QED BY <2>3, <2>4, <2>5
<1>9. SameLines(list, next)
    BY <1>8 DEF Retimed
<1>10. TreeInv(new, ig, next, b + 1)
    <2>1. Retimed(list, next, b, new[list[b].path].time) /\ Canonical(left, list[b].path)
        BY <1>4, <1>7, <1>8
    <2> HIDE DEF p
    <2> QED BY <1>2, <2>1, PlacedTree
<1>11. WalkInv(new, ig, next, entries, found, a2, b + 1)
    <2>1. /\ Smaller(disk, left) /\ a2 \in Nat /\ a <= a2
          /\ \A y \in 1..Len(found) : y >= a2 => Rank[list[b].path] < Rank[found[y]]
          /\ \A x \in 1..Len(list), y \in 1..Len(found) : x > b /\ y >= a /\ y < a2 => list[x].path # found[y]
          /\ \A x \in 1..Len(list) : x < b => list[x].path \in DOMAIN left
          /\ \A y \in 1..Len(found) :
                y >= a2 => \/ found[y] \in DOMAIN disk => found[y] \in DOMAIN left
                           \/ \E d \in Above[found[y]] : \A x \in Dirs(list) : list[x].path # d
        BY DEF Passed
    <2> QED BY <1>6, <1>7, <1>9, <2>1, PlacedWalk
<1> QED
    BY <1>9, <1>10, <1>11

\* What the invariant says of a node that is on the disk.
LEMMA TreeForth ==
    ASSUME NEW disk, NEW ig, NEW list, IsList(list), NEW b \in 1..Len(list), TreeInv(disk, ig, list, b),
           list[b].path \in DOMAIN disk
    PROVE  TreeInv(disk, ig, list, b + 1)
<1>1. Len(list) \in Nat
    BY OrderedIs
<1>2. \A d : \A y \in Within(list, d) : y >= b => y >= b + 1 \/ y = b
    BY <1>1 DEF Within
<1>3. Shaped(list, ig)
    BY DEF TreeInv
<1>4. ASSUME NEW x \in Dirs(list), Current(disk, list[x])
      PROVE  /\ EntriesOf(disk, ig, list[x].path) \subseteq Kids(list, list[x].path)
             /\ \A y \in Within(list, list[x].path) : list[y].path \in DOMAIN disk \/ y >= b + 1
    <2>1. /\ EntriesOf(disk, ig, list[x].path) \subseteq Kids(list, list[x].path)
          /\ \A y \in Within(list, list[x].path) : list[y].path \in DOMAIN disk \/ y >= b
        BY <1>4 DEF TreeInv
    <2> QED BY <1>2, <2>1
<1>5. \A x \in Dirs(list) : list[x].hash = TreeOf(list, list[x].path)
    BY DEF TreeInv
<1> QED
    BY <1>3, <1>4, <1>5 DEF TreeInv

LEMMA TreeBack ==
    ASSUME NEW disk, NEW ig, NEW list, IsList(list), TreeInv(disk, ig, list, Len(list) + 1)
    PROVE  TreeInv(disk, ig, list, 1)
<1>1. Len(list) \in Nat
    BY OrderedIs
<1>2. \A d : \A y \in Within(list, d) : y >= 1
    BY <1>1 DEF Within
<1>3. Shaped(list, ig)
    BY DEF TreeInv
<1>4. ASSUME NEW x \in Dirs(list), Current(disk, list[x])
      PROVE  /\ EntriesOf(disk, ig, list[x].path) \subseteq Kids(list, list[x].path)
             /\ \A y \in Within(list, list[x].path) : list[y].path \in DOMAIN disk \/ y >= 1
    <2>1. EntriesOf(disk, ig, list[x].path) \subseteq Kids(list, list[x].path)
        BY <1>4 DEF TreeInv
    <2> QED BY <1>2, <2>1
<1>5. \A x \in Dirs(list) : list[x].hash = TreeOf(list, list[x].path)
    BY DEF TreeInv
<1> QED
    BY <1>3, <1>4, <1>5 DEF TreeInv

\* What a checkout saves.
LEMMA CheckedIndex ==
    ASSUME NEW disk, NEW ig, NEW list, IsList(list), Typed(list), TreeInv(disk, ig, list, Len(list) + 1)
    PROVE  /\ IndexInv(disk, ig, list)
           /\ \A x \in Dirs(list) : list[x].hash # NoHash
<1>1. Len(list) \in Nat /\ Shaped(list, ig) /\ Ordered(list)
    BY OrderedIs DEF TreeInv, Shaped
<1>2. ASSUME NEW x \in Dirs(list)
      PROVE  /\ list[x].hash = TreeOf(list, list[x].path)
             /\ list[x].hash # NoHash
             /\ Held(list[x].hash, list[x].path) = Kids(list, list[x].path)
             /\ Current(disk, list[x]) => EntriesOf(disk, ig, list[x].path) = Kids(list, list[x].path)
    <2>1. list[x].hash = TreeOf(list, list[x].path)
        BY DEF TreeInv
    <2> DEFINE d == list[x].path
    <2>2. TreeOf(list, d) # NoHash /\ Held(TreeOf(list, d), d) = Kids(list, d)
        <3> HIDE DEF d
        <3> QED BY <1>1, TreeLines DEF Typed
    <2>3. ASSUME Current(disk, list[x]), NEW q \in Kids(list, d) PROVE q \in EntriesOf(disk, ig, d)
        <3>1. PICK y \in Within(list, d) : q = list[y].path
            BY <2>3 DEF Kids
        <3>2. y \in 1..Len(list) /\ Parent[q] = d
            BY <3>1 DEF Within
        <3>3. list[y].path \in DOMAIN disk \/ y >= Len(list) + 1
            BY <2>3, <3>1 DEF TreeInv
        <3>4. q \in DOMAIN disk
            BY <1>1, <3>1, <3>2, <3>3
        <3>5. q \in Seen(ig)
            BY <1>1, <3>1, <3>2 DEF Shaped
        <3> QED BY <3>2, <3>4, <3>5 DEF EntriesOf, Listed, Seen
    <2>4. Current(disk, list[x]) => EntriesOf(disk, ig, d) \subseteq Kids(list, d)
        BY DEF TreeInv
    <2> QED BY <2>1, <2>2, <2>3, <2>4
<1> QED
    BY <1>1, <1>2 DEF IndexInv

\* The walk begins.
LEMMA StartWalks ==
    ASSUME NEW disk, IsWorkspace(disk), NEW ig, NEW entries, DOMAIN entries \subseteq Paths,
           ScanTyped(disk, ig, entries, {}), NEW list, IsList(list),
           NEW found, found = Sorted(DOMAIN entries)
    PROVE  WalkInv(disk, ig, list, entries, found, 1, 1)
<1>1. IsSortedList(found, DOMAIN entries)
    BY SortedTheorem
<1>2. Len(found) \in Nat /\ Len(list) \in Nat /\ \A y \in 1..Len(found) : found[y] \in DOMAIN entries
    BY <1>1, OrderedIs DEF IsSortedList
<1>3. Listed(disk, ig) \subseteq DOMAIN entries
    BY ScanWhole
<1>4. \A p \in DOMAIN entries : p \in DOMAIN disk /\ entries[p].type = disk[p].type
    BY DEF ScanTyped
<1>5. \A x \in 1..Len(list) : ~(x < 1)
    BY <1>2
<1>6. \A y \in 1..Len(found) : ~(y < 1)
    BY <1>2
<1> QED
    BY <1>2, <1>3, <1>4, <1>5, <1>6 DEF WalkInv

\* The nodes are all made: what is left of the scan is removed.
LEMMA RestWalks ==
    ASSUME NEW disk, NEW new, NEW ig, NEW list, IsList(list), NEW entries, NEW found, Len(found) \in Nat,
           NEW a \in Nat, NEW b \in Nat, b > Len(list), WalkInv(disk, ig, list, entries, found, a, b)
    PROVE  WalkInv(new, ig, list, entries, found, a + 1, b)
<1>1. Len(list) \in Nat
    BY OrderedIs
<1>2. ~(b <= Len(list)) /\ \A x \in 1..Len(list) : ~(x >= b)
    BY <1>1
<1>3. \A y \in 1..Len(found) : y >= a + 1 => y >= a
    OBVIOUS
<1> QED
    BY <1>2, <1>3 DEF WalkInv

-----------------------------------------------------------------------------
(* The invariant for WrittenIsSnapshot. *)

\* The directories of the scan that were not read yet.
Unread == IF pc = "scan" THEN todo ELSE {}

CommandInv ==
    /\ pc \in Idle => scan = <<>> /\ nodes = <<>>
    /\ pc \in {"add", "trees"} => cmd = "write"
    /\ pc = "walk" => cmd = "checkout"
    /\ pc \in {"scan", "save"} => cmd \in {"write", "checkout"}
    /\ pc = "scan" /\ cmd = "write" => nodes = saved
    /\ pc = "add" => \A p \in todo : scan[p].type = "file"

ScanInv ==
    /\ pc = "scan" => ScanTodo(scan, todo)
    /\ ScanShape(ignored, scan)
    /\ ScanTrue(ws, ignored, scan, Unread)
    /\ cmd = "write" /\ quiet /\ pc \notin Idle => ScanExact(ws, ignored, scan, Unread)
    /\ cmd = "checkout" /\ pc = "scan" => ScanTyped(ws, ignored, scan, todo)

\* write-tree, from refresh to save.
WriteInv ==
    cmd = "write" /\ pc \in {"add", "trees", "save"} =>
        LET hash == Clean(scan, saved) IN
        /\ OfScan(nodes, scan) /\ FilesKept(nodes, hash)
        /\ pc = "add" => DirsKept(nodes, hash)
        /\ pc = "trees" => DirsWritten(nodes, hash, todo)
        /\ pc = "save" => DirsWritten(nodes, hash, {}) /\ root = TreeOf(nodes, Root)

CheckoutInv ==
    /\ cmd = "checkout" /\ pc \in {"scan", "save"} => TreeInv(ws, ignored, nodes, Len(nodes) + 1)
    /\ pc = "walk" =>
          /\ TreeInv(ws, ignored, nodes, j)
          /\ WalkInv(ws, ignored, nodes, scan, Sorted(DOMAIN scan), i, j)

ForestOf(F) ==
    /\ IsForest(ignored, F)
    /\ \A t \in known : <<Root, t>> \in F
    /\ Formed(F, saved) /\ Formed(F, nodes)
    /\ cmd = "checkout" \/ pc = "save" => <<Root, root>> \in F

SnapInv ==
    /\ CommandInv /\ ScanInv /\ WriteInv /\ CheckoutInv
    /\ IndexInv(ws, ignored, saved)
    /\ \E F : ForestOf(F)
    /\ WrittenIsSnapshot

LEMMA EmptyScan ==
    ASSUME NEW disk, NEW ig, NEW unread, NEW F
    PROVE  ScanShape(ig, <<>>) /\ ScanTrue(disk, ig, <<>>, unread) /\ Formed(F, <<>>)
<1>1. DOMAIN <<>> = {} /\ Len(<<>>) = 0
    OBVIOUS
<1>2. ScanShape(ig, <<>>) /\ ScanTrue(disk, ig, <<>>, unread)
    BY <1>1 DEF ScanShape, ScanTrue
<1>3. Formed(F, <<>>)
    <2>1. PICK list : list = <<>> /\ \A x \in 1..Len(list) : FALSE
        BY <1>1
    <2>2. Formed(F, list)
        BY <2>1 DEF Formed
    <2> QED BY <2>1, <2>2
<1> QED
    BY <1>2, <1>3

\* The index on a disk that has changed.
LEMMA SavedAged ==
    ASSUME Inv, Inv', SnapInv, DirAged(ws, ws', clock + 1), UNCHANGED <<ignored, saved>>
    PROVE  IndexInv(ws', ignored', saved')
<1>1. /\ clock \in Nat /\ IsTimedList(saved, clock)
      /\ DOMAIN ws \subseteq Paths /\ DOMAIN ws' \subseteq Paths
    BY DEF Inv, DataInv, IsWorkspace
<1>2. \A x \in Dirs(saved) : saved[x].time # clock + 1
    <2> TAKE x \in Dirs(saved)
    <2>1. saved[x].time \in 0..clock
        BY <1>1 DEF Dirs, IsTimedList
    <2> QED BY <1>1, <2>1
<1>3. PICK t : t = clock + 1
    OBVIOUS
<1>4. IndexInv(ws, ignored, saved)
    BY DEF SnapInv
<1>5. IndexInv(ws', ignored, saved)
    BY <1>1, <1>2, <1>3, <1>4, IndexInvAged
<1> QED
    BY <1>5

LEMMA SnapFail ==
    ASSUME Inv, Inv', SnapInv, DirAged(ws, ws', clock + 1), Fail, UNCHANGED <<ignored, saved, mixed, known>>
    PROVE  SnapInv'
<1>1. /\ pc' = "idle" /\ cmd' = "none" /\ scan' = <<>> /\ nodes' = <<>> /\ pc' \in Idle
    BY DEF Fail, Forget, Idle
<1>2. CommandInv'
    BY <1>1 DEF CommandInv
<1>3. ScanInv'
    BY <1>1, EmptyScan DEF ScanInv
<1>4. WriteInv' /\ CheckoutInv' /\ WrittenIsSnapshot'
    BY <1>1 DEF WriteInv, CheckoutInv, WrittenIsSnapshot
<1>5. IndexInv(ws', ignored', saved')
    BY SavedAged
<1>6. PICK F : ForestOf(F)
    BY DEF SnapInv
<1>7. ForestOf(F)'
    BY <1>1, <1>6, EmptyScan DEF ForestOf
<1> QED
    BY <1>2, <1>3, <1>4, <1>5, <1>7 DEF SnapInv

\* The user edits while a command runs, or nothing of this changes.
LEMMA SnapSame ==
    ASSUME Inv, Inv', SnapInv, DirAged(ws, ws', clock + 1),
           UNCHANGED <<ignored, saved, mixed, known, cmd, pc, scan, todo, nodes, root, i, j>>,
           \/ ws' = ws /\ quiet' = quiet
           \/ quiet' = FALSE /\ (cmd = "checkout" => SameShape(ws, ws'))
    PROVE  SnapInv'
<1>1. /\ clock \in Nat /\ IsTimedList(nodes, clock) /\ IsTimedScan(scan, clock) /\ IsList(nodes)
      /\ DOMAIN ws \subseteq Paths /\ DOMAIN ws' \subseteq Paths
    BY ListOfTimed DEF Inv, DataInv, IsWorkspace
<1>2. /\ \A x \in Dirs(nodes) : nodes[x].time # clock + 1
      /\ \A p \in DOMAIN scan : scan[p].time # clock + 1
    <2>1. \A x \in Dirs(nodes) : nodes[x].time \in 0..clock
        BY <1>1 DEF Dirs, IsTimedList
    <2>2. \A p \in DOMAIN scan : scan[p].time \in 1..clock
        BY <1>1 DEF IsTimedScan, Dated
    <2>3. clock + 1 \notin 0..clock /\ clock + 1 \notin 1..clock
        BY <1>1
    <2> QED BY <2>1, <2>2, <2>3
<1>3. PICK t : t = clock + 1
    OBVIOUS
<1>4. DirAged(ws, ws', t)
    BY <1>3
<1>5. CommandInv'
    BY DEF SnapInv, CommandInv
<1>6. ScanTrue(ws', ignored, scan, Unread)
    BY <1>1, <1>2, <1>3, <1>4, ScanTrueAged DEF SnapInv, ScanInv
<1>7. cmd = "checkout" => SameShape(ws, ws')
    BY DirAgedSame
<1>8. ScanInv'
    <2>1. /\ pc = "scan" => ScanTodo(scan, todo)
          /\ ScanShape(ignored, scan)
          /\ cmd = "write" /\ quiet /\ pc \notin Idle => ScanExact(ws, ignored, scan, Unread)
          /\ cmd = "checkout" /\ pc = "scan" => ScanTyped(ws, ignored, scan, todo)
        BY DEF SnapInv, ScanInv
    <2>2. cmd = "checkout" /\ pc = "scan" => ScanTyped(ws', ignored, scan, todo)
        BY <1>7, <2>1, ScanTypedShape
    <2>3. quiet' => ws' = ws /\ quiet
        OBVIOUS
    <2>4. Unread' = Unread
        BY DEF Unread
    <2> QED BY <1>6, <2>1, <2>2, <2>3, <2>4 DEF ScanInv
<1>9. WriteInv'
    BY DEF SnapInv, WriteInv
<1>10. CheckoutInv'
    <2>1. CheckoutInv /\ (pc = "walk" => cmd = "checkout")
        BY DEF SnapInv, CommandInv
    <2>2. \A from : TreeInv(ws, ignored, nodes, from) => TreeInv(ws', ignored, nodes, from)
        BY <1>1, <1>2, <1>3, <1>4, TreeInvAged
    <2>3. pc = "walk" => WalkInv(ws', ignored, nodes, scan, Sorted(DOMAIN scan), i, j)
        BY <1>7, <2>1, WalkShape DEF CheckoutInv
    <2> QED BY <2>1, <2>2, <2>3 DEF CheckoutInv
<1>11. IndexInv(ws', ignored', saved')
    BY SavedAged
<1>12. \E F : ForestOf(F)'
    <2>1. PICK F : ForestOf(F)
        BY DEF SnapInv
    <2> QED BY <2>1 DEF ForestOf
<1>13. WrittenIsSnapshot'
    BY DEF SnapInv, WrittenIsSnapshot, Unmixed
<1> QED
    BY <1>5, <1>8, <1>9, <1>10, <1>11, <1>12, <1>13 DEF SnapInv

-----------------------------------------------------------------------------
(* The steps of the environment and SnapInv. *)

LEMMA SnapKill == ASSUME Inv, Inv', SnapInv, Kill PROVE SnapInv'
<1>1. Fail /\ UNCHANGED <<ws, ignored, clock, saved, mixed, known>>
    BY DEF Kill, cacheVars
<1>2. DirAged(ws, ws, clock + 1)
    BY DirAgedSame
<1> QED
    BY <1>1, <1>2, SnapFail

LEMMA SnapUnchanged ==
    ASSUME Inv, Inv', SnapInv,
           UNCHANGED <<ws, quiet, ignored, saved, mixed, known, cmd, pc, scan, todo, nodes, root, i, j>>
    PROVE  SnapInv'
<1>1. DirAged(ws, ws, clock + 1)
    BY DirAgedSame
<1>2. DirAged(ws, ws', clock + 1)
    BY <1>1
<1> QED
    BY <1>2, SnapSame

LEMMA SnapEvict == ASSUME Inv, Inv', SnapInv, Evict PROVE SnapInv'
BY SnapUnchanged DEF Evict, userVars

LEMMA SnapEdited ==
    ASSUME Inv, Inv', SnapInv, NEW disk, Edited(disk), DirAged(ws, disk, clock + 1),
           (pc \in Idle \/ cmd = "write") \/ SameShape(ws, disk)
    PROVE  SnapInv'
<1>1. /\ ws' = disk /\ UNCHANGED <<ignored, saved, mixed, known>>
    BY DEF Edited, cacheVars
<1>2. CASE pc \in Idle
    <2>1. Fail
        BY <1>2 DEF Edited
    <2> QED BY <1>1, <2>1, SnapFail
<1>3. CASE pc \notin Idle
    <2>1. quiet' = FALSE /\ UNCHANGED <<cmd, pc, scan, todo, nodes, root, exn, i, j>>
        BY <1>3 DEF Edited
    <2>2. cmd = "checkout" => SameShape(ws, ws')
        BY <1>1, <1>3
    <2> QED BY <1>1, <2>1, <2>2, SnapSame
<1> QED
    BY <1>2, <1>3

LEMMA SnapWriteFile == ASSUME Inv, Inv', SnapInv, NEW p, WriteFile(p) PROVE SnapInv'
<1>1. PICK s \in Shapes[p] :
        /\ p \in DOMAIN ws /\ ws[p].type = "file"
        /\ Edited([ws EXCEPT ![p].data = s.data, ![p].time = clock + 1])
    BY DEF WriteFile
<1>2. PICK t : t = clock + 1
    OBVIOUS
<1>3. PICK c : c = s.data
    OBVIOUS
<1> DEFINE disk == [ws EXCEPT ![p].data = c, ![p].time = t]
<1>4. IsWorkspace(ws)
    BY DEF Inv, DataInv
<1>5. SameShape(ws, disk) /\ DirAged(ws, disk, t)
    BY <1>1, <1>4, WriteFileDir
<1>6. Edited(disk)
    BY <1>1, <1>2, <1>3
<1> HIDE DEF disk
<1> QED
    BY <1>2, <1>5, <1>6, SnapEdited

LEMMA SnapChmod == ASSUME Inv, Inv', SnapInv, NEW p, Chmod(p) PROVE SnapInv'
<1>1. PICK s \in Shapes[p] : p \in DOMAIN ws /\ Edited([ws EXCEPT ![p].mode = s.mode])
    BY DEF Chmod
<1>2. PICK disk : disk = WithMode(ws, p, s.mode)
    OBVIOUS
<1>3. Edited(disk)
    BY <1>1, <1>2 DEF WithMode
<1>4. clock \in Nat /\ IsWorkspace(ws) /\ Dated(ws, clock + 1)
    BY DEF Inv, DataInv, Dated
<1>5. SameShape(ws, disk) /\ DirAged(ws, disk, clock + 1)
    BY <1>2, <1>4, ModeDir
<1> QED
    BY <1>3, <1>5, SnapEdited

LEMMA SnapCreate == ASSUME Inv, Inv', SnapInv, NEW p \in DOMAIN Shapes, Create(p) PROVE SnapInv'
<1>1. PICK s \in Shapes[p] :
        /\ pc \in Idle \/ cmd = "write"
        /\ Edited(Touched(Put(ws, p, [type |-> s.type, data |-> s.data, mode |-> s.mode,
                                      time |-> clock + 1]),
                          Parent[p], clock + 1))
    BY DEF Create
<1>2. PICK t : t = clock + 1
    OBVIOUS
<1> DEFINE e == [type |-> s.type, data |-> s.data, mode |-> s.mode, time |-> t]
<1>3. p \in Paths /\ s.type \in {"file", "dir", "link"}
    BY WorkspaceAssumption
<1>4. IsEntry(e) /\ e.time = t
    BY <1>3 DEF IsEntry
<1>5. PICK disk : disk = Touched(Put(ws, p, e), Parent[p], t)
    OBVIOUS
<1>6. Edited(disk)
    BY <1>1, <1>2, <1>5
<1>7. \A q \in DOMAIN ws : IsEntry(ws[q])
    BY DEF Inv, DataInv, IsWorkspace
<1> HIDE DEF e
<1>8. DirAged(ws, disk, t)
    BY <1>3, <1>4, <1>5, <1>7, PutDir
<1> QED
    BY <1>1, <1>2, <1>6, <1>8, SnapEdited

LEMMA SnapDelete == ASSUME Inv, Inv', SnapInv, NEW p, Delete(p) PROVE SnapInv'
<1>1. /\ pc \in Idle \/ cmd = "write"
      /\ Edited(Touched([q \in DOMAIN ws \ {p} |-> ws[q]], Parent[p], clock + 1))
    BY DEF Delete
<1>2. PICK t : t = clock + 1
    OBVIOUS
<1>3. PICK P : P = {p}
    OBVIOUS
<1>4. PICK disk : disk = Touched([q \in DOMAIN ws \ P |-> ws[q]], Parent[p], t)
    OBVIOUS
<1>5. Edited(disk)
    BY <1>1, <1>2, <1>3, <1>4
<1>6. \A q \in DOMAIN ws : IsEntry(ws[q])
    BY DEF Inv, DataInv, IsWorkspace
<1>7. \A r \in DOMAIN ws \cap P : r = p \/ Parent[r] \in P
    BY <1>3
<1>8. DirAged(ws, disk, t)
    BY <1>4, <1>6, <1>7, LessDir
<1> QED
    BY <1>1, <1>2, <1>5, <1>8, SnapEdited

LEMMA SnapStartWrite == ASSUME Inv, Inv', SnapInv, StartWrite, ignored' = ignored PROVE SnapInv'
<1>1. /\ nodes' = saved /\ scan' = <<>> /\ todo' = {Root}
      /\ cmd' = "write" /\ pc' = "scan" /\ pc' \notin Idle
      /\ UNCHANGED <<ws, ignored, saved, mixed, known>>
    BY DEF StartWrite, cacheVars, Idle
<1>2. CommandInv'
    BY <1>1 DEF CommandInv
<1>3. PICK entries : entries = <<>> /\ DOMAIN entries = {}
    OBVIOUS
<1>4. Unread' = {Root}
    BY <1>1 DEF Unread
<1>5. ScanTodo(entries, {Root}) /\ ScanExact(ws, ignored, entries, {Root})
    BY <1>3 DEF ScanTodo, ScanExact
<1>6. ScanInv'
    BY <1>1, <1>3, <1>4, <1>5, EmptyScan DEF ScanInv
<1>7. WriteInv' /\ CheckoutInv' /\ WrittenIsSnapshot'
    BY <1>1 DEF WriteInv, CheckoutInv, WrittenIsSnapshot
<1>8. PICK F : ForestOf(F)
    BY DEF SnapInv
<1>9. ForestOf(F)'
    BY <1>1, <1>8 DEF ForestOf
<1> QED
    BY <1>1, <1>2, <1>6, <1>7, <1>9 DEF SnapInv

LEMMA SnapReadDirectory == ASSUME Inv, Inv', SnapInv, NEW d, ReadDirectory(d) PROVE SnapInv'
<1>1. pc = "scan" /\ d \in todo /\ UNCHANGED <<ws, ignored, saved, mixed, known>>
    BY DEF ReadDirectory, cacheVars
<1>2. CASE Fail
    <2>1. DirAged(ws, ws, clock + 1)
        BY DirAgedSame
    <2> QED BY <1>1, <1>2, <2>1, SnapFail
<1>3. CASE ~Fail
    <2>1. PICK found : found = Found(ws, ignored, d)
        OBVIOUS
    <2>2. /\ scan' = Extended(ws, scan, found) /\ todo' = Left(ws, todo, d, found)
          /\ UNCHANGED <<quiet, cmd, pc, nodes, root, exn, i, j>>
        BY <1>3, <2>1 DEF ReadDirectory, Extended, Left, Found
    <2>3. DOMAIN ws \subseteq Paths /\ DOMAIN scan \subseteq Paths
        BY DEF Inv, DataInv, IsWorkspace, IsTimedScan
    <2>4. Unread = todo /\ Unread' = todo'
        BY <1>1, <2>2 DEF Unread
    <2>5. ScanInv /\ ScanTodo(scan, todo) /\ ScanShape(ignored, scan)
        BY <1>1 DEF SnapInv, ScanInv
    <2>6. /\ ScanShape(ignored, scan') /\ ScanTodo(scan', todo')
          /\ ScanTrue(ws, ignored, scan, todo) => ScanTrue(ws, ignored, scan', todo')
          /\ ScanExact(ws, ignored, scan, todo) => ScanExact(ws, ignored, scan', todo')
          /\ ScanTyped(ws, ignored, scan, todo) => ScanTyped(ws, ignored, scan', todo')
        BY <1>1, <2>1, <2>2, <2>3, <2>5, ReadIs
    <2>7. ScanInv'
        BY <1>1, <2>2, <2>4, <2>5, <2>6 DEF ScanInv
    <2>8. CommandInv' /\ WriteInv' /\ CheckoutInv' /\ WrittenIsSnapshot'
        <3>1. CommandInv /\ CheckoutInv
            BY DEF SnapInv
        <3>2. pc' = "scan" /\ pc' \notin Idle
            BY <1>1, <2>2 DEF Idle
        <3> QED BY <1>1, <2>2, <3>1, <3>2 DEF CommandInv, WriteInv, CheckoutInv, WrittenIsSnapshot
    <2>9. PICK F : ForestOf(F)
        BY DEF SnapInv
    <2>10. ForestOf(F)'
        BY <1>1, <2>2, <2>9 DEF ForestOf
    <2>11. IndexInv(ws', ignored', saved')
        BY <1>1 DEF SnapInv
    <2> QED BY <2>7, <2>8, <2>10, <2>11 DEF SnapInv
<1> QED
    BY <1>2, <1>3

-----------------------------------------------------------------------------
(* The steps of write-tree and SnapInv. *)

\* What the steps of write-tree know.
LEMMA WritingIs ==
    ASSUME Inv, SnapInv
    PROVE  /\ clock \in Nat /\ IsWorkspace(ws) /\ DOMAIN ws \subseteq Paths
           /\ DOMAIN scan \subseteq Paths /\ \A q \in DOMAIN scan : IsEntry(scan[q])
           /\ ScanShape(ignored, scan) /\ ScanTrue(ws, ignored, scan, Unread)
           /\ IsList(saved) /\ Ordered(saved) /\ IndexInv(ws, ignored, saved)
           /\ IsList(nodes) /\ Len(nodes) \in Nat /\ DOMAIN nodes = 1..Len(nodes)
           /\ IsTimedList(nodes, clock)
           /\ \A x \in 1..Len(nodes) : IsNode(nodes[x])
<1>1. IsTimedList(saved, clock) /\ IsTimedList(nodes, clock) /\ clock \in Nat /\ IsWorkspace(ws)
      /\ IsTimedScan(scan, clock)
    BY DEF Inv, DataInv
<1>2. ScanShape(ignored, scan) /\ ScanTrue(ws, ignored, scan, Unread) /\ IndexInv(ws, ignored, saved)
    BY DEF SnapInv, ScanInv
<1>3. Ordered(saved)
    BY <1>2 DEF IndexInv, Shaped
<1>4. IsList(saved) /\ IsList(nodes) /\ Len(nodes) \in Nat /\ DOMAIN nodes = 1..Len(nodes)
    BY <1>1, ListOfTimed
<1>5. DOMAIN ws \subseteq Paths /\ DOMAIN scan \subseteq Paths /\ \A q \in DOMAIN scan : IsEntry(scan[q])
    BY <1>1 DEF IsWorkspace, IsTimedScan
<1>6. \A x \in 1..Len(nodes) : IsNode(nodes[x])
    BY <1>1 DEF IsTimedList
<1> QED
    BY <1>1, <1>2, <1>3, <1>4, <1>5, <1>6

\* The scan stays, and so does the workspace.
LEMMA ScanStays ==
    ASSUME SnapInv, Unread = {}, Unread' = {}, pc' # "scan", pc' \notin Idle, pc \notin Idle,
           UNCHANGED <<ws, ignored, quiet, cmd, scan>>
    PROVE  ScanInv'
BY DEF SnapInv, ScanInv

LEMMA SnapRefreshStep == ASSUME Inv, Inv', SnapInv, Refresh PROVE SnapInv'
<1>1. PICK found : found = Sorted(DOMAIN scan)
    OBVIOUS
<1>2. PICK hash : hash = Clean(scan, saved)
    OBVIOUS
<1>3. pc = "scan" /\ todo = {} /\ cmd = "write" /\ nodes = saved
    BY DEF Refresh, SnapInv, CommandInv
<1>4. /\ nodes' = [k \in DOMAIN found |-> Node(found[k], scan[found[k]], hash[found[k]])]
      /\ todo' = {p \in DOMAIN scan : scan[p].type = "file"} /\ pc' = "add"
      /\ UNCHANGED <<ws, ignored, quiet, saved, mixed, known, cmd, scan, root, i, j>>
    BY <1>1, <1>2, <1>3 DEF Refresh, Clean, userVars, cacheVars
<1>5. PICK F : ForestOf(F)
    BY DEF SnapInv
<1>6. IsForest(ignored, F) /\ Formed(F, saved)
    BY <1>5 DEF ForestOf
<1>7. OfScan(nodes', scan) /\ FilesKept(nodes', hash) /\ DirsKept(nodes', hash) /\ Formed(F, nodes')
    <2>1. PICK list : list = nodes'
        OBVIOUS
    <2>2. list = [k \in DOMAIN found |-> Node(found[k], scan[found[k]], hash[found[k]])]
        BY <1>4, <2>1
    <2>3. OfScan(list, scan) /\ FilesKept(list, hash) /\ DirsKept(list, hash) /\ Formed(F, list)
        BY <1>1, <1>2, <1>6, <2>2, WritingIs, RefreshedNodes
    <2> QED BY <2>1, <2>3
<1>8. CommandInv'
    BY <1>3, <1>4 DEF CommandInv, Idle
<1>9. Unread = {} /\ Unread' = {}
    BY <1>3, <1>4 DEF Unread
<1>10. ScanInv'
    BY <1>3, <1>4, <1>9, ScanStays DEF Idle
<1>11. WriteInv'
    BY <1>2, <1>4, <1>7 DEF WriteInv
<1>12. CheckoutInv' /\ WrittenIsSnapshot'
    BY <1>3, <1>4 DEF CheckoutInv, WrittenIsSnapshot
<1>13. ForestOf(F)'
    BY <1>3, <1>4, <1>5, <1>7 DEF ForestOf
<1>14. IndexInv(ws', ignored', saved')
    BY <1>4 DEF SnapInv
<1> QED
    BY <1>8, <1>10, <1>11, <1>12, <1>13, <1>14 DEF SnapInv

LEMMA SnapHashFile == ASSUME Inv, Inv', SnapInv, NEW p, HashFile(p) PROVE SnapInv'
<1>1. /\ pc = "add" /\ p \in todo /\ todo' \subseteq todo /\ cmd = "write"
      /\ UNCHANGED <<ws, ignored, quiet, saved, mixed, known, cmd, pc, scan, root, i, j>>
    BY DEF HashFile, userVars, cacheVars, SnapInv, CommandInv
<1>2. PICK k : k = Position(p)
    OBVIOUS
<1>3. k \in 1..Len(nodes) /\ nodes[k].path = p /\ nodes[k].type = "file"
    <2>1. scan[p].type = "file"
        BY <1>1 DEF SnapInv, CommandInv
    <2> QED BY <1>1, <1>2, <2>1, PositionIs
<1>4. PICK hash : hash = Clean(scan, saved)
    OBVIOUS
<1>5. PICK F : ForestOf(F)
    BY DEF SnapInv
<1>6. OfScan(nodes, scan) /\ FilesKept(nodes, hash) /\ DirsKept(nodes, hash) /\ Formed(F, nodes)
    BY <1>1, <1>4, <1>5 DEF SnapInv, WriteInv, ForestOf
<1>7. OfScan(nodes', scan) /\ FilesKept(nodes', hash) /\ DirsKept(nodes', hash) /\ Formed(F, nodes')
    <2>1. CASE nodes' = nodes
        BY <1>6, <2>1
    <2>2. CASE nodes' # nodes
        <3>1. PICK h : /\ nodes' = [nodes EXCEPT ![k].hash = h]
                       /\ nodes[k].hash # NoHash => h = nodes[k].hash
            BY <1>2, <2>2 DEF HashFile
        <3>2. PICK list : list = [nodes EXCEPT ![k].hash = h]
            OBVIOUS
        <3>3. Rehashed(nodes, list, k, h)
            BY <1>3, <3>2, WritingIs, RehashedIs
        <3>4. OfScan(list, scan) /\ FilesKept(list, hash) /\ DirsKept(list, hash) /\ Formed(F, list)
            BY <1>3, <1>6, <3>1, <3>3, WritingIs, AddedNode
        <3> QED BY <3>1, <3>2, <3>4
    <2> QED BY <2>1, <2>2
<1>8. CommandInv'
    BY <1>1 DEF SnapInv, CommandInv, Idle
<1>9. Unread = {} /\ Unread' = {}
    BY <1>1 DEF Unread
<1>10. ScanInv'
    BY <1>1, <1>9, ScanStays DEF Idle
<1>11. WriteInv'
    BY <1>1, <1>4, <1>7 DEF WriteInv
<1>12. CheckoutInv' /\ WrittenIsSnapshot'
    BY <1>1 DEF CheckoutInv, WrittenIsSnapshot
<1>13. ForestOf(F)'
    BY <1>1, <1>5, <1>7 DEF ForestOf
<1>14. IndexInv(ws', ignored', saved')
    BY <1>1 DEF SnapInv
<1> QED
    BY <1>8, <1>10, <1>11, <1>12, <1>13, <1>14 DEF SnapInv

LEMMA SnapAddFile == ASSUME Inv, Inv', SnapInv, NEW p, AddFile(p) PROVE SnapInv'
<1>1. /\ pc = "add" /\ todo' = todo \ {p} /\ cmd = "write"
      /\ UNCHANGED <<ws, ignored, quiet, saved, known, cmd, pc, scan, nodes, root, i, j>>
    BY DEF AddFile, userVars, SnapInv, CommandInv
<1>2. CommandInv'
    BY <1>1 DEF SnapInv, CommandInv, Idle
<1>3. Unread = {} /\ Unread' = {}
    BY <1>1 DEF Unread
<1>4. ScanInv'
    BY <1>1, <1>3, ScanStays DEF Idle
<1>5. WriteInv'
    BY <1>1 DEF SnapInv, WriteInv
<1>6. CheckoutInv' /\ WrittenIsSnapshot'
    BY <1>1 DEF CheckoutInv, WrittenIsSnapshot
<1>7. PICK F : ForestOf(F)
    BY DEF SnapInv
<1>8. ForestOf(F)'
    BY <1>1, <1>7 DEF ForestOf
<1>9. IndexInv(ws', ignored', saved')
    BY <1>1 DEF SnapInv
<1> QED
    BY <1>2, <1>4, <1>5, <1>6, <1>8, <1>9 DEF SnapInv

LEMMA SnapEndAdd == ASSUME Inv, Inv', SnapInv, EndAdd PROVE SnapInv'
<1>1. pc = "add" /\ cmd = "write" /\ UNCHANGED <<ws, ignored, saved, mixed, known>>
    BY DEF EndAdd, cacheVars, SnapInv, CommandInv
<1>2. CASE exn
    <2>1. Fail
        BY <1>2 DEF EndAdd
    <2>2. DirAged(ws, ws, clock + 1)
        BY DirAgedSame
    <2> QED BY <1>1, <2>1, <2>2, SnapFail
<1>3. CASE ~exn
    <2>1. /\ todo' = {nodes[k].path : k \in {k \in DOMAIN nodes : DirtyDir(k)}}
          /\ pc' = "trees"
          /\ UNCHANGED <<quiet, cmd, scan, nodes, root, exn, i, j>>
        BY <1>3 DEF EndAdd
    <2>2. PICK hash : hash = Clean(scan, saved)
        OBVIOUS
    <2>3. OfScan(nodes, scan) /\ FilesKept(nodes, hash) /\ DirsKept(nodes, hash)
        BY <1>1, <2>2 DEF SnapInv, WriteInv
    <2>4. \A x \in Dirs(nodes) : nodes[x].hash = NoHash => nodes[x].path \in todo'
        <3>1. DOMAIN nodes = 1..Len(nodes)
            BY WritingIs
        <3> QED BY <2>1, <3>1 DEF Dirs, DirtyDir
    <2>5. DirsWritten(nodes, hash, todo')
        BY <2>3, <2>4, ToWrite
    <2>6. CommandInv'
        BY <1>1, <2>1 DEF CommandInv, Idle
    <2>7. Unread = {} /\ Unread' = {}
        BY <1>1, <2>1 DEF Unread
    <2>8. ScanInv'
        BY <1>1, <2>1, <2>7, ScanStays DEF Idle
    <2>9. WriteInv'
        BY <1>1, <2>1, <2>2, <2>3, <2>5 DEF WriteInv
    <2>10. CheckoutInv' /\ WrittenIsSnapshot'
        BY <1>1, <2>1 DEF CheckoutInv, WrittenIsSnapshot
    <2>11. PICK F : ForestOf(F)
        BY DEF SnapInv
    <2>12. ForestOf(F)'
        BY <1>1, <2>1, <2>11 DEF ForestOf
    <2>13. IndexInv(ws', ignored', saved')
        BY <1>1 DEF SnapInv
    <2> QED BY <2>6, <2>8, <2>9, <2>10, <2>12, <2>13 DEF SnapInv
<1> QED
    BY <1>2, <1>3

LEMMA SnapWriteDirectory == ASSUME Inv, Inv', SnapInv, NEW p, WriteDirectory(p) PROVE SnapInv'
<1>1. /\ pc = "trees" /\ p \in todo /\ todo' = todo \ {p} /\ cmd = "write"
      /\ \A q \in todo : Rank[q] <= Rank[p]
      /\ UNCHANGED <<ws, ignored, quiet, saved, mixed, known, cmd, pc, scan, root, i, j>>
    BY DEF WriteDirectory, userVars, SnapInv, CommandInv
<1>2. PICK k : k = Position(p)
    OBVIOUS
<1>3. k \in 1..Len(nodes) /\ nodes[k].path = p /\ nodes[k].type = "dir" /\ todo \subseteq Paths
    <2>1. NodesOfScan
        BY <1>1 DEF Inv, ControlInv
    <2>2. scan[p].type = "dir" /\ todo \subseteq DOMAIN scan
        BY <1>1, <2>1 DEF NodesOfScan
    <2> QED BY <1>1, <1>2, <2>2, PositionIs, WritingIs
<1>4. PICK hash : hash = Clean(scan, saved)
    OBVIOUS
<1>5. PICK F : ForestOf(F)
    BY DEF SnapInv
<1>6. OfScan(nodes, scan) /\ FilesKept(nodes, hash) /\ DirsWritten(nodes, hash, todo) /\ Formed(F, nodes)
      /\ IsForest(ignored, F)
    BY <1>1, <1>4, <1>5 DEF SnapInv, WriteInv, ForestOf
<1>7. PICK h : h = TreeOf(nodes, p)
    OBVIOUS
<1>8. nodes' = [nodes EXCEPT ![k].hash = h]
    <2>1. TreeHash({Line(n) : n \in ChildrenOf(nodes, p)}) = h
        BY <1>7, WritingIs, ChildrenLines
    <2> QED BY <1>2, <1>3, <2>1 DEF WriteDirectory, Written
<1>9. PICK K : K = F \cup {<<p, h>>}
    OBVIOUS
<1>10. /\ OfScan(nodes', scan) /\ FilesKept(nodes', hash) /\ DirsWritten(nodes', hash, todo')
       /\ IsForest(ignored, K) /\ Formed(K, nodes')
    <2>1. PICK list : list = [nodes EXCEPT ![k].hash = h]
        OBVIOUS
    <2>2. Rehashed(nodes, list, k, h)
        BY <1>3, <2>1, WritingIs, RehashedIs
    <2>3. /\ OfScan(list, scan) /\ FilesKept(list, hash) /\ DirsWritten(list, hash, todo \ {p})
          /\ IsForest(ignored, K) /\ Formed(K, list)
        BY ZenonT(60), <1>1, <1>3, <1>6, <1>7, <1>9, <2>2, WritingIs, WrittenNode
    <2> QED BY <1>1, <1>8, <2>1, <2>3
<1>11. F \subseteq K
    BY <1>9
<1>12. CommandInv'
    BY <1>1 DEF SnapInv, CommandInv, Idle
<1>13. Unread = {} /\ Unread' = {}
    BY <1>1 DEF Unread
<1>14. ScanInv'
    BY <1>1, <1>13, ScanStays DEF Idle
<1>15. WriteInv'
    BY <1>1, <1>4, <1>10 DEF WriteInv
<1>16. CheckoutInv' /\ WrittenIsSnapshot'
    BY <1>1 DEF CheckoutInv, WrittenIsSnapshot
<1>17. ForestOf(K)'
    <2>1. Formed(K, saved) /\ \A t \in known : <<Root, t>> \in K
        BY <1>5, <1>11, LargerForest DEF ForestOf
    <2> QED BY <1>1, <1>10, <2>1 DEF ForestOf
<1>18. IndexInv(ws', ignored', saved')
    BY <1>1 DEF SnapInv
<1> QED
    BY <1>12, <1>14, <1>15, <1>16, <1>17, <1>18 DEF SnapInv

LEMMA SnapWriteRoot == ASSUME Inv, Inv', SnapInv, WriteRoot PROVE SnapInv'
<1>1. /\ pc = "trees" /\ todo = {} /\ cmd = "write" /\ pc' = "save"
      /\ root' = TreeHash({Line(n) : n \in ChildrenOf(nodes, Root)})
      /\ UNCHANGED <<ws, ignored, quiet, saved, mixed, known, cmd, scan, todo, nodes, i, j>>
    BY DEF WriteRoot, userVars, SnapInv, CommandInv
<1>2. PICK h : h = TreeOf(nodes, Root)
    OBVIOUS
<1>3. root' = h
    BY <1>1, <1>2, WritingIs, ChildrenLines
<1>4. PICK hash : hash = Clean(scan, saved)
    OBVIOUS
<1>5. PICK F : ForestOf(F)
    BY DEF SnapInv
<1>6. OfScan(nodes, scan) /\ FilesKept(nodes, hash) /\ DirsWritten(nodes, hash, {}) /\ Formed(F, nodes)
      /\ IsForest(ignored, F)
    BY <1>1, <1>4, <1>5 DEF SnapInv, WriteInv, ForestOf
<1>7. PICK K : K = F \cup {<<Root, h>>}
    OBVIOUS
<1>8. IsForest(ignored, K)
    BY <1>2, <1>6, <1>7, WritingIs, WrittenRoot
<1>9. CommandInv'
    BY <1>1 DEF CommandInv, Idle
<1>10. Unread = {} /\ Unread' = {}
    BY <1>1 DEF Unread
<1>11. ScanInv'
    BY <1>1, <1>10, ScanStays DEF Idle
<1>12. WriteInv'
    BY <1>1, <1>2, <1>3, <1>4, <1>6 DEF WriteInv
<1>13. CheckoutInv' /\ WrittenIsSnapshot'
    BY <1>1 DEF CheckoutInv, WrittenIsSnapshot
<1>14. ForestOf(K)'
    <2>1. F \subseteq K /\ <<Root, h>> \in K
        BY <1>7
    <2>2. Formed(K, saved) /\ Formed(K, nodes) /\ \A t \in known : <<Root, t>> \in K
        BY <1>5, <2>1, LargerForest DEF ForestOf
    <2> QED BY <1>1, <1>3, <1>8, <2>1, <2>2 DEF ForestOf
<1>15. IndexInv(ws', ignored', saved')
    BY <1>1 DEF SnapInv
<1> QED
    BY <1>9, <1>11, <1>12, <1>13, <1>14, <1>15 DEF SnapInv

\* A file that was added has a digest.
LEMMA FilesHashed ==
    ASSUME Inv, pc = "save"
    PROVE  \A x \in 1..Len(nodes) : nodes[x].type = "file" => nodes[x].hash # NoHash
<1>1. Pending = {}
    BY DEF Pending
<1>2. PICK G : Filed(G, nodes, {})
    BY <1>1 DEF Inv, CacheOf
<1>3. \A c : FileHash(c) # NoHash
    BY DEF FileHash, NoHash
<1> QED
    BY <1>2, <1>3 DEF Filed

\* What write-tree saves while nobody edits: each directory has the digest of its
\* nodes.
LEMMA SavedNodes ==
    ASSUME Inv, SnapInv, pc = "save", cmd = "write", quiet
    PROVE  /\ IsList(nodes) /\ Typed(nodes) /\ Shaped(nodes, ignored) /\ root = TreeOf(nodes, Root)
           /\ \A x \in Dirs(nodes) : nodes[x].hash = TreeOf(nodes, nodes[x].path)
           /\ \A x \in 1..Len(nodes) : nodes[x].type = "file" => \E c : nodes[x].hash = FileHash(c)
           /\ \A x \in 1..Len(nodes) : nodes[x].type = "link" => nodes[x].hash = NoHash
<1>1. Unread = {}
    BY DEF Unread
<1>2. PICK F : Formed(F, saved) /\ Formed(F, nodes)
    BY DEF SnapInv, ForestOf
<1>3. PICK hash : hash = Clean(scan, saved)
    OBVIOUS
<1>4. OfScan(nodes, scan) /\ FilesKept(nodes, hash) /\ DirsWritten(nodes, hash, {}) /\ root = TreeOf(nodes, Root)
    BY <1>3 DEF SnapInv, WriteInv
<1>5. IndexInv(ws, ignored, nodes)
    BY <1>1, <1>2, <1>3, <1>4, WritingIs, WrittenIndex
<1>6. ScanExact(ws, ignored, scan, {})
    BY <1>1 DEF SnapInv, ScanInv, Idle
<1>7. Typed(nodes) /\ Shaped(nodes, ignored)
    BY <1>4, <1>5, WritingIs, OfScanIs DEF IndexInv
<1>8. \A x \in Dirs(nodes) : nodes[x].hash = TreeOf(nodes, nodes[x].path)
    <2>1. /\ IsWorkspace(ws) /\ IsList(nodes)
          /\ DOMAIN scan \subseteq Paths /\ \A q \in DOMAIN scan : IsEntry(scan[q])
          /\ ScanShape(ignored, scan) /\ ScanTrue(ws, ignored, scan, {})
        BY <1>1, WritingIs
    <2>2. OfScan(nodes, scan)
        BY <1>4
    <2>3. \A x \in 1..Len(nodes) : Current(ws, nodes[x])
        BY <1>5, <1>6, <2>1, <2>2, WrittenTrees
    <2> QED BY <1>5, <2>3 DEF IndexInv, Steady, Dirs
<1>9. \A x \in 1..Len(nodes) : nodes[x].type = "file" => \E c : nodes[x].hash = FileHash(c)
    <2>1. Pending = {}
        BY DEF Pending
    <2>2. PICK G : Filed(G, nodes, {})
        BY <2>1 DEF Inv, CacheOf
    <2> QED BY <2>2 DEF Filed
<1>10. \A x \in 1..Len(nodes) : nodes[x].type = "link" => nodes[x].hash = NoHash
    BY <1>2 DEF Formed
<1> QED
    BY <1>4, <1>7, <1>8, <1>9, <1>10, WritingIs

LEMMA SnapSave == ASSUME Inv, Inv', SnapInv, Save PROVE SnapInv'
<1>1. /\ pc = "save" /\ pc' = "returned" /\ saved' = nodes /\ known' = known \cup {root}
      /\ scan' = <<>> /\ nodes' = <<>> /\ pc' \in Idle
      /\ UNCHANGED <<ws, ignored, quiet, mixed, cmd, root>>
    BY DEF Save, Forget, userVars, Idle
<1>2. cmd \in {"write", "checkout"} /\ Unread = {}
    BY <1>1 DEF SnapInv, CommandInv, Unread
<1>3. PICK F : ForestOf(F)
    BY DEF SnapInv
<1>4. Formed(F, saved) /\ Formed(F, nodes)
    BY <1>3 DEF ForestOf
<1>5. PICK hash : hash = Clean(scan, saved)
    OBVIOUS
<1>6. cmd = "write" => OfScan(nodes, scan) /\ FilesKept(nodes, hash) /\ DirsWritten(nodes, hash, {})
                       /\ root = TreeOf(nodes, Root)
    BY <1>1, <1>5 DEF SnapInv, WriteInv
<1>7. IndexInv(ws, ignored, nodes)
    <2>1. CASE cmd = "write"
        BY <1>2, <1>4, <1>5, <1>6, <2>1, WritingIs, WrittenIndex
    <2>2. CASE cmd = "checkout"
        <3>1. TreeInv(ws, ignored, nodes, Len(nodes) + 1)
            BY <1>1, <2>2 DEF SnapInv, CheckoutInv
        <3>2. Typed(nodes)
            BY WritingIs DEF Typed, IsNode
        <3> QED BY <3>1, <3>2, WritingIs, CheckedIndex
    <2> QED BY <1>2, <2>1, <2>2
<1>8. CommandInv'
    BY <1>1 DEF CommandInv, Idle
<1>9. ScanInv'
    BY <1>1, EmptyScan DEF ScanInv
<1>10. WriteInv' /\ CheckoutInv'
    BY <1>1 DEF WriteInv, CheckoutInv
<1>11. WrittenIsSnapshot'
    <2>1. SUFFICES ASSUME cmd = "write", quiet, Unmixed(root) PROVE root = Snapshot(ws, ignored)
        BY <1>1 DEF WrittenIsSnapshot, Unmixed
    <2>2. ScanExact(ws, ignored, scan, {})
        BY <1>1, <1>2, <2>1 DEF SnapInv, ScanInv, Idle
    <2>3. Right(ws, nodes, mixed)
        BY DEF Inv, DataInv
    <2>4. \A x \in 1..Len(nodes) : nodes[x].type = "link" => nodes[x].hash = NoHash
        BY <1>4 DEF Formed
    <2>5. \A x \in 1..Len(nodes) :
             nodes[x].type = "file" => nodes[x].hash # NoHash /\ nodes[x].hash \notin mixed
        <3>1. \A x \in 1..Len(nodes) : nodes[x].type # "link" => nodes[x].hash \in ObjectsOf(root)
            BY <1>1, <2>1, SavedNodes, NodesAreObjects
        <3> QED BY <1>1, <2>1, <3>1, FilesHashed DEF Unmixed
    <2> QED BY <1>1, <1>2, <1>6, <1>7, <2>1, <2>2, <2>3, <2>4, <2>5, WritingIs, WrittenSnapshot
<1>12. ForestOf(F)'
    BY <1>1, <1>3, EmptyScan DEF ForestOf
<1>13. IndexInv(ws', ignored', saved')
    BY <1>1, <1>7
<1> QED
    BY <1>8, <1>9, <1>10, <1>11, <1>12, <1>13 DEF SnapInv

-----------------------------------------------------------------------------
(* The steps of checkout and SnapInv. *)

LEMMA FormedSame ==
    ASSUME NEW a, NEW b, SameLines(a, b), NEW F, Formed(F, a)
    PROVE  Formed(F, b)
<1> SUFFICES ASSUME NEW x \in 1..Len(b)
             PROVE  /\ b[x].type = "dir" => b[x].hash = NoHash \/ <<b[x].path, b[x].hash>> \in F
                    /\ b[x].type = "link" => b[x].hash = NoHash
                    /\ b[x].type # "link" => b[x].target = ""
    BY DEF Formed
<1>1. x \in 1..Len(a) /\ b[x].path = a[x].path /\ b[x].type = a[x].type
      /\ b[x].target = a[x].target /\ b[x].hash = a[x].hash
    BY DEF SameLines
<1> QED
    BY <1>1 DEF Formed

LEMMA SnapBegun ==
    ASSUME Inv, Inv', SnapInv, NEW t \in known, Begin(t), ignored' = ignored
    PROVE  SnapInv'
<1>1. UNCHANGED <<ws, ignored, clock, saved, mixed, known>>
    BY DEF Begin
<1>2. CASE Fail
    <2>1. DirAged(ws, ws, clock + 1)
        BY DirAgedSame
    <2> QED BY <1>1, <1>2, <2>1, SnapFail
<1>3. CASE ~Fail
    <2>1. /\ cmd' = "checkout" /\ pc' = "scan" /\ root' = t /\ scan' = <<>> /\ todo' = {Root}
          /\ nodes' = CopyMetadata(Listing(t), saved) /\ pc' \notin Idle
        BY <1>3 DEF Begin, Idle
    <2>2. PICK F : ForestOf(F)
        BY DEF SnapInv
    <2>3. IsForest(ignored, F) /\ Formed(F, saved) /\ <<Root, t>> \in F
        BY <2>2 DEF ForestOf
    <2>4. PICK G : CacheOf(G)
        BY DEF Inv
    <2>5. IsCache(G) /\ t \in G
        BY <2>4 DEF CacheOf
    <2>6. \A x \in 1..Len(saved) : saved[x].type = "file" => \E c : saved[x].hash = FileHash(c)
        BY <2>4 DEF CacheOf, Filed
    <2>7. Dated(ws, clock) /\ IsTimedList(saved, clock)
        BY DEF Inv, DataInv
    <2>8. Typed(saved)
        BY <2>7 DEF IsTimedList, IsNode, Typed
    <2>9. IndexInv(ws, ignored, saved)
        BY DEF SnapInv
    <2>10. PICK list : list = CopyMetadata(Listing(t), saved)
        OBVIOUS
    <2>11. TreeInv(ws, ignored, list, Len(list) + 1) /\ Formed(F, list)
        BY <2>3, <2>5, <2>6, <2>7, <2>8, <2>9, <2>10, WritingIs, CopiedTree
    <2>12. CommandInv' /\ WriteInv' /\ WrittenIsSnapshot'
        BY <2>1 DEF CommandInv, WriteInv, WrittenIsSnapshot
    <2>13. ScanInv'
        <3>1. PICK entries : entries = <<>> /\ DOMAIN entries = {}
            OBVIOUS
        <3>2. ScanTodo(entries, {Root}) /\ ScanTyped(ws, ignored, entries, {Root})
            BY <3>1 DEF ScanTodo, ScanTyped
        <3> QED BY <1>1, <2>1, <3>1, <3>2, EmptyScan DEF ScanInv
    <2>14. CheckoutInv'
        BY <1>1, <2>1, <2>10, <2>11 DEF CheckoutInv
    <2>15. ForestOf(F)'
        BY <1>1, <2>1, <2>2, <2>3, <2>10, <2>11 DEF ForestOf
    <2> QED BY <1>1, <2>9, <2>12, <2>13, <2>14, <2>15 DEF SnapInv
<1> QED
    BY <1>2, <1>3

LEMMA SnapStartWalk == ASSUME Inv, Inv', SnapInv, StartWalk PROVE SnapInv'
<1>1. /\ pc = "scan" /\ todo = {} /\ cmd = "checkout" /\ pc' = "walk" /\ i' = 1 /\ j' = 1 /\ pc' \notin Idle
      /\ UNCHANGED <<ws, ignored, clock, quiet, saved, mixed, known, cmd, scan, todo, nodes, root>>
    BY DEF StartWalk, userVars, cacheVars, Idle
<1>2. Unread = {} /\ Unread' = {}
    BY <1>1 DEF Unread
<1>3. ScanTyped(ws, ignored, scan, {}) /\ TreeInv(ws, ignored, nodes, Len(nodes) + 1)
    BY <1>1 DEF SnapInv, ScanInv, CheckoutInv
<1>4. PICK found : found = Sorted(DOMAIN scan)
    OBVIOUS
<1>5. WalkInv(ws, ignored, nodes, scan, found, 1, 1)
    BY <1>3, <1>4, WritingIs, StartWalks
<1>6. TreeInv(ws, ignored, nodes, 1)
    BY <1>3, WritingIs, TreeBack
<1>7. CommandInv'
    BY <1>1 DEF CommandInv
<1>8. ScanInv'
    BY <1>1, <1>2, ScanStays DEF Idle
<1>9. CheckoutInv'
    BY <1>1, <1>4, <1>5, <1>6 DEF CheckoutInv
<1>10. WriteInv' /\ WrittenIsSnapshot'
    BY <1>1 DEF WriteInv, WrittenIsSnapshot
<1>11. PICK F : ForestOf(F)
    BY DEF SnapInv
<1>12. ForestOf(F)'
    BY <1>1, <1>11 DEF ForestOf
<1>13. IndexInv(ws', ignored', saved')
    BY <1>1 DEF SnapInv
<1> QED
    BY <1>7, <1>8, <1>9, <1>10, <1>12, <1>13 DEF SnapInv

\* At each turn.
LEMMA TurnSnap ==
    ASSUME Inv, SnapInv, pc = "walk"
    PROVE  /\ Walking(ws, ignored, nodes, scan, tree, i, j)
           /\ TreeInv(ws, ignored, nodes, j) /\ WalkInv(ws, ignored, nodes, scan, tree, i, j)
           /\ cmd = "checkout" /\ Unread = {} /\ tree \in Seq(Paths)
<1>1. WalkInv(ws, ignored, nodes, scan, tree, i, j) /\ TreeInv(ws, ignored, nodes, j) /\ cmd = "checkout"
    BY DEF SnapInv, CheckoutInv, CommandInv, tree
<1>2. Shaped(nodes, ignored)
    BY <1>1 DEF TreeInv
<1>3. i \in 1..Len(tree) + 1 /\ j \in 1..Len(nodes) + 1
    BY TurnIs
<1>4. Walking(ws, ignored, nodes, scan, tree, i, j)
    BY <1>1, <1>2, <1>3, WritingIs DEF Walking, tree
<1>5. tree \in Seq(DOMAIN scan)
    BY WritingIs, SortedTheorem DEF tree, IsSortedList
<1> QED
    BY <1>1, <1>4, <1>5, WritingIs DEF Unread

\* The walk goes on.
LEMMA WalkOn ==
    ASSUME Inv, Inv', SnapInv, pc = "walk", DirAged(ws, ws', clock + 1),
           UNCHANGED <<ignored, quiet, saved, mixed, known, cmd, pc, scan, root>>,
           SameLines(nodes, nodes'), TreeInv(ws', ignored, nodes', j'),
           WalkInv(ws', ignored, nodes', scan, tree, i', j')
    PROVE  SnapInv'
<1>1. cmd = "checkout" /\ pc' = "walk" /\ Unread = {} /\ Unread' = {} /\ pc' \notin Idle
    BY TurnSnap DEF Unread, Idle
<1>2. CommandInv' /\ WriteInv' /\ WrittenIsSnapshot'
    BY <1>1 DEF CommandInv, WriteInv, WrittenIsSnapshot
<1>3. ScanTrue(ws', ignored, scan, {})
    <2>1. IsTimedScan(scan, clock) /\ clock \in Nat
        BY DEF Inv, DataInv
    <2>2. PICK t : t = clock + 1
        OBVIOUS
    <2>3. \A p \in DOMAIN scan : scan[p].time # t
        BY <2>1, <2>2 DEF IsTimedScan, Dated
    <2>4. DOMAIN ws' \subseteq Paths
        BY DEF Inv, DataInv, IsWorkspace
    <2> QED BY <1>1, <2>2, <2>3, <2>4, WritingIs, ScanTrueAged
<1>4. ScanInv'
    BY <1>1, <1>3 DEF SnapInv, ScanInv
<1>5. CheckoutInv'
    BY <1>1 DEF CheckoutInv, tree
<1>6. PICK F : ForestOf(F)
    BY DEF SnapInv
<1>7. Formed(F, nodes')
    BY <1>6, FormedSame DEF ForestOf
<1>8. ForestOf(F)'
    BY <1>1, <1>6, <1>7 DEF ForestOf
<1>9. IndexInv(ws', ignored', saved')
    BY SavedAged
<1> QED
    BY <1>2, <1>4, <1>5, <1>8, <1>9 DEF SnapInv

\* The tree on a disk from which something was removed.
LEMMA TreeAged ==
    ASSUME Inv, Inv', SnapInv, pc = "walk", DirAged(ws, ws', clock + 1)
    PROVE  TreeInv(ws', ignored, nodes, j)
<1>1. PICK t : t = clock + 1
    OBVIOUS
<1>2. clock \in Nat /\ \A x \in Dirs(nodes) : nodes[x].time \in 0..clock
    BY WritingIs DEF Dirs, IsTimedList
<1>3. \A x \in Dirs(nodes) : nodes[x].time # t
    BY <1>1, <1>2
<1>4. DOMAIN ws' \subseteq Paths
    BY DEF Inv, DataInv, IsWorkspace
<1> QED
    BY <1>1, <1>3, <1>4, WritingIs, TurnSnap, TreeInvAged

LEMMA SameLinesSelf == ASSUME NEW a PROVE SameLines(a, a)
BY DEF SameLines

LEMMA SnapPlaced ==
    ASSUME Inv, Inv', SnapInv, NEW disk, NEW next, Place(disk, next), j <= Len(nodes),
           IsWorkspace(disk), Dated(disk, clock + 1), DirAged(ws, disk, clock + 1),
           Passed(ws, disk, nodes, tree, i, j, next),
           nodes[j].type = "dir" => nodes[j].path \notin DOMAIN disk
    PROVE  SnapInv'
<1> DEFINE n == nodes[j]
<1>1. pc = "walk" /\ UNCHANGED <<ignored, saved, mixed, known>>
    BY DEF Place, cacheVars
<1>2. j \in 1..Len(nodes) /\ clock \in Nat /\ IsNode(n) /\ n.path \in Paths
    BY <1>1, TurnIs DEF IsNode
<1>3. CASE ~(Clear(disk, n) /\ (n.type = "file" => n.hash \in store))
    <2>1. Fail /\ ws' = IF Clear(disk, n) THEN RemoveAll(disk, n.path) ELSE disk
        BY <1>3 DEF Place
    <2>2. DirAged(disk, RemoveAll(disk, n.path), clock + 1)
        <3> HIDE DEF n
        <3> QED BY <1>2, RemoveAllDir
    <2>3. DirAged(ws, RemoveAll(disk, n.path), clock + 1)
        BY <2>2, DirAgedTransitive
    <2>4. DirAged(ws, ws', clock + 1)
        BY <2>1, <2>3
    <2> QED BY <1>1, <2>1, <2>4, SnapFail
<1>4. CASE Clear(disk, n) /\ (n.type = "file" => n.hash \in store)
    <2>1. PICK new : new = CheckoutNode(disk, n)
        OBVIOUS
    <2>2. PICK list : list = [nodes EXCEPT ![j].time = new[Real(disk, n.path)].time]
        OBVIOUS
    <2>3. /\ ws' = new /\ i' = next /\ j' = j + 1 /\ nodes' = list
          /\ UNCHANGED <<quiet, cmd, pc, scan, todo, root, exn>>
        BY <1>4, <2>1, <2>2 DEF Place
    <2>4. DirAged(ws, new, clock + 1)
        <3>1. DirAged(disk, CheckoutNode(disk, n), clock + 1)
            <4> HIDE DEF n
            <4> QED BY <1>2, <1>4, CheckoutNodeDir
        <3> QED BY <2>1, <3>1, DirAgedTransitive
    <2>5. PICK found : found = tree
        OBVIOUS
    <2>6. TreeInv(new, ignored, list, j + 1) /\ SameLines(nodes, list)
          /\ WalkInv(new, ignored, list, scan, found, next, j + 1)
        BY <1>1, <1>2, <1>4, <2>1, <2>2, <2>5, WritingIs, TurnSnap, PlaceWalks
    <2> QED BY <1>1, <2>3, <2>4, <2>5, <2>6, WalkOn
<1> QED
    BY <1>3, <1>4

LEMMA SnapRemoveRest == ASSUME Inv, Inv', SnapInv, RemoveRest PROVE SnapInv'
<1>1. /\ pc = "walk" /\ i <= Len(tree) /\ j > Len(nodes)
      /\ ws' = RemoveAll(ws, tree[i]) /\ i' = i + 1
      /\ UNCHANGED <<ignored, quiet, saved, mixed, known, cmd, pc, scan, todo, nodes, root, j>>
    BY DEF RemoveRest, Drop, walkVars, cacheVars
<1>2. i \in 1..Len(tree) /\ tree[i] \in Paths /\ j \in Nat /\ i \in Nat /\ Len(tree) \in Nat
    BY <1>1, TurnIs
<1>3. DirAged(ws, ws', clock + 1)
    BY <1>1, <1>2, WritingIs, RemoveAllDir
<1>4. TreeInv(ws', ignored, nodes, j)
    BY <1>1, <1>3, TreeAged
<1>5. WalkInv(ws', ignored, nodes, scan, tree, i + 1, j)
    BY <1>1, <1>2, WritingIs, TurnSnap, RestWalks
<1>6. SameLines(nodes, nodes') /\ TreeInv(ws', ignored, nodes', j') /\ WalkInv(ws', ignored, nodes', scan, tree, i', j')
    BY <1>1, <1>4, <1>5, SameLinesSelf
<1> QED
    BY <1>1, <1>3, <1>6, WalkOn

LEMMA SnapRemoveExtra == ASSUME Inv, Inv', SnapInv, RemoveExtra PROVE SnapInv'
<1>1. /\ pc = "walk" /\ i <= Len(tree) /\ j <= Len(nodes) /\ Rank[tree[i]] < Rank[nodes[j].path]
      /\ Canonical(ws, tree[i])
      /\ ws' = RemoveAll(ws, tree[i]) /\ i' = i + 1
      /\ UNCHANGED <<ignored, quiet, saved, mixed, known, cmd, pc, scan, todo, nodes, root, j>>
    BY DEF RemoveExtra, Extra, Both, Drop, walkVars, cacheVars
<1>2. i \in 1..Len(tree) /\ tree[i] \in Paths
    BY <1>1, TurnIs
<1>3. PICK p : p = tree[i]
    OBVIOUS
<1>4. PICK left : left = RemoveAll(ws, p)
    OBVIOUS
<1>5. Real(ws, p) = p
    BY <1>1, <1>2, <1>3, WritingIs, RealPlain
<1>6. Smaller(ws, left) /\ DirAged(ws, left, clock + 1) /\ DOMAIN left = DOMAIN ws \ ({p} \cup Below(p))
    BY ZenonT(60), <1>2, <1>3, <1>4, <1>5, WritingIs, RemoveAllDir
<1>7. ws' = left
    BY <1>1, <1>3, <1>4
<1>8. TreeInv(ws', ignored, nodes, j)
    BY <1>1, <1>6, <1>7, TreeAged
<1>9. WalkInv(left, ignored, nodes, scan, tree, i + 1, j)
    BY <1>1, <1>3, <1>6, TurnSnap, ExtraWalk
<1>10. SameLines(nodes, nodes') /\ TreeInv(ws', ignored, nodes', j') /\ WalkInv(ws', ignored, nodes', scan, tree, i', j')
    BY <1>1, <1>7, <1>8, <1>9, SameLinesSelf
<1> QED
    BY <1>1, <1>6, <1>7, <1>10, WalkOn

LEMMA SnapSkip == ASSUME Inv, Inv', SnapInv, SkipBelowLink PROVE SnapInv'
<1>1. /\ pc = "walk" /\ i <= Len(tree) /\ j <= Len(nodes) /\ Rank[tree[i]] < Rank[nodes[j].path]
      /\ i' = i + 1
      /\ UNCHANGED <<ws, ignored, quiet, saved, mixed, known, cmd, pc, scan, todo, nodes, root, j>>
    BY DEF SkipBelowLink, Extra, Both, walkVars, cacheVars
<1>2. WalkInv(ws, ignored, nodes, scan, tree, i + 1, j)
    BY <1>1, TurnSnap, ExtraWalk
<1>3. DirAged(ws, ws, clock + 1)
    BY DirAgedSame
<1>4. SameLines(nodes, nodes') /\ TreeInv(ws', ignored, nodes', j') /\ WalkInv(ws', ignored, nodes', scan, tree, i', j')
    BY <1>1, <1>2, SameLinesSelf, TurnSnap
<1> QED
    BY <1>1, <1>3, <1>4, WalkOn

LEMMA SnapCreateMissing == ASSUME Inv, Inv', SnapInv, CreateMissing PROVE SnapInv'
<1>1. /\ pc = "walk" /\ j <= Len(nodes) /\ Place(ws, i)
      /\ i <= Len(tree) => Rank[tree[i]] > Rank[nodes[j].path]
    BY DEF CreateMissing
<1>2. IsWorkspace(ws) /\ Dated(ws, clock + 1)
    BY <1>1, TurnIs
<1>3. i <= Len(tree) => Rank[nodes[j].path] < Rank[tree[i]]
    <2>1. ASSUME i <= Len(tree) PROVE Rank[nodes[j].path] \in Nat /\ Rank[tree[i]] \in Nat
        <3>1. i \in 1..Len(tree) /\ j \in 1..Len(nodes)
            BY <1>1, <2>1, TurnIs
        <3>2. tree[i] \in Paths /\ nodes[j].path \in Paths
            BY <1>1, <3>1, TurnIs DEF IsNode
        <3> QED BY <3>2, RankNat
    <2> QED BY <1>1, <2>1
<1>4. Passed(ws, ws, nodes, tree, i, j, i) /\ nodes[j].path \notin DOMAIN ws
    BY <1>1, <1>3, TurnSnap, MissingPassed
<1>5. DirAged(ws, ws, clock + 1)
    BY DirAgedSame
<1> QED
    BY <1>1, <1>2, <1>4, <1>5, SnapPlaced

\* What is left when the entry that the walk is at has been removed.
LEMMA SameRemoved ==
    ASSUME Inv, SnapInv, Same
    PROVE  LET left == RemoveAll(ws, tree[i]) IN
           /\ i \in 1..Len(tree) /\ j \in 1..Len(nodes)
           /\ IsWorkspace(left) /\ Dated(left, clock + 1) /\ DirAged(ws, left, clock + 1)
           /\ Smaller(ws, left) /\ DOMAIN left = DOMAIN ws \ ({tree[i]} \cup Below(tree[i]))
<1>1. pc = "walk" /\ i <= Len(tree) /\ j <= Len(nodes) /\ tree[i] = nodes[j].path
    BY DEF Same, Both
<1>2. i \in 1..Len(tree) /\ j \in 1..Len(nodes) /\ tree[i] \in Paths /\ Dated(ws, clock + 1)
    BY <1>1, TurnIs
<1>3. PICK p : p = tree[i]
    OBVIOUS
<1>4. PICK left : left = RemoveAll(ws, p)
    OBVIOUS
<1>5. p \in DOMAIN ws
    BY <1>1, <1>3, TurnSnap, SameAt
<1>6. Real(ws, p) = p
    BY <1>5, WritingIs, RealOfExisting
<1>7. IsWorkspace(left) /\ Dated(left, clock + 1)
    BY <1>2, <1>3, <1>4, WritingIs, RemoveAllIs
<1>8. Smaller(ws, left) /\ DirAged(ws, left, clock + 1) /\ DOMAIN left = DOMAIN ws \ ({p} \cup Below(p))
    BY <1>2, <1>3, <1>4, <1>6, WritingIs, RemoveAllDir
<1> QED
    BY <1>2, <1>3, <1>4, <1>7, <1>8

LEMMA MinLeast == ASSUME NEW N, N \subseteq Nat, N # {} PROVE Min(N) \in N /\ \A y \in N : Min(N) <= y
<1>1. \E x \in N : \A y \in N : x <= y
    BY Smallest
<1> QED
    BY <1>1 DEF Min

\* Where the walk goes on when a node of another type has replaced an entry.
Replacing(left, next) ==
    /\ pc = "walk" /\ j <= Len(nodes) /\ Place(left, next)
    /\ IsWorkspace(left) /\ Dated(left, clock + 1) /\ DirAged(ws, left, clock + 1)
    /\ Passed(ws, left, nodes, tree, i, j, next)
    /\ nodes[j].type = "dir" => nodes[j].path \notin DOMAIN left
    /\ \A y \in 1..Len(tree) : y >= i /\ y < next => tree[y] \notin DOMAIN left

LEMMA ReplacingDirectory ==
    ASSUME Inv, SnapInv, ReplaceDirectory
    PROVE  \E next : Replacing(RemoveAll(ws, tree[i]), next)
<1>1. PICK other : other = {k \in i + 1..Len(tree) : tree[k] \notin Below(tree[i])}
    OBVIOUS
<1>2. PICK next : next = Min(other \cup {Len(tree) + 1})
    OBVIOUS
<1>3. PICK left : left = RemoveAll(ws, tree[i])
    OBVIOUS
<1>4. /\ pc = "walk" /\ Same /\ i <= Len(tree) /\ j <= Len(nodes) /\ tree[i] = nodes[j].path
      /\ nodes[j].type # "dir" /\ Place(left, next)
    BY <1>1, <1>2, <1>3 DEF ReplaceDirectory, Same, Both
<1>5. /\ i \in 1..Len(tree) /\ Len(tree) \in Nat
      /\ IsWorkspace(left) /\ Dated(left, clock + 1) /\ DirAged(ws, left, clock + 1)
      /\ Smaller(ws, left) /\ DOMAIN left = DOMAIN ws \ ({tree[i]} \cup Below(tree[i]))
    BY <1>3, <1>4, SameRemoved, TurnIs
<1>6. next \in Nat /\ i + 1 <= next /\ \A y \in 1..Len(tree) : y > i /\ y < next => tree[y] \in Below(tree[i])
    <2>1. PICK N : N = other \cup {Len(tree) + 1}
        OBVIOUS
    <2>2. N \subseteq i + 1..Len(tree) + 1
        BY <1>1, <1>5, <2>1
    <2>3. N \subseteq Nat /\ N # {}
        BY <1>5, <2>1, <2>2
    <2>4. next \in N /\ \A y \in N : next <= y
        BY <1>2, <2>1, <2>3, MinLeast
    <2>5. next \in Nat /\ i + 1 <= next
        BY <1>5, <2>2, <2>4
    <2>6. ASSUME NEW y \in 1..Len(tree), y > i, y < next PROVE tree[y] \in Below(tree[i])
        <3>1. y \in i + 1..Len(tree)
            BY <1>5, <2>6
        <3>2. y \notin N
            BY <2>4, <2>5, <2>6
        <3> QED BY <1>1, <2>1, <3>1, <3>2
    <2> QED BY <2>5, <2>6
<1>7. Passed(ws, left, nodes, tree, i, j, next)
    BY <1>4, <1>5, <1>6, TurnSnap, ReplacedPassed
<1>8. ASSUME NEW y \in 1..Len(tree), y >= i, y < next PROVE tree[y] \notin DOMAIN left
    <2>1. y = i \/ y > i
        BY <1>5, <1>8
    <2> QED BY <1>5, <1>6, <1>8, <2>1
<1>9. Replacing(left, next)
    BY <1>4, <1>5, <1>7, <1>8 DEF Replacing
<1> QED
    BY <1>3, <1>9

LEMMA ReplacingOther ==
    ASSUME Inv, SnapInv, ReplaceOther
    PROVE  \E next : Replacing(RemoveAll(ws, tree[i]), next)
<1>1. PICK left : left = RemoveAll(ws, tree[i])
    OBVIOUS
<1>2. PICK next : next = i + 1
    OBVIOUS
<1>3. /\ pc = "walk" /\ Same /\ i <= Len(tree) /\ j <= Len(nodes) /\ tree[i] = nodes[j].path
      /\ scan[tree[i]].type # "dir" /\ Place(left, next)
    BY <1>1, <1>2 DEF ReplaceOther, Same, Both
<1>4. /\ i \in 1..Len(tree) /\ Len(tree) \in Nat
      /\ IsWorkspace(left) /\ Dated(left, clock + 1) /\ DirAged(ws, left, clock + 1)
      /\ Smaller(ws, left) /\ DOMAIN left = DOMAIN ws \ ({tree[i]} \cup Below(tree[i]))
    BY <1>1, <1>3, SameRemoved, TurnIs
<1>5. next \in Nat /\ i + 1 <= next /\ \A y \in 1..Len(tree) : ~(y > i /\ y < next)
    BY <1>2, <1>4
<1>6. Passed(ws, left, nodes, tree, i, j, next)
    BY <1>2, <1>3, <1>4, <1>5, TurnSnap, ReplacedPassed
<1>7. nodes[j].path \notin DOMAIN left
    BY <1>3, <1>4
<1>8. ASSUME NEW y \in 1..Len(tree), y >= i, y < next PROVE tree[y] \notin DOMAIN left
    <2>1. y = i
        BY <1>2, <1>4, <1>8
    <2> QED BY <1>4, <2>1
<1>9. Replacing(left, next)
    BY <1>3, <1>4, <1>6, <1>7, <1>8 DEF Replacing
<1> QED
    BY <1>1, <1>9

LEMMA SnapReplace ==
    ASSUME Inv, Inv', SnapInv, ReplaceDirectory \/ ReplaceOther
    PROVE  SnapInv'
<1>1. PICK next : Replacing(RemoveAll(ws, tree[i]), next)
    BY ReplacingDirectory, ReplacingOther
<1>2. PICK left : left = RemoveAll(ws, tree[i])
    OBVIOUS
<1>3. Replacing(left, next)
    BY <1>1, <1>2
<1> QED
    BY <1>3, SnapPlaced DEF Replacing

LEMMA SnapUpdate == ASSUME Inv, Inv', SnapInv, Update PROVE SnapInv'
<1>1. /\ pc = "walk" /\ i <= Len(tree) /\ j <= Len(nodes) /\ tree[i] = nodes[j].path
      /\ scan[tree[i]].type = nodes[j].type
    BY DEF Update, Same, Both
<1>2. i \in 1..Len(tree) /\ j \in 1..Len(nodes) /\ IsWorkspace(ws) /\ Dated(ws, clock + 1)
    BY <1>1, TurnIs
<1>3. /\ Passed(ws, ws, nodes, tree, i, j, i + 1)
      /\ WalkInv(ws, ignored, nodes, scan, tree, i + 1, j + 1)
      /\ nodes[j].path \in DOMAIN ws
    BY <1>1, TurnSnap, UpdatePassed, SameAt
<1>4. CASE Differs
    <2>1. Place(ws, i + 1)
        BY <1>4 DEF Update
    <2>2. nodes[j].type # "dir"
        <3>1. nodes[j].type # "link" => nodes[j].target = ""
            BY <1>2 DEF SnapInv, ForestOf, Formed
        <3> QED BY <1>1, <1>4, <3>1 DEF Differs, Target
    <2>3. DirAged(ws, ws, clock + 1)
        BY DirAgedSame
    <2>4. PICK next : next = i + 1
        OBVIOUS
    <2> QED BY <1>1, <1>2, <1>3, <2>1, <2>2, <2>3, <2>4, SnapPlaced
<1>5. CASE ~Differs
    <2>1. /\ ws' = IF scan[tree[i]].mode = nodes[j].mode THEN ws
                   ELSE WithMode(ws, tree[i], nodes[j].mode)
          /\ i' = i + 1 /\ j' = j + 1
          /\ UNCHANGED <<ignored, quiet, saved, mixed, known, cmd, pc, scan, todo, nodes, root>>
        BY <1>5 DEF Update, walkVars, cacheVars, WithMode
    <2>2. SameShape(ws, ws') /\ DirAged(ws, ws', clock + 1)
        <3>1. PICK new : new = WithMode(ws, tree[i], nodes[j].mode)
            OBVIOUS
        <3>2. SameShape(ws, new) /\ DirAged(ws, new, clock + 1)
            BY <1>2, <3>1, ModeDir
        <3> QED BY <2>1, <3>1, <3>2, DirAgedSame
    <2>3. WalkInv(ws', ignored, nodes, scan, tree, i + 1, j + 1)
        BY <1>3, <2>2, WalkShape
    <2>4. nodes[j].path \in DOMAIN ws'
        BY <1>3, <2>2 DEF SameShape
    <2>5. TreeInv(ws', ignored, nodes, j + 1)
        BY <1>1, <1>2, <2>2, <2>4, WritingIs, TreeAged, TreeForth
    <2>6. SameLines(nodes, nodes') /\ TreeInv(ws', ignored, nodes', j') /\ WalkInv(ws', ignored, nodes', scan, tree, i', j')
        BY <2>1, <2>3, <2>5, SameLinesSelf
    <2> QED BY <1>1, <2>1, <2>2, <2>6, WalkOn
<1> QED
    BY <1>4, <1>5

LEMMA SnapEndWalk == ASSUME Inv, Inv', SnapInv, EndWalk PROVE SnapInv'
<1>1. /\ pc = "walk" /\ j > Len(nodes) /\ pc' = "save" /\ pc' \notin Idle /\ pc \notin Idle
      /\ UNCHANGED <<ws, ignored, quiet, saved, mixed, known, cmd, scan, todo, nodes, root>>
    BY DEF EndWalk, walkVars, cacheVars, Idle
<1>2. j = Len(nodes) + 1
    BY <1>1, TurnIs
<1>3. cmd = "checkout" /\ TreeInv(ws, ignored, nodes, Len(nodes) + 1) /\ Unread = {}
    BY <1>1, <1>2, TurnSnap
<1>4. Unread' = {}
    BY <1>1 DEF Unread
<1>5. ScanInv'
    BY <1>1, <1>3, <1>4, ScanStays
<1>6. CommandInv' /\ WriteInv' /\ CheckoutInv' /\ WrittenIsSnapshot'
    BY <1>1, <1>3 DEF CommandInv, WriteInv, CheckoutInv, WrittenIsSnapshot
<1>7. PICK F : ForestOf(F)
    BY DEF SnapInv
<1>8. ForestOf(F)'
    BY <1>1, <1>3, <1>7 DEF ForestOf
<1>9. IndexInv(ws', ignored', saved')
    BY <1>1 DEF SnapInv
<1> QED
    BY <1>5, <1>6, <1>8, <1>9 DEF SnapInv

LEMMA SnapNext == Inv /\ Inv' /\ SnapInv /\ ignored' = ignored /\ [Next]_vars => SnapInv'
<1> SUFFICES ASSUME Inv, Inv', SnapInv, ignored' = ignored, [Next]_vars PROVE SnapInv'
    OBVIOUS
<1>1. CASE WriteStep
    BY <1>1, SnapStartWrite, SnapReadDirectory, SnapRefreshStep, SnapHashFile, SnapAddFile, SnapEndAdd,
       SnapWriteDirectory, SnapWriteRoot, SnapSave DEF WriteStep
<1>2. CASE CheckoutStep
    <2>1. ASSUME NEW t \in known, StartCheckout(t) \/ StartPullCheckout(t) PROVE SnapInv'
        BY <2>1, SnapBegun DEF StartCheckout, StartPullCheckout
    <2> QED BY <1>2, <2>1, SnapStartWalk, SnapCreateMissing, SnapRemoveRest, SnapRemoveExtra, SnapSkip,
               SnapReplace, SnapUpdate, SnapEndWalk DEF CheckoutStep
<1>3. CASE Environment
    BY <1>3, SnapKill, SnapWriteFile, SnapChmod, SnapCreate, SnapDelete, SnapEvict DEF Environment
<1>4. CASE UNCHANGED vars
    BY <1>4, SnapUnchanged DEF vars, userVars, cacheVars, bounds
<1> QED
    BY <1>1, <1>2, <1>3, <1>4 DEF Next

-----------------------------------------------------------------------------
(* The initial states and SnapInv. *)

\* An index that a write-tree of the workspace has saved.
LEMMA IndexOfWorkspace ==
    ASSUME NEW disk, IsWorkspace(disk), NEW ig
    PROVE  /\ IndexInv(disk, ig, IndexOf(disk, ig)) /\ Formed(TreesIn(disk, ig), IndexOf(disk, ig))
           /\ IsForest(ig, TreesIn(disk, ig)) /\ <<Root, Snapshot(disk, ig)>> \in TreesIn(disk, ig)
<1> DEFINE list == IndexOf(disk, ig)
           hash == Hashes(disk, ig)
           F == TreesIn(disk, ig)
           dirs == DirsOf(disk, ig)
           paths == Sorted(Listed(disk, ig))
<1>1. /\ DOMAIN disk \subseteq Paths
      /\ \A p \in DOMAIN disk :
            /\ disk[p].type \in {"file", "dir", "link"}
            /\ Parent[p] # Root => Parent[p] \in DOMAIN disk /\ disk[Parent[p]].type = "dir"
    BY DEF IsWorkspace, IsEntry
<1>2. /\ IsList(list) /\ Shaped(list, ig) /\ Typed(list) /\ Formed(F, list)
      /\ IsForest(ig, F)
      /\ \A d : Kids(list, d) = {q \in Listed(disk, ig) : Parent[q] = d}
      /\ \A d \in dirs : hash[d] = TreeOf(list, d)
    BY <1>1, IndexOfTrees
<1>3. /\ PathsOf(list) = paths
      /\ \A x \in 1..Len(list) : /\ paths[x] \in Listed(disk, ig)
                                 /\ list[x] = Node(paths[x], disk[paths[x]], hash[paths[x]])
    BY <1>1, IndexOfIs
<1>4. <<Root, Snapshot(disk, ig)>> \in F
    BY DEF Snapshot, TreesIn, DirsOf
<1> HIDE DEF list, hash, F
<1>5. ASSUME NEW x \in Dirs(list)
      PROVE  LET n == list[x] IN
             /\ EntriesOf(disk, ig, n.path) = Kids(list, n.path)
             /\ Held(n.hash, n.path) = Kids(list, n.path)
             /\ n.hash = TreeOf(list, n.path)
    <2> DEFINE n == list[x]
               p == paths[x]
    <2>1. x \in 1..Len(list) /\ n.type = "dir"
        BY DEF Dirs
    <2>2. p \in Listed(disk, ig) /\ n = Node(p, disk[p], hash[p])
        BY <1>3, <2>1
    <2>3. n.path = p /\ n.type = disk[p].type /\ n.hash = hash[p]
        BY <2>2 DEF Node
    <2>4. p \in dirs
        BY <2>1, <2>2, <2>3 DEF DirsOf
    <2>5. n.hash = TreeOf(list, n.path)
        BY <1>2, <2>3, <2>4
    <2>6. EntriesOf(disk, ig, n.path) = Kids(list, n.path)
        BY <1>2 DEF EntriesOf
    <2>7. Held(TreeOf(list, n.path), n.path) = Kids(list, n.path)
        BY <1>2, TreeLines DEF Shaped, Typed
    <2> QED BY <2>5, <2>6, <2>7
<1>6. IndexInv(disk, ig, list)
    BY <1>2, <1>5 DEF IndexInv
<1> QED
    BY <1>2, <1>4, <1>6 DEF list, F, hash

\* The workspaces whose trees are in the cache to begin with.
LEMMA GivenForest ==
    ASSUME NEW ig
    PROVE  \E F : IsForest(ig, F) /\ \A w \in Given : <<Root, Snapshot(w, ig)>> \in F
<1> DEFINE C == {TreesIn(w, ig) : w \in Given}
<1>1. \A w \in Given : IsForest(ig, TreesIn(w, ig)) /\ <<Root, Snapshot(w, ig)>> \in TreesIn(w, ig)
    BY IndexOfWorkspace, WorkspaceAssumption
<1>2. IsForest(ig, UNION C)
    BY <1>1, UnionOfForests
<1>3. \A w \in Given : <<Root, Snapshot(w, ig)>> \in UNION C
    BY <1>1
<1> QED
    BY <1>2, <1>3

LEMMA SnapInit ==
    ASSUME \E list : Patterns = {list}, "truncated" \notin Faults, Init
    PROVE  SnapInv
<1>1. /\ ws \in Starts /\ IsWorkspace(ws)
      /\ known = {Snapshot(w, ignored) : w \in Given}
      /\ saved = <<>> \/ saved = IndexOf(ws, ignored)
    BY WorkspaceAssumption DEF Init
<1>2. /\ pc = "idle" /\ cmd = "none" /\ scan = <<>> /\ nodes = <<>> /\ pc \in Idle
    BY DEF Init, Idle
<1>3. CommandInv /\ WriteInv /\ CheckoutInv /\ WrittenIsSnapshot
    BY <1>2 DEF CommandInv, WriteInv, CheckoutInv, WrittenIsSnapshot
<1>4. ScanInv
    BY <1>2, EmptyScan DEF ScanInv
<1>5. IndexInv(ws, ignored, <<>>)
    <2>1. PICK list : list = <<>> /\ Len(list) = 0
        OBVIOUS
    <2>2. 1..Len(list) = {}
        BY <2>1
    <2>3. IndexInv(ws, ignored, list)
        BY <2>2 DEF IndexInv, Shaped, Ordered, Dirs
    <2> QED BY <2>1, <2>3
<1>6. PICK F : IsForest(ignored, F) /\ \A w \in Given : <<Root, Snapshot(w, ignored)>> \in F
    BY GivenForest
<1>7. PICK K : IsForest(ignored, K) /\ IndexInv(ws, ignored, saved) /\ Formed(K, saved)
    <2>1. CASE saved = <<>>
        <3>1. IsForest(ignored, {})
            BY DEF IsForest
        <3>2. Formed({}, saved)
            BY <2>1, EmptyScan
        <3> QED BY <1>5, <2>1, <3>1, <3>2
    <2>2. CASE saved = IndexOf(ws, ignored)
        BY <1>1, <2>2, IndexOfWorkspace
    <2> QED BY <1>1, <2>1, <2>2
<1>8. IsForest(ignored, F \cup K)
    <2>1. \A G \in {F, K} : IsForest(ignored, G)
        BY <1>6, <1>7
    <2>2. UNION {F, K} = F \cup K
        OBVIOUS
    <2>3. IsForest(ignored, UNION {F, K})
        BY <2>1, UnionOfForests
    <2> QED BY <2>2, <2>3
<1>9. ForestOf(F \cup K)
    <2>1. Formed(F \cup K, saved)
        BY <1>7, LargerForest
    <2>2. Formed(F \cup K, nodes)
        BY <1>2, EmptyScan
    <2>3. \A t \in known : <<Root, t>> \in F \cup K
        BY <1>1, <1>6
    <2>4. ~(cmd = "checkout" \/ pc = "save")
        BY <1>2
    <2> QED BY <1>8, <2>1, <2>2, <2>3, <2>4 DEF ForestOf
<1> QED
    BY <1>3, <1>4, <1>7, <1>9 DEF SnapInv

\* Every command uses the one list of patterns.
LEMMA OneList == ASSUME \E list : Patterns = {list} PROVE Inv /\ Inv' => ignored' = ignored
BY DEF Inv, ControlInv

\* A write-tree that returns while nobody edits prints the digest of the
\* workspace, whatever it reused from the index file (main.cpp, index.cpp): if
\* no other content was stored under the digest of an object of the tree, for
\* one list of patterns, and an index file that was saved whole.
THEOREM PrintedIsSnapshot ==
    ASSUME \E list : Patterns = {list}, "truncated" \notin Faults
    PROVE  Spec => []WrittenIsSnapshot
<1>1. Init => SnapInv
    BY InitInv, SnapInit
<1>2. Inv /\ Inv' /\ SnapInv /\ [Next]_vars => SnapInv'
    BY SnapNext, OneList
<1>3. SnapInv => WrittenIsSnapshot
    BY DEF SnapInv
<1> QED
    BY <1>1, <1>2, <1>3, InductiveInvariant, PTL DEF Spec

-----------------------------------------------------------------------------
(* What write-tree has put into the cache. *)

\* Files that were added, and trees that need not be written or were.
StoredInv ==
    cmd = "write" =>
        /\ pc = "add" /\ ~exn =>
              \A x \in 1..Len(nodes) :
                  nodes[x].type = "file" => nodes[x].path \in todo \/ nodes[x].hash \in store
        /\ pc = "trees" =>
              \A x \in 1..Len(nodes) :
                  \/ nodes[x].hash \in store
                  \/ nodes[x].type = "dir" /\ nodes[x].path \in todo
                  \/ nodes[x].type = "link"
        /\ pc = "save" =>
              /\ root \in store
              /\ \A x \in 1..Len(nodes) : nodes[x].type # "link" => nodes[x].hash \in store

LEMMA StoredRefresh == ASSUME Inv, Refresh PROVE StoredInv'
<1> DEFINE list == Sorted(DOMAIN scan)
           hash == Refreshed(list, scan, nodes)
<1>1. /\ pc' = "add" /\ cmd = "write" /\ UNCHANGED <<cmd, store>>
      /\ nodes' = [k \in DOMAIN list |-> Node(list[k], scan[list[k]], hash[list[k]])]
      /\ todo' = {p \in DOMAIN scan : scan[p].type = "file"}
    BY DEF Refresh, cacheVars
<1>2. DOMAIN scan \subseteq Paths
    BY DEF Inv, DataInv, IsTimedScan
<1>3. IsSortedList(list, DOMAIN scan)
    BY <1>2, SortedTheorem
<1>4. list \in Seq(DOMAIN scan)
    BY <1>3 DEF IsSortedList
<1> HIDE DEF list, hash
<1>5. DOMAIN list = 1..Len(list) /\ Len(list) \in Nat /\ \A k \in 1..Len(list) : list[k] \in DOMAIN scan
    BY <1>4
<1>6. Len(nodes') = Len(list)
    BY <1>1, <1>5
<1>7. ASSUME NEW x \in 1..Len(nodes'), nodes'[x].type = "file"
      PROVE  nodes'[x].path \in todo'
    <2>1. x \in DOMAIN list /\ list[x] \in DOMAIN scan
        BY <1>5, <1>6
    <2>2. nodes'[x] = Node(list[x], scan[list[x]], hash[list[x]])
        BY <1>1, <2>1
    <2>3. nodes'[x].path = list[x] /\ nodes'[x].type = scan[list[x]].type
        BY <2>2 DEF Node
    <2> QED BY <1>1, <1>7, <2>1, <2>3
<1> QED
    BY <1>1, <1>7 DEF StoredInv

LEMMA StoredHashFile == ASSUME Inv, StoredInv, NEW p, HashFile(p) PROVE StoredInv'
<1> DEFINE k == Position(p)
<1>1. pc = "add" /\ p \in todo /\ UNCHANGED <<store, cmd, pc, root>>
    BY DEF HashFile, cacheVars
<1>2. CASE ~Readable(p)
    <2>1. exn' = TRUE
        BY <1>2 DEF HashFile
    <2> QED BY <1>1, <2>1 DEF StoredInv
<1>3. CASE Readable(p)
    <2>1. PICK h : nodes' = [nodes EXCEPT ![k].hash = h] /\ UNCHANGED <<todo, exn>>
        BY <1>3 DEF HashFile
    <2>2. k \in 1..Len(nodes) /\ nodes[k].path = p
        BY <1>1, PositionIs
    <2>3. IsTimedList(nodes, clock)
        BY DEF Inv, DataInv
    <2>4. /\ Len(nodes') = Len(nodes)
          /\ \A x \in 1..Len(nodes) : x # k => nodes'[x] = nodes[x]
          /\ nodes'[k] = [nodes[k] EXCEPT !.hash = h]
        BY <2>1, <2>2, <2>3, RehashedIs DEF Rehashed
    <2>5. nodes'[k].path = p
        <3>1. IsNode(nodes[k])
            BY <2>2, <2>3 DEF IsTimedList
        <3> HIDE DEF k
        <3> QED BY <2>2, <2>4, <3>1 DEF IsNode
    <2> HIDE DEF k
    <2>6. ASSUME cmd = "write", ~exn, NEW x \in 1..Len(nodes'), nodes'[x].type = "file"
          PROVE  nodes'[x].path \in todo' \/ nodes'[x].hash \in store'
        <3>1. CASE x = k
            BY <1>1, <2>1, <2>5, <3>1
        <3>2. CASE x # k
            <4>1. x \in 1..Len(nodes) /\ nodes'[x] = nodes[x]
                BY <2>4, <3>2
            <4>2. nodes[x].path \in todo \/ nodes[x].hash \in store
                BY <1>1, <2>6, <4>1 DEF StoredInv
            <4>3. todo' = todo /\ store' = store
                BY <1>1, <2>1
            <4> QED BY <4>1, <4>2, <4>3
        <3> QED BY <3>1, <3>2
    <2> QED BY <1>1, <2>1, <2>6 DEF StoredInv
<1> QED
    BY <1>2, <1>3

LEMMA StoredAddFile == ASSUME Inv, StoredInv, NEW p, AddFile(p) PROVE StoredInv'
<1> DEFINE k == Position(p)
<1>1. /\ pc = "add" /\ p \in todo /\ todo' = todo \ {p}
      /\ UNCHANGED <<cmd, pc, nodes, root>>
    BY DEF AddFile
<1>2. exn' = TRUE \/ (exn' = exn /\ store \subseteq store' /\ nodes[k].hash \in store')
    BY DEF AddFile, CopyFile
<1>3. \A x \in 1..Len(nodes) : nodes[x].path = p => x = k
    BY <1>1, PositionIs
<1> HIDE DEF k
<1>4. ASSUME cmd = "write", ~exn', NEW x \in 1..Len(nodes), nodes[x].type = "file"
      PROVE  nodes[x].path \in todo' \/ nodes[x].hash \in store'
    <2>1. nodes[x].path \in todo \/ nodes[x].hash \in store
        BY <1>1, <1>2, <1>4 DEF StoredInv
    <2>2. CASE nodes[x].path = p
        BY <1>2, <1>3, <1>4, <2>2
    <2>3. CASE nodes[x].path # p
        BY <1>1, <1>2, <1>4, <2>1, <2>3
    <2> QED BY <2>2, <2>3
<1> QED
    BY <1>1, <1>4 DEF StoredInv

LEMMA StoredEndAdd == ASSUME Inv, StoredInv, EndAdd PROVE StoredInv'
<1>1. pc = "add" /\ todo = {} /\ store' = store
    BY DEF EndAdd, cacheVars
<1>2. CASE exn
    <2>1. pc' = "idle"
        BY <1>2 DEF EndAdd, Fail
    <2> QED BY <2>1 DEF StoredInv
<1>3. CASE ~exn
    <2>1. /\ todo' = {nodes[k].path : k \in {k \in DOMAIN nodes : DirtyDir(k)}}
          /\ pc' = "trees" /\ UNCHANGED <<cmd, nodes>>
        BY <1>3 DEF EndAdd
    <2>2. IsTimedList(nodes, clock)
        BY DEF Inv, DataInv
    <2>3. DOMAIN nodes = 1..Len(nodes) /\ \A x \in 1..Len(nodes) : nodes[x].type \in {"file", "dir", "link"}
        <3>1. nodes \in Seq(ToSet(nodes)) /\ \A x \in 1..Len(nodes) : IsNode(nodes[x])
            BY <2>2 DEF IsTimedList
        <3>2. DOMAIN nodes = 1..Len(nodes)
            BY <3>1
        <3> QED BY <3>1, <3>2 DEF IsNode
    <2>4. ASSUME cmd = "write", NEW x \in 1..Len(nodes)
          PROVE  \/ nodes[x].hash \in store
                 \/ nodes[x].type = "dir" /\ nodes[x].path \in todo'
                 \/ nodes[x].type = "link"
        <3>1. CASE nodes[x].type = "file"
            BY <1>1, <1>3, <2>4, <3>1 DEF StoredInv
        <3>2. CASE nodes[x].type = "dir"
            BY <2>1, <2>3, <3>2 DEF DirtyDir
        <3> QED BY <2>3, <3>1, <3>2
    <2> QED BY <1>1, <2>1, <2>4 DEF StoredInv
<1> QED
    BY <1>2, <1>3

LEMMA StoredWriteDirectory == ASSUME Inv, StoredInv, NEW p, WriteDirectory(p) PROVE StoredInv'
<1> DEFINE k == Position(p)
<1>1. /\ pc = "trees" /\ pc' = "trees" /\ cmd' = cmd /\ p \in todo /\ todo' = todo \ {p}
      /\ nodes' = Written(nodes, k) /\ store' = store \cup {nodes'[k].hash}
    BY DEF WriteDirectory
<1>2. /\ k \in 1..Len(nodes) /\ nodes[k].path = p
      /\ \A x \in 1..Len(nodes) : nodes[x].path = p => x = k
    BY <1>1, PositionIs
<1>3. IsTimedList(nodes, clock)
    BY DEF Inv, DataInv
<1>4. PICK h : h = TreeHash({Line(n) : n \in ChildrenOf(nodes, nodes[k].path)})
    OBVIOUS
<1>5. nodes' = [nodes EXCEPT ![k].hash = h]
    BY <1>1, <1>4 DEF Written
<1>6. Len(nodes') = Len(nodes) /\ \A x \in 1..Len(nodes) : x # k => nodes'[x] = nodes[x]
    BY <1>2, <1>3, <1>5, RehashedIs DEF Rehashed
<1> HIDE DEF k
<1>7. ASSUME cmd = "write", NEW x \in 1..Len(nodes')
      PROVE  \/ nodes'[x].hash \in store'
             \/ nodes'[x].type = "dir" /\ nodes'[x].path \in todo'
             \/ nodes'[x].type = "link"
    <2>1. CASE x = k
        BY <1>1, <2>1
    <2>2. CASE x # k
        <3>1. x \in 1..Len(nodes) /\ nodes'[x] = nodes[x] /\ nodes[x].path # p
            BY <1>2, <1>6, <2>2
        <3> QED BY <1>1, <1>7, <3>1 DEF StoredInv
    <2> QED BY <2>1, <2>2
<1> QED
    BY <1>1, <1>7 DEF StoredInv

LEMMA StoredInit == Init => StoredInv
BY DEF Init, StoredInv

LEMMA StoredWrite == ASSUME Inv, StoredInv, WriteStep PROVE StoredInv'
<1>1. ASSUME StartWrite PROVE StoredInv'
    BY <1>1 DEF StartWrite, StoredInv
<1>2. ASSUME NEW d, ReadDirectory(d) PROVE StoredInv'
    BY <1>2 DEF ReadDirectory, Fail, StoredInv
<1>3. ASSUME WriteRoot PROVE StoredInv'
    <2>1. /\ pc = "trees" /\ todo = {} /\ pc' = "save" /\ UNCHANGED <<cmd, nodes>>
          /\ store' = store \cup {root'}
        BY <1>3 DEF WriteRoot
    <2> QED BY <2>1 DEF StoredInv
<1>4. ASSUME Save PROVE StoredInv'
    BY <1>4 DEF Save, StoredInv
<1> QED
    BY <1>1, <1>2, <1>3, <1>4, StoredRefresh, StoredHashFile, StoredAddFile, StoredEndAdd, StoredWriteDirectory
    DEF WriteStep

LEMMA StoredSame ==
    ASSUME StoredInv, UNCHANGED <<store, cmd, pc, todo, nodes, root, exn>>
    PROVE  StoredInv'
BY DEF StoredInv

LEMMA StoredEdited == ASSUME StoredInv, NEW disk, Edited(disk) PROVE StoredInv'
<1>1. CASE pc \in Idle
    BY <1>1 DEF Edited, Fail, StoredInv
<1>2. CASE pc \notin Idle
    BY <1>2, StoredSame DEF Edited, cacheVars
<1> QED
    BY <1>1, <1>2

LEMMA StoredEnvironment == ASSUME StoredInv, Environment PROVE StoredInv'
<1>1. ASSUME Kill PROVE StoredInv'
    BY <1>1 DEF Kill, Fail, StoredInv
<1>2. ASSUME Evict PROVE StoredInv'
    BY <1>2 DEF Evict, StoredInv, Idle
<1>3. ASSUME NEW p, WriteFile(p) PROVE StoredInv'
    BY <1>3, StoredEdited DEF WriteFile
<1>4. ASSUME NEW p, Chmod(p) PROVE StoredInv'
    BY <1>4, StoredEdited DEF Chmod
<1>5. ASSUME NEW p, Create(p) PROVE StoredInv'
    BY <1>5, StoredEdited DEF Create
<1>6. ASSUME NEW p, Delete(p) PROVE StoredInv'
    BY <1>6, StoredEdited DEF Delete
<1> QED
    BY <1>1, <1>2, <1>3, <1>4, <1>5, <1>6 DEF Environment

LEMMA StoredCheckout == ASSUME SnapInv, StoredInv, CheckoutStep PROVE StoredInv'
<1>1. ASSUME NEW t, Begin(t) PROVE StoredInv'
    BY <1>1 DEF Begin, Fail, StoredInv
<1>2. ASSUME StartWalk PROVE StoredInv'
    BY <1>2 DEF StartWalk, StoredInv
<1>3. ASSUME pc = "walk", cmd' = cmd \/ pc' = "idle" PROVE StoredInv'
    <2>1. cmd = "checkout"
        BY <1>3 DEF SnapInv, CommandInv
    <2> QED BY <1>3, <2>1 DEF StoredInv
<1>4. ASSUME NEW disk, NEW next, Place(disk, next) PROVE StoredInv'
    <2>1. pc = "walk" /\ (cmd' = cmd \/ pc' = "idle")
        BY <1>4 DEF Place, Fail
    <2> QED BY <1>3, <2>1
<1>5. CASE CreateMissing \/ ReplaceDirectory \/ ReplaceOther
    BY <1>4, <1>5 DEF CreateMissing, ReplaceDirectory, ReplaceOther
<1>6. CASE RemoveRest \/ RemoveExtra \/ SkipBelowLink \/ EndWalk
    BY <1>3, <1>6 DEF RemoveRest, RemoveExtra, SkipBelowLink, EndWalk, Extra, Both, Drop, walkVars
<1>7. CASE Update
    <2>1. CASE Differs
        BY <1>4, <1>7, <2>1 DEF Update
    <2>2. CASE ~Differs
        BY <1>3, <1>7, <2>2 DEF Update, Same, Both, walkVars
    <2> QED BY <2>1, <2>2
<1> QED
    BY <1>1, <1>2, <1>5, <1>6, <1>7 DEF CheckoutStep, StartCheckout, StartPullCheckout

LEMMA StoredNext == Inv /\ SnapInv /\ StoredInv /\ [Next]_vars => StoredInv'
<1> SUFFICES ASSUME Inv, SnapInv, StoredInv, [Next]_vars PROVE StoredInv'
    OBVIOUS
<1>1. CASE UNCHANGED vars
    BY <1>1, StoredSame DEF vars, cacheVars
<1> QED
    BY <1>1, StoredWrite, StoredEnvironment, StoredCheckout DEF Next

\* The step that ends a write-tree.
LEMMA SavedTree ==
    ASSUME Inv, SnapInv, StoredInv, pc = "save", cmd = "write", quiet
    PROVE  ObjectsOf(root) \subseteq store
<1>1. /\ IsList(nodes) /\ Typed(nodes) /\ Shaped(nodes, ignored) /\ root = TreeOf(nodes, Root)
      /\ \A x \in Dirs(nodes) : nodes[x].hash = TreeOf(nodes, nodes[x].path)
      /\ \A x \in 1..Len(nodes) : nodes[x].type = "file" => \E c : nodes[x].hash = FileHash(c)
      /\ \A x \in 1..Len(nodes) : nodes[x].type = "link" => nodes[x].hash = NoHash
    BY SavedNodes
<1>2. \A h \in ObjectsOf(root) :
          h = root \/ \E x \in 1..Len(nodes) : nodes[x].type # "link" /\ h = nodes[x].hash
    BY <1>1, ObjectsOfNodes DEF Shaped
<1> QED
    BY <1>2 DEF StoredInv

\* The objects of the tree that a write-tree prints while nobody edits are in
\* the cache, whatever was evicted before it began (cache::add): under the
\* hypotheses of PrintedIsSnapshot.
THEOREM PrintedIsStored ==
    ASSUME \E list : Patterns = {list}, "truncated" \notin Faults
    PROVE  Spec => TreeIsStored
<1>1. Init => SnapInv /\ StoredInv
    BY InitInv, SnapInit, StoredInit
<1>2. Inv /\ Inv' /\ SnapInv /\ StoredInv /\ [Next]_vars => SnapInv' /\ StoredInv'
    BY SnapNext, StoredNext, OneList
<1>3. Inv /\ SnapInv /\ StoredInv =>
         (pc = "save" /\ pc' = "returned" /\ cmd = "write" /\ quiet => ObjectsOf(root) \subseteq store)
    BY SavedTree
<1> QED
    BY <1>1, <1>2, <1>3, InductiveInvariant, PTL DEF Spec, TreeIsStored

\* The step that ends a write-tree: no node is one that is left out.
LEMMA SavedLeftOut ==
    ASSUME Inv, SnapInv, pc = "save", cmd = "write", quiet
    PROVE  \A p \in ignored : Lines(root)[p] = NoLine
<1>1. /\ IsList(nodes) /\ Typed(nodes) /\ Shaped(nodes, ignored) /\ root = TreeOf(nodes, Root)
      /\ \A x \in Dirs(nodes) : nodes[x].hash = TreeOf(nodes, nodes[x].path)
      /\ \A x \in 1..Len(nodes) : nodes[x].type = "file" => \E c : nodes[x].hash = FileHash(c)
      /\ \A x \in 1..Len(nodes) : nodes[x].type = "link" => nodes[x].hash = NoHash
    BY SavedNodes
<1>2. \A p \in ListedIn(root) : \E x \in 1..Len(nodes) : nodes[x].path = p
    BY <1>1, ListedNodes DEF Shaped
<1>3. \A x \in 1..Len(nodes) : nodes[x].path \in Seen(ignored)
    BY <1>1 DEF Shaped
<1> SUFFICES ASSUME NEW p \in ignored PROVE Lines(root)[p] = NoLine
    OBVIOUS
<1>4. p \notin ListedIn(root)
    BY <1>2, <1>3 DEF Seen
<1>5. p \in Paths
    BY WorkspaceAssumption DEF Inv, ControlInv
<1> QED
    BY <1>4, <1>5 DEF ListedIn

LEMMA LeftOut ==
    ASSUME Inv, SnapInv, IgnoredIsLeftOut, ignored' = ignored, [Next]_vars
    PROVE  IgnoredIsLeftOut'
<1>1. CASE UNCHANGED <<pc, cmd, quiet, root>>
    BY <1>1 DEF IgnoredIsLeftOut
<1>2. CASE pc' # "returned" \/ cmd' # "write"
    BY <1>2 DEF IgnoredIsLeftOut
<1>3. CASE Save
    <2>1. pc = "save" /\ UNCHANGED <<cmd, quiet, root>>
        BY <1>3 DEF Save, userVars
    <2>2. CASE cmd = "write" /\ quiet
        <3>1. \A p \in ignored : Lines(root)[p] = NoLine
            BY <2>1, <2>2, SavedLeftOut
        <3> QED BY <2>1, <3>1 DEF IgnoredIsLeftOut
    <2>3. CASE ~(cmd = "write" /\ quiet)
        BY <2>1, <2>3 DEF IgnoredIsLeftOut
    <2> QED BY <2>2, <2>3
<1>4. CASE UNCHANGED vars
    BY <1>1, <1>4 DEF vars, userVars
<1>5. ASSUME WriteStep, ~Save PROVE pc' # "returned" \/ cmd' # "write" \/ UNCHANGED <<pc, cmd, quiet, root>>
    BY <1>5 DEF WriteStep, StartWrite, ReadDirectory, Refresh, HashFile, AddFile, EndAdd, WriteDirectory,
                WriteRoot, Fail, userVars
<1>6. ASSUME Environment PROVE pc' # "returned" \/ UNCHANGED <<pc, cmd, quiet, root>>
    <2>1. ASSUME NEW disk, Edited(disk) PROVE pc' # "returned"
        BY <2>1 DEF Edited, Fail, Idle
    <2>2. ASSUME NEW p, WriteFile(p) \/ Chmod(p) \/ Create(p) \/ Delete(p)
          PROVE  pc' # "returned"
        BY <2>1, <2>2 DEF WriteFile, Chmod, Create, Delete
    <2>3. CASE Kill
        BY <2>3 DEF Kill, Fail
    <2>4. CASE Evict
        BY <2>4 DEF Evict, userVars
    <2> QED BY <1>6, <2>2, <2>3, <2>4 DEF Environment
<1>7. ASSUME CheckoutStep PROVE pc' # "returned"
    <2>1. ASSUME NEW t, Begin(t) PROVE pc' # "returned"
        BY <2>1 DEF Begin, Fail
    <2>2. ASSUME NEW disk, NEW next, Place(disk, next) PROVE pc' # "returned"
        BY <2>2 DEF Place, Fail
    <2>3. CASE CreateMissing \/ ReplaceDirectory \/ ReplaceOther
        BY <2>2, <2>3 DEF CreateMissing, ReplaceDirectory, ReplaceOther
    <2>4. CASE StartWalk \/ RemoveRest \/ RemoveExtra \/ SkipBelowLink \/ EndWalk
        BY <2>4 DEF StartWalk, RemoveRest, RemoveExtra, SkipBelowLink, EndWalk, Extra, Both, Drop, walkVars
    <2>5. CASE Update
        BY <2>2, <2>5 DEF Update, Same, Both, walkVars
    <2> QED BY <1>7, <2>1, <2>3, <2>4, <2>5 DEF CheckoutStep, StartCheckout, StartPullCheckout
<1> QED
    BY <1>1, <1>2, <1>3, <1>4, <1>5, <1>6, <1>7 DEF Next

\* What the patterns match is not in the tree that a write-tree prints while
\* nobody edits (index::refresh), whatever was stored under the digests of its
\* files: under the hypotheses of PrintedIsSnapshot.
THEOREM PrintedLeavesOut ==
    ASSUME \E list : Patterns = {list}, "truncated" \notin Faults
    PROVE  Spec => []IgnoredIsLeftOut
<1>1. Init => SnapInv /\ IgnoredIsLeftOut
    <2>1. Init => pc = "idle"
        BY DEF Init
    <2> QED BY <2>1, InitInv, SnapInit DEF IgnoredIsLeftOut
<1>2. Inv /\ Inv' /\ SnapInv /\ IgnoredIsLeftOut /\ [Next]_vars => SnapInv' /\ IgnoredIsLeftOut'
    BY SnapNext, LeftOut, OneList
<1> QED
    BY <1>1, <1>2, InductiveInvariant, PTL DEF Spec

-----------------------------------------------------------------------------
(* What a turn of the walk leaves as it was. *)

\* The entry at p is the same; a directory may have another time.
StillAt(disk, new, p) ==
    /\ p \in DOMAIN disk /\ p \in DOMAIN new
    /\ new[p].type = disk[p].type /\ new[p].mode = disk[p].mode /\ new[p].data = disk[p].data
    /\ disk[p].type # "dir" => new[p].time = disk[p].time

LEMMA StillSame == ASSUME NEW disk, NEW p \in DOMAIN disk PROVE StillAt(disk, disk, p)
BY DEF StillAt

LEMMA StillTransitive ==
    ASSUME NEW a, NEW b, NEW c, NEW p, StillAt(a, b, p), StillAt(b, c, p)
    PROVE  StillAt(a, c, p)
BY DEF StillAt

LEMMA TouchedStill ==
    ASSUME NEW disk, NEW d, NEW t, \A p \in DOMAIN disk : IsEntry(disk[p]),
           d \in DOMAIN disk => disk[d].type = "dir"
    PROVE  \A p \in DOMAIN disk : StillAt(disk, Touched(disk, d, t), p)
<1> DEFINE new == Touched(disk, d, t)
<1>1. DOMAIN new = DOMAIN disk /\ \A p \in DOMAIN disk : p # d => new[p] = disk[p]
    BY DEF Touched
<1>2. ASSUME d \in DOMAIN disk PROVE StillAt(disk, new, d)
    <2>1. new[d] = [disk[d] EXCEPT !.time = t]
        BY <1>2 DEF Touched
    <2>2. disk[d] = [type |-> disk[d].type, data |-> disk[d].data, mode |-> disk[d].mode, time |-> disk[d].time]
        BY <1>2 DEF IsEntry
    <2> HIDE DEF new
    <2>3. new[d].type = disk[d].type /\ new[d].mode = disk[d].mode /\ new[d].data = disk[d].data
        BY <2>1, <2>2
    <2> QED BY <1>1, <1>2, <2>3 DEF StillAt
<1> HIDE DEF new
<1>3. \A p \in DOMAIN disk : StillAt(disk, new, p)
    BY <1>1, <1>2 DEF StillAt
<1> QED
    BY <1>3 DEF new

\* What is not removed.
LEMMA RemoveAllStill ==
    ASSUME NEW disk, NEW p \in Paths, IsWorkspace(disk)
    PROVE  \A r \in DOMAIN RemoveAll(disk, p) : StillAt(disk, RemoveAll(disk, p), r)
<1> DEFINE q == Real(disk, p)
           P == {q} \cup Below(q)
           left == [r \in DOMAIN disk \ P |-> disk[r]]
           new == RemoveAll(disk, p)
<1>1. CASE q \notin DOMAIN disk
    <2>1. new = disk
        BY <1>1 DEF RemoveAll
    <2> QED BY <2>1, StillSame
<1>2. CASE q \in DOMAIN disk
    <2>1. PICK t : t = clock + 1
        OBVIOUS
    <2>2. new = Touched(left, Parent[q], t)
        BY <1>2, <2>1 DEF RemoveAll
    <2>3. DOMAIN left = DOMAIN disk \ P /\ \A r \in DOMAIN left : left[r] = disk[r]
        OBVIOUS
    <2>4. \A r \in DOMAIN disk : IsEntry(disk[r]) /\ (Parent[r] \in DOMAIN disk => disk[Parent[r]].type = "dir")
        BY TreeAssumption DEF IsWorkspace
    <2> HIDE DEF left, P, new, q
    <2>5. \A r \in DOMAIN left : StillAt(left, Touched(left, Parent[q], t), r)
        <3>1. Parent[q] \in DOMAIN left => left[Parent[q]].type = "dir"
            BY <1>2, <2>3, <2>4
        <3>2. \A r \in DOMAIN left : IsEntry(left[r])
            BY <2>3, <2>4
        <3> QED BY <3>1, <3>2, TouchedStill
    <2>6. DOMAIN new = DOMAIN left
        BY <2>2 DEF Touched
    <2>7. \A r \in DOMAIN new : StillAt(disk, new, r)
        BY <2>2, <2>3, <2>5, <2>6 DEF StillAt
    <2> QED BY <2>7 DEF new
<1> QED
    BY <1>1, <1>2

\* Only the permissions of the entry at p change.
LEMMA ModeStill ==
    ASSUME NEW disk, IsWorkspace(disk), NEW p \in DOMAIN disk, NEW mode
    PROVE  LET new == WithMode(disk, p, mode) IN
           /\ DOMAIN new = DOMAIN disk
           /\ \A r \in DOMAIN disk : r # p => StillAt(disk, new, r)
           /\ new[p].type = disk[p].type /\ new[p].mode = mode /\ new[p].data = disk[p].data
           /\ new[p].time = disk[p].time
<1>1. PICK new : new = WithMode(disk, p, mode)
    OBVIOUS
<1>2. DOMAIN new = DOMAIN disk /\ \A r \in DOMAIN disk : r # p => new[r] = disk[r]
    BY <1>1 DEF WithMode
<1>3. new[p] = [disk[p] EXCEPT !.mode = mode] /\ IsEntry(disk[p])
    BY <1>1 DEF WithMode, IsWorkspace
<1>4. /\ new[p].type = disk[p].type /\ new[p].mode = mode /\ new[p].data = disk[p].data
      /\ new[p].time = disk[p].time
    BY <1>3 DEF IsEntry
<1> QED
    BY <1>1, <1>2, <1>4 DEF StillAt

\* There is what the node says, or what was stored under a digest in M.
Made(disk, n, M) ==
    /\ n.path \in DOMAIN disk
    /\ LET e == disk[n.path] IN
       /\ e.type = n.type /\ e.mode = n.mode /\ Target(e) = n.target
       /\ n.type = "file" => n.hash = FileHash(e.data) \/ n.hash \in M
       /\ n.type # "dir" => e.time = n.time

LEMMA MadeStill ==
    ASSUME NEW disk, NEW new, NEW n, NEW M, Made(disk, n, M), StillAt(disk, new, n.path)
    PROVE  Made(new, n, M)
BY DEF Made, StillAt, Target

\* A file has the digest of one, and a symlink alone has a target.
IsLine(n) ==
    /\ n.type = "file" => \E c : n.hash = FileHash(c)
    /\ n.type # "link" => n.target = ""

\* A node is made, where it seems to be.
LEMMA CheckoutNodeMakes ==
    ASSUME NEW disk, NEW n, clock \in Nat, IsWorkspace(disk), IsNode(n), Clear(disk, n),
           Real(disk, n.path) = n.path,
           IsLine(n), HeldInv
    PROVE  LET new == CheckoutNode(disk, n) IN
           /\ \A r \in DOMAIN disk : r # n.path => StillAt(disk, new, r)
           /\ \A m : /\ m.path = n.path /\ m.type = n.type /\ m.mode = n.mode
                     /\ m.target = n.target /\ m.hash = n.hash /\ m.time = new[n.path].time
                     => Made(new, m, mixed)
<1>0. PICK p : p = n.path
    OBVIOUS
<1> DEFINE entry == [type |-> n.type, mode |-> n.mode, time |-> clock + 1,
                     data |-> CASE n.type = "file" -> HeldBy(n.hash)
                                [] n.type = "link" -> n.target
                                [] OTHER -> ""]
<1>1. PICK new : new = CheckoutNode(disk, n)
    OBVIOUS
<1>2. p \in Paths /\ n.type \in {"file", "dir", "link"} /\ Real(disk, n.path) = p
    BY <1>0 DEF IsNode
<1>3. SUFFICES /\ \A r \in DOMAIN disk : r # p => StillAt(disk, new, r)
               /\ p \in DOMAIN new /\ new[p].type = n.type /\ new[p].mode = n.mode
               /\ n.type = "link" => new[p].data = n.target
               /\ n.type = "file" => FileHash(new[p].data) = n.hash \/ n.hash \in mixed
    <2>1. ASSUME NEW m, p \in DOMAIN new, new[p].type = n.type, new[p].mode = n.mode,
                 n.type = "link" => new[p].data = n.target,
                 n.type = "file" => FileHash(new[p].data) = n.hash \/ n.hash \in mixed,
                 m.path = n.path, m.type = n.type, m.mode = n.mode,
                 m.target = n.target, m.hash = n.hash, m.time = new[n.path].time
          PROVE  Made(new, m, mixed)
        BY <1>0, <2>1 DEF Made, Target, IsLine
    <2> QED BY <1>0, <1>1, <2>1
<1>4. CASE n.type = "dir" /\ p \in DOMAIN disk
    <2>1. new = WithMode(disk, p, n.mode)
        BY <1>1, <1>2, <1>4 DEF CheckoutNode, WithMode
    <2>2. disk[p].type = "dir"
        BY <1>2, <1>4 DEF Clear
    <2>3. PICK mode : mode = n.mode
        OBVIOUS
    <2>4. /\ DOMAIN new = DOMAIN disk
          /\ \A r \in DOMAIN disk : r # p => StillAt(disk, new, r)
          /\ new[p].type = disk[p].type /\ new[p].mode = mode
        BY <1>4, <2>1, <2>3, ModeStill
    <2> QED BY <1>4, <2>2, <2>3, <2>4
<1>5. CASE ~(n.type = "dir" /\ p \in DOMAIN disk)
    <2>1. PICK t : t = clock + 1
        OBVIOUS
    <2>2. PICK put : put = Put(disk, p, entry)
        OBVIOUS
    <2>3. new = Touched(put, Parent[p], t)
        BY <1>1, <1>2, <1>5, <2>1, <2>2 DEF CheckoutNode
    <2>4. IsEntry(entry) /\ entry.type = n.type /\ entry.mode = n.mode
        BY DEF IsEntry, IsNode
    <2>5. n.type = "link" => entry.data = n.target
        OBVIOUS
    <2>6. n.type = "file" => FileHash(entry.data) = n.hash \/ n.hash \in mixed
        <3> SUFFICES ASSUME n.type = "file", n.hash \notin mixed PROVE FileHash(entry.data) = n.hash
            OBVIOUS
        <3>1. PICK c : n.hash = FileHash(c)
            BY DEF IsLine
        <3>2. entry.data = HeldBy(n.hash) /\ HeldBy(n.hash) = Content(n.hash)
            BY HeldIs
        <3> QED BY <3>1, <3>2, ContentIs
    <2> HIDE DEF entry
    <2>7. DOMAIN put = DOMAIN disk \cup {p} /\ put[p] = entry /\ \A r \in DOMAIN disk : r # p => put[r] = disk[r]
        BY <2>2 DEF Put
    <2>8. Parent[p] # p
        BY <1>2, ParentRank, RankNat, TreeAssumption
    <2>9. Parent[p] \in DOMAIN put => put[Parent[p]].type = "dir"
        <3>1. Parent[p] = Root \/ (Parent[p] \in DOMAIN disk /\ disk[Parent[p]].type = "dir")
            BY <1>2 DEF Clear
        <3>2. Root \notin DOMAIN put
            BY <1>2, <2>7, TreeAssumption DEF IsWorkspace
        <3> QED BY <2>7, <2>8, <3>1, <3>2
    <2>10. \A r \in DOMAIN put : IsEntry(put[r])
        BY <2>4, <2>7 DEF IsWorkspace
    <2>11. \A r \in DOMAIN put : StillAt(put, new, r)
        BY <2>3, <2>9, <2>10, TouchedStill
    <2>12. \A r \in DOMAIN disk : r # p => StillAt(disk, new, r)
        BY <2>7, <2>11 DEF StillAt
    <2>13. p \in DOMAIN put /\ StillAt(put, new, p)
        BY <2>7, <2>11
    <2> QED BY <2>4, <2>5, <2>6, <2>7, <2>12, <2>13 DEF StillAt
<1> QED
    BY <1>4, <1>5

-----------------------------------------------------------------------------
(* The turns of a checkout while nobody edits. *)

\* The walk: the nodes that it has passed are made, the entries that it has
\* not are as they were found, or below what is no directory of the tree, and
\* there is nothing else.
TurnInv(disk, ig, list, entries, found, a, b, M) ==
    /\ \A x \in 1..Len(list) : x < b => Made(disk, list[x], M)
    /\ \A y \in 1..Len(found) :
          y >= a => \/ StillAt(entries, disk, found[y])
                    \/ \E d \in Above[found[y]] : \A x \in Dirs(list) : list[x].path # d
    /\ \A p \in Listed(disk, ig) :
          \/ \E y \in 1..Len(found) : y >= a /\ found[y] = p
          \/ \E x \in 1..Len(list) : x < b /\ list[x].path = p

\* The node at b is made on what is left of the disk, and the walk goes on at a2.
LEMMA PlacedTurn ==
    ASSUME NEW M, NEW disk, NEW ig, NEW list, NEW entries, NEW found, NEW a, NEW b,
           Walking(disk, ig, list, entries, found, a, b), b <= Len(list),
           TurnInv(disk, ig, list, entries, found, a, b, M),
           NEW left, NEW a2, Passed(disk, left, list, found, a, b, a2),
           \A r \in DOMAIN left : StillAt(disk, left, r),
           \A y \in 1..Len(found) :
              y >= a /\ y < a2 => found[y] = list[b].path \/ found[y] \notin DOMAIN left,
           NEW new, DOMAIN new = DOMAIN left \cup {list[b].path},
           \A r \in DOMAIN left : r # list[b].path => StillAt(left, new, r),
           NEW next, SameLines(list, next), Made(new, next[b], M),
           \A x \in 1..Len(list) : x # b => next[x] = list[x]
    PROVE  TurnInv(new, ig, next, entries, found, a2, b + 1, M)
<1>1. /\ Len(list) \in Nat /\ Len(found) \in Nat /\ a \in Nat /\ b \in Nat /\ b \in 1..Len(list)
      /\ \A x, y \in 1..Len(list) : list[x].path = list[y].path => x = y
      /\ \A x \in 1..Len(list) : list[x].path \in Paths
      /\ \A y \in 1..Len(found) : found[y] \in Paths
    BY WalkingIs DEF Walking
<1>2. /\ DOMAIN left \subseteq DOMAIN disk /\ a2 \in Nat /\ a <= a2
      /\ \A y \in 1..Len(found) : y >= a2 => Rank[list[b].path] < Rank[found[y]]
      /\ \A x \in 1..Len(list) : x < b => list[x].path \in DOMAIN left
      /\ \A y \in 1..Len(found) :
            y >= a2 => \/ found[y] \in DOMAIN disk => found[y] \in DOMAIN left
                       \/ \E d \in Above[found[y]] : \A x \in Dirs(list) : list[x].path # d
    BY DEF Passed, Smaller
<1>3. \A r \in DOMAIN left : r # list[b].path => StillAt(disk, new, r)
    BY StillTransitive
<1>4. Len(next) = Len(list) /\ Dirs(next) = Dirs(list) /\ \A x \in 1..Len(list) : next[x].path = list[x].path
    BY SameLinesIs DEF SameLines
<1>5. ASSUME NEW x \in 1..Len(next), x < b + 1 PROVE Made(new, next[x], M)
    <2>1. CASE x # b
        <3>1. x \in 1..Len(list) /\ x < b /\ next[x] = list[x]
            BY <1>1, <1>4, <1>5, <2>1
        <3>2. Made(disk, list[x], M) /\ list[x].path \in DOMAIN left
            BY <1>2, <3>1 DEF TurnInv
        <3>3. list[x].path # list[b].path
            BY <1>1, <2>1, <3>1
        <3>4. StillAt(disk, new, list[x].path)
            BY <1>3, <3>2, <3>3
        <3> QED BY <3>1, <3>2, <3>4, MadeStill
    <2> QED BY <2>1
<1>6. ASSUME NEW y \in 1..Len(found), y >= a2
      PROVE  \/ StillAt(entries, new, found[y])
             \/ \E d \in Above[found[y]] : \A x \in Dirs(next) : next[x].path # d
    <2>1. y >= a
        BY <1>1, <1>2, <1>6
    <2>2. CASE \E d \in Above[found[y]] : \A x \in Dirs(list) : list[x].path # d
        BY <1>4, <2>2 DEF Dirs
    <2>3. CASE ~ \E d \in Above[found[y]] : \A x \in Dirs(list) : list[x].path # d
        <3>1. StillAt(entries, disk, found[y])
            BY <2>1, <2>3 DEF TurnInv
        <3>2. found[y] \in DOMAIN left
            BY <1>2, <1>6, <2>3, <3>1 DEF StillAt
        <3>3. found[y] # list[b].path
            <4>1. Rank[list[b].path] < Rank[found[y]]
                BY <1>2, <1>6
            <4>2. Rank[found[y]] \in Nat
                BY <1>1, RankNat
            <4> QED BY <4>1, <4>2
        <3> QED BY <1>3, <3>1, <3>2, <3>3, StillTransitive
    <2> QED BY <2>2, <2>3
<1>7. ASSUME NEW p \in Listed(new, ig)
      PROVE  \/ \E y \in 1..Len(found) : y >= a2 /\ found[y] = p
             \/ \E x \in 1..Len(next) : x < b + 1 /\ next[x].path = p
    <2>1. CASE p = list[b].path
        <3>1. b \in 1..Len(next) /\ b < b + 1 /\ next[b].path = p
            BY <1>1, <1>4, <2>1
        <3> QED BY <3>1
    <2>2. CASE p # list[b].path
        <3>1. p \in DOMAIN left /\ p \in Listed(disk, ig)
            BY <1>2, <2>2 DEF Listed
        <3>2. CASE \E x \in 1..Len(list) : x < b /\ list[x].path = p
            <4>1. PICK x \in 1..Len(list) : x < b /\ list[x].path = p
                BY <3>2
            <4>2. x \in 1..Len(next) /\ x < b + 1 /\ next[x].path = p
                BY <1>1, <1>4, <4>1
            <4> QED BY <4>2
        <3>3. CASE \E y \in 1..Len(found) : y >= a /\ found[y] = p
            <4>1. PICK y \in 1..Len(found) : y >= a /\ found[y] = p
                BY <3>3
            <4>2. ~(y < a2)
                BY <2>2, <3>1, <4>1
            <4>3. y >= a2
                BY <1>1, <1>2, <4>2
            <4> QED BY <4>1, <4>3
        <3> QED BY <3>1, <3>2, <3>3 DEF TurnInv
    <2> QED BY <2>1, <2>2
<1> QED
    BY <1>5, <1>6, <1>7 DEF TurnInv

\* The entry at a is not in the tree: it is removed with what is below it, or
\* it is not there.
LEMMA ExtraTurn ==
    ASSUME NEW M, NEW disk, NEW ig, NEW list, NEW entries, NEW found, NEW a, NEW b,
           Walking(disk, ig, list, entries, found, a, b), a <= Len(found),
           b <= Len(list) => Rank[found[a]] < Rank[list[b].path],
           TurnInv(disk, ig, list, entries, found, a, b, M),
           NEW left,
           \/ left = disk /\ found[a] \notin DOMAIN disk
           \/ /\ DOMAIN left = DOMAIN disk \ ({found[a]} \cup Below(found[a]))
              /\ \A r \in DOMAIN left : StillAt(disk, left, r)
    PROVE  TurnInv(left, ig, list, entries, found, a + 1, b, M)
<1>1. /\ Len(list) \in Nat /\ Len(found) \in Nat /\ a \in Nat /\ b \in Nat /\ a \in 1..Len(found)
      /\ \A x, y \in 1..Len(list) : x < y => Rank[list[x].path] < Rank[list[y].path]
      /\ \A x \in 1..Len(list) : list[x].path \in Paths
      /\ \A y \in 1..Len(found) : found[y] \in Paths
      /\ \A x, y \in 1..Len(found) : x < y => Rank[found[x]] < Rank[found[y]]
    <2>1. Len(found) \in Nat /\ a \in 1..Len(found) + 1
        BY WalkingIs DEF Walking
    <2>2. a \in 1..Len(found)
        BY <2>1
    <2>3. /\ Len(list) \in Nat /\ b \in Nat
          /\ \A y \in 1..Len(found) : found[y] \in Paths
          /\ \A x, y \in 1..Len(found) : x < y => Rank[found[x]] < Rank[found[y]]
          /\ \A x \in 1..Len(list) : list[x].path \in Paths
          /\ \A x, y \in 1..Len(list) : x < y => Rank[list[x].path] < Rank[list[y].path]
        BY WalkingIs
    <2> QED BY <2>1, <2>2, <2>3
<1>2. b >= 1
    BY DEF Walking
<1>3. PICK q \in Paths : q = found[a]
    BY <1>1
<1>4. \A r \in DOMAIN left : r \in DOMAIN disk /\ StillAt(disk, left, r) /\ r # q
    BY <1>3, StillSame
<1>5. \A x \in 1..Len(list) : x < b => Rank[list[x].path] < Rank[q]
    BY <1>1, <1>3 DEF Walking, WalkInv
<1>6. \A x \in 1..Len(list) : list[x].path # q
    <2> TAKE x \in 1..Len(list)
    <2>1. Rank[q] \in Nat /\ Rank[list[x].path] \in Nat
        BY <1>1, RankNat
    <2>2. CASE x < b
        BY <1>5, <2>1, <2>2
    <2>3. CASE x >= b
        <3>1. b \in 1..Len(list)
            BY <1>1, <1>2, <2>3
        <3>2. Rank[q] < Rank[list[b].path] /\ Rank[list[b].path] \in Nat
            BY <1>1, <1>3, <3>1, RankNat
        <3>3. x = b \/ Rank[list[b].path] < Rank[list[x].path]
            BY <1>1, <2>3, <3>1
        <3> QED BY <2>1, <3>2, <3>3
    <2> QED BY <1>1, <2>2, <2>3
<1>7. ASSUME NEW x \in 1..Len(list), x < b PROVE Made(left, list[x], M)
    <2>1. Made(disk, list[x], M) /\ list[x].path \in Paths
        BY <1>1, <1>7 DEF TurnInv
    <2>2. list[x].path \notin {q} \cup Below(q)
        <3>1. Rank[list[x].path] < Rank[q] /\ Rank[list[x].path] \in Nat /\ Rank[q] \in Nat
            BY <1>5, <1>7, <2>1, RankNat
        <3>2. q \notin Above[list[x].path]
            <4> SUFFICES ASSUME q \in Above[list[x].path] PROVE FALSE
                OBVIOUS
            <4>1. Rank[q] < Rank[list[x].path]
                BY <2>1, AboveOrder
            <4> QED BY <3>1, <4>1
        <3> QED BY <1>6, <3>2 DEF Below
    <2>3. list[x].path \in DOMAIN left
        BY <1>3, <2>1, <2>2 DEF Made
    <2> QED BY <1>4, <2>1, <2>3, MadeStill
<1>8. ASSUME NEW y \in 1..Len(found), y >= a + 1
      PROVE  \/ StillAt(entries, left, found[y])
             \/ \E d \in Above[found[y]] : \A x \in Dirs(list) : list[x].path # d
    <2>1. y >= a /\ y # a /\ found[y] \in Paths /\ found[y] # q
        <3>1. Rank[q] < Rank[found[y]] /\ Rank[q] \in Nat
            BY <1>1, <1>3, <1>8, RankNat
        <3> QED BY <1>1, <1>8, <3>1
    <2>2. CASE \E d \in Above[found[y]] : \A x \in Dirs(list) : list[x].path # d
        BY <2>2
    <2>3. CASE StillAt(entries, disk, found[y])
        <3>1. CASE found[y] \in Below(q)
            <4>1. q \in Above[found[y]] /\ \A x \in Dirs(list) : list[x].path # q
                BY <1>6, <3>1 DEF Below, Dirs
            <4> QED BY <4>1
        <3>2. CASE found[y] \notin Below(q)
            <4>1. found[y] \in DOMAIN left
                BY <1>3, <2>1, <2>3, <3>2 DEF StillAt
            <4> QED BY <1>4, <2>3, <4>1, StillTransitive
        <3> QED BY <3>1, <3>2
    <2> QED BY <2>1, <2>2, <2>3 DEF TurnInv
<1>9. ASSUME NEW p \in Listed(left, ig)
      PROVE  \/ \E y \in 1..Len(found) : y >= a + 1 /\ found[y] = p
             \/ \E x \in 1..Len(list) : x < b /\ list[x].path = p
    <2>1. p \in Listed(disk, ig) /\ p # q
        BY <1>4 DEF Listed
    <2>2. ASSUME NEW y \in 1..Len(found), y >= a, found[y] = p PROVE y >= a + 1
        BY <1>1, <1>3, <2>1, <2>2
    <2> QED BY <2>1, <2>2 DEF TurnInv
<1> QED
    BY <1>7, <1>8, <1>9 DEF TurnInv

\* The walk begins.
LEMMA StartTurns ==
    ASSUME NEW disk, IsWorkspace(disk), NEW ig, NEW entries, DOMAIN entries \subseteq Paths,
           ScanTyped(disk, ig, entries, {}), ScanExact(disk, ig, entries, {}),
           NEW M, NEW list, NEW found, found = Sorted(DOMAIN entries)
    PROVE  TurnInv(disk, ig, list, entries, found, 1, 1, M)
<1>1. Listed(disk, ig) \subseteq DOMAIN entries
    BY ScanWhole
<1>2. IsSortedList(found, DOMAIN entries)
    BY SortedTheorem
<1>3. /\ Len(found) \in Nat
      /\ \A y \in 1..Len(found) : found[y] \in DOMAIN entries
      /\ \A p \in DOMAIN entries : \E y \in 1..Len(found) : found[y] = p
    BY <1>2 DEF IsSortedList
<1>4. \A y \in 1..Len(found) : StillAt(entries, disk, found[y])
    BY <1>3 DEF ScanExact, StillAt
<1> QED
    BY <1>1, <1>3, <1>4 DEF TurnInv

\* Every file of the workspace is recorded with its metadata.
Recorded(disk, ig, list) ==
    \A p \in Listed(disk, ig) :
        disk[p].type = "file" =>
            \E x \in 1..Len(list) : list[x].path = p /\ Equivalent(list[x], disk[p])

\* The walk ends: the workspace is the tree, whose digest is t.
LEMMA EndTurns ==
    ASSUME NEW M, NEW disk, DOMAIN disk \subseteq Paths, NEW ig, NEW list, IsList(list), Typed(list), Shaped(list, ig),
           NEW entries, NEW found, NEW a, a > Len(found), Len(found) \in Nat, a \in Nat,
           NEW b, b > Len(list), b \in Nat,
           TurnInv(disk, ig, list, entries, found, a, b, M),
           \A x \in Dirs(list) : list[x].hash = TreeOf(list, list[x].path),
           \A x \in 1..Len(list) : list[x].type = "link" => list[x].hash = NoHash,
           NEW t, t = TreeOf(list, Root)
    PROVE  (ObjectsOf(t) \cap M = {} => t = Snapshot(disk, ig)) /\ Recorded(disk, ig, list)
<1>1. Len(list) \in Nat
    BY DEF IsList
<1>2. \A x \in 1..Len(list) : Made(disk, list[x], M)
    BY <1>1 DEF TurnInv
<1>3. \A p \in Listed(disk, ig) : \E x \in 1..Len(list) : list[x].path = p
    <2>1. \A y \in 1..Len(found) : ~(y >= a)
        OBVIOUS
    <2> QED BY <2>1 DEF TurnInv
<1>4. \A x \in 1..Len(list) : list[x].path \in Listed(disk, ig)
    BY <1>2 DEF Made, Shaped, Listed, Seen
<1>5. \A d : Kids(list, d) = EntriesOf(disk, ig, d)
    <2> TAKE d
    <2>1. \A p \in Kids(list, d) : p \in EntriesOf(disk, ig, d)
        BY <1>4 DEF Kids, Within, EntriesOf
    <2>2. \A p \in EntriesOf(disk, ig, d) : p \in Kids(list, d)
        BY <1>3 DEF Kids, Within, EntriesOf
    <2> QED BY <2>1, <2>2
<1>6. ASSUME ObjectsOf(t) \cap M = {}, NEW x \in 1..Len(list)
      PROVE  IsLineOf(list[x], disk[list[x].path])
    <2>1. list[x].type = "file" => list[x].hash \notin M
        BY <1>6, NodesAreObjects
    <2> QED BY <1>2, <2>1 DEF Made, IsLineOf
<1>7. ObjectsOf(t) \cap M = {} => t = Snapshot(disk, ig)
    BY <1>5, <1>6, SnapshotOfNodes
<1>8. Recorded(disk, ig, list)
    <2> SUFFICES ASSUME NEW p \in Listed(disk, ig), disk[p].type = "file"
                 PROVE  \E x \in 1..Len(list) : list[x].path = p /\ Equivalent(list[x], disk[p])
        BY DEF Recorded
    <2>1. PICK x \in 1..Len(list) : list[x].path = p
        BY <1>3
    <2>2. Made(disk, list[x], M)
        BY <1>2
    <2>3. Equivalent(list[x], disk[p])
        BY <2>1, <2>2 DEF Made, Equivalent
    <2> QED BY <2>1, <2>3
<1> QED
    BY <1>7, <1>8

-----------------------------------------------------------------------------
(* The invariant for CheckedOutIsTree. *)

\* A checkout while nobody edits.
QuietInv ==
    /\ cmd = "checkout" /\ quiet =>
          /\ pc = "scan" => ScanExact(ws, ignored, scan, todo)
          /\ pc \in {"scan", "walk"} => root = TreeOf(nodes, Root)
          /\ pc = "walk" => TurnInv(ws, ignored, nodes, scan, tree, i, j, mixed)
          /\ pc = "save" => /\ Unmixed(root) => root = Snapshot(ws, ignored)
                            /\ Recorded(ws, ignored, nodes)
    /\ CheckedOutIsTree
    /\ pc = "returned" /\ quiet => Recorded(ws, ignored, saved)

\* What the comment in checkout says of a turn: a node of the workspace that is
\* below a symlink is ignored.
Ignores == pc = "walk" /\ i' = i + 1 /\ j' = j /\ ~Canonical(ws, tree[i]) => ws' = ws

LEMMA QuietOver == ASSUME quiet' = FALSE PROVE QuietInv'
BY DEF QuietInv, CheckedOutIsTree, Unmixed

LEMMA QuietSame ==
    ASSUME QuietInv, UNCHANGED <<ws, quiet, ignored, saved, mixed, cmd, pc, scan, todo, nodes, root, i, j>>
    PROVE  QuietInv'
<1>1. tree' = tree
    BY DEF tree
<1> QED
    BY <1>1 DEF QuietInv, CheckedOutIsTree, Unmixed

LEMMA QuietWriting == ASSUME cmd' = "write", pc' # "returned" PROVE QuietInv'
BY DEF QuietInv, CheckedOutIsTree, Unmixed

LEMMA QuietEnvironment == ASSUME QuietInv, Environment PROVE QuietInv'
<1>1. ASSUME NEW disk, Edited(disk) PROVE QuietInv'
    <2>1. quiet' = FALSE
        BY <1>1 DEF Edited, Fail
    <2> QED BY <2>1, QuietOver
<1>2. CASE Kill
    BY <1>2, QuietOver DEF Kill, Fail
<1>3. CASE Evict
    BY <1>3, QuietSame DEF Evict, userVars
<1>4. ASSUME NEW p, WriteFile(p) \/ Chmod(p) \/ Create(p) \/ Delete(p) PROVE QuietInv'
    <2>1. CASE WriteFile(p)
        BY <1>1, <2>1 DEF WriteFile
    <2>2. CASE Chmod(p)
        BY <1>1, <2>2 DEF Chmod
    <2>3. CASE Create(p)
        BY <1>1, <2>3 DEF Create
    <2>4. CASE Delete(p)
        BY <1>1, <2>4 DEF Delete
    <2> QED BY <1>4, <2>1, <2>2, <2>3, <2>4
<1> QED
    BY <1>2, <1>3, <1>4 DEF Environment

\* The index that write-tree saves, or the one of the tree.
LEMMA QuietSave == ASSUME Inv, SnapInv, QuietInv, Save PROVE QuietInv'
<1>1. /\ pc = "save" /\ pc' = "returned" /\ saved' = nodes
      /\ UNCHANGED <<ws, ignored, quiet, mixed, cmd, root>>
    BY DEF Save, userVars
<1>2. CASE ~quiet
    BY <1>1, <1>2, QuietOver DEF Inv, ControlInv
<1>3. CASE quiet
    <2>1. cmd \in {"write", "checkout"} /\ pc \notin Idle /\ Unread = {}
        BY <1>1 DEF SnapInv, CommandInv, Idle, Unread
    <2>2. CASE cmd = "checkout"
        BY <1>1, <1>3, <2>2 DEF QuietInv, CheckedOutIsTree, Unmixed
    <2>3. CASE cmd = "write"
        <3>1. OfScan(nodes, scan) /\ ScanExact(ws, ignored, scan, {})
            BY <1>1, <1>3, <2>1, <2>3 DEF SnapInv, WriteInv, ScanInv
        <3>2. Listed(ws, ignored) \subseteq DOMAIN scan
            BY <2>1, <3>1, WritingIs, ScanOfExact, ScanWhole
        <3>3. Recorded(ws, ignored, nodes)
            <4> SUFFICES ASSUME NEW p \in Listed(ws, ignored), ws[p].type = "file"
                         PROVE  \E x \in 1..Len(nodes) : nodes[x].path = p /\ Equivalent(nodes[x], ws[p])
                BY DEF Recorded
            <4>1. p \in DOMAIN scan /\ scan[p] = ws[p]
                BY <3>1, <3>2 DEF ScanExact
            <4>2. PICK x \in 1..Len(nodes) : nodes[x].path = p
                BY <3>1, <4>1, WritingIs, OfScanIs
            <4>3. /\ nodes[x].type = scan[p].type /\ nodes[x].mode = scan[p].mode
                  /\ nodes[x].target = Target(scan[p]) /\ nodes[x].time = scan[p].time
                <5>1. nodes[x] = Node(p, scan[p], nodes[x].hash)
                    BY <3>1, <4>2 DEF OfScan
                <5> QED BY <4>2, <5>1 DEF Node
            <4> QED BY <4>1, <4>2, <4>3 DEF Equivalent
        <3> QED BY <1>1, <2>3, <3>3 DEF QuietInv, CheckedOutIsTree, Unmixed
    <2> QED BY <2>1, <2>2, <2>3
<1> QED
    BY <1>2, <1>3 DEF Inv, ControlInv

LEMMA QuietReadDirectory == ASSUME Inv, SnapInv, QuietInv, NEW d, ReadDirectory(d) PROVE QuietInv'
<1>1. pc = "scan" /\ d \in todo /\ UNCHANGED <<ws, ignored, saved, mixed>>
    BY DEF ReadDirectory, cacheVars
<1>2. CASE Fail
    BY <1>2, QuietOver DEF Fail
<1>3. CASE ~Fail
    <2>1. PICK found : found = Found(ws, ignored, d)
        OBVIOUS
    <2>2. /\ scan' = Extended(ws, scan, found) /\ todo' = Left(ws, todo, d, found)
          /\ UNCHANGED <<quiet, cmd, pc, nodes, root>>
        BY <1>3, <2>1 DEF ReadDirectory, Extended, Left, Found
    <2>3. ScanTodo(scan, todo) /\ ScanShape(ignored, scan)
        BY <1>1 DEF SnapInv, ScanInv
    <2>4. ScanExact(ws, ignored, scan, todo) => ScanExact(ws, ignored, scan', todo')
        BY <1>1, <2>1, <2>2, <2>3, WritingIs, ReadIs
    <2> QED BY <1>1, <2>2, <2>4 DEF QuietInv, CheckedOutIsTree, Unmixed
<1> QED
    BY <1>2, <1>3

LEMMA QuietWrite == ASSUME Inv, SnapInv, QuietInv, WriteStep PROVE QuietInv'
<1>1. ASSUME NEW p, HashFile(p) \/ AddFile(p) \/ WriteDirectory(p) PROVE QuietInv'
    <2>1. pc' = pc /\ cmd' = cmd /\ pc \in {"add", "trees"}
        BY <1>1 DEF HashFile, AddFile, WriteDirectory
    <2>2. cmd = "write"
        BY <2>1 DEF SnapInv, CommandInv
    <2> QED BY <2>1, <2>2, QuietWriting
<1>2. CASE StartWrite
    BY <1>2, QuietWriting DEF StartWrite
<1>3. CASE Refresh
    BY <1>3, QuietWriting DEF Refresh
<1>4. CASE EndAdd
    <2>1. CASE exn
        BY <1>4, <2>1, QuietOver DEF EndAdd, Fail
    <2>2. CASE ~exn
        <3>1. pc = "add" /\ cmd' = cmd /\ pc' = "trees"
            BY <1>4, <2>2 DEF EndAdd
        <3> QED BY <3>1, QuietWriting DEF SnapInv, CommandInv
    <2> QED BY <2>1, <2>2
<1>5. CASE WriteRoot
    <2>1. pc = "trees" /\ cmd' = cmd /\ pc' = "save"
        BY <1>5 DEF WriteRoot
    <2> QED BY <2>1, QuietWriting DEF SnapInv, CommandInv
<1> QED
    BY <1>1, <1>2, <1>3, <1>4, <1>5, QuietReadDirectory, QuietSave DEF WriteStep

-----------------------------------------------------------------------------
(* The steps of checkout and QuietInv. *)

LEMMA QuietBegun == ASSUME Inv, SnapInv, QuietInv, NEW t \in known, Begin(t), ignored' = ignored PROVE QuietInv'
<1>1. CASE Fail
    BY <1>1, QuietOver DEF Fail
<1>2. CASE ~Fail
    <2>1. /\ cmd' = "checkout" /\ pc' = "scan" /\ root' = t /\ scan' = <<>> /\ todo' = {Root}
          /\ nodes' = CopyMetadata(Listing(t), saved) /\ UNCHANGED <<ws, ignored>>
        BY <1>2 DEF Begin
    <2>2. PICK F : IsForest(ignored, F) /\ <<Root, t>> \in F
        BY DEF SnapInv, ForestOf
    <2>3. PICK G : IsCache(G) /\ t \in G
        BY DEF Inv, CacheOf
    <2>4. PICK list : list = Listing(t)
        OBVIOUS
    <2>5. IsList(list) /\ Typed(list) /\ t = TreeOf(list, Root)
        BY <2>2, <2>3, <2>4, ListingForest
    <2>6. \A x \in 1..Len(list) : IsNode(list[x]) /\ list[x].time = 0
        BY <2>4, <2>5, ListingNodes
    <2>7. SameLines(list, CopyMetadata(list, saved))
        BY <2>5, <2>6, WritingIs, CopiedLines
    <2>8. TreeOf(nodes', Root) = t
        BY <2>1, <2>4, <2>5, <2>7, SameLinesIs
    <2>9. ScanExact(ws, ignored, scan', {Root})
        <3>1. PICK entries : entries = <<>> /\ DOMAIN entries = {}
            OBVIOUS
        <3>2. ScanExact(ws, ignored, entries, {Root})
            BY <3>1 DEF ScanExact
        <3> QED BY <2>1, <3>1, <3>2
    <2> QED BY <2>1, <2>8, <2>9 DEF QuietInv, CheckedOutIsTree, Unmixed
<1> QED
    BY <1>1, <1>2

LEMMA QuietStartWalk == ASSUME Inv, SnapInv, QuietInv, StartWalk PROVE QuietInv'
<1>1. /\ pc = "scan" /\ todo = {} /\ cmd = "checkout" /\ pc' = "walk" /\ i' = 1 /\ j' = 1
      /\ UNCHANGED <<ws, ignored, quiet, mixed, cmd, scan, nodes, root>>
    BY DEF StartWalk, userVars, cacheVars
<1>2. ScanTyped(ws, ignored, scan, {})
    BY <1>1 DEF SnapInv, ScanInv
<1>3. PICK found : found = Sorted(DOMAIN scan)
    OBVIOUS
<1>4. quiet => TurnInv(ws, ignored, nodes, scan, found, 1, 1, mixed)
    BY <1>1, <1>2, <1>3, WritingIs, StartTurns DEF QuietInv
<1>5. tree' = found
    BY <1>1, <1>3 DEF tree
<1> QED
    BY <1>1, <1>4, <1>5 DEF QuietInv, CheckedOutIsTree, Unmixed

\* The walk goes on.
LEMMA TurnOn ==
    ASSUME QuietInv, pc = "walk", UNCHANGED <<ignored, quiet, mixed, cmd, pc, scan, root>>,
           SameLines(nodes, nodes'),
           cmd = "checkout" /\ quiet => TurnInv(ws', ignored, nodes', scan, tree, i', j', mixed)
    PROVE  QuietInv'
<1>1. tree' = tree
    BY DEF tree
<1>2. TreeOf(nodes', Root) = TreeOf(nodes, Root)
    BY SameLinesIs
<1> QED
    BY <1>1, <1>2 DEF QuietInv, CheckedOutIsTree, Unmixed

\* What exists is below no symlink.
LEMMA ExistingCanonical ==
    ASSUME NEW disk, IsWorkspace(disk), NEW p \in DOMAIN disk
    PROVE  Canonical(disk, p)
<1> DEFINE Bad == {r \in DOMAIN disk : ~Canonical(disk, r)}
<1>1. SUFFICES ASSUME Bad # {} PROVE FALSE
    OBVIOUS
<1>2. PICK r \in Bad : \A q \in Bad : Rank[r] <= Rank[q]
    <2>1. Bad \subseteq Paths
        BY DEF IsWorkspace
    <2> HIDE DEF Bad
    <2> QED BY <1>1, <2>1, Lowest
<1>3. PICK d \in Above[r] \cap DOMAIN disk : disk[d].type = "link"
    BY <1>2 DEF Canonical
<1>4. r \in DOMAIN disk /\ r \in Paths
    BY <1>2 DEF IsWorkspace
<1>5. Parent[r] # Root /\ (d = Parent[r] \/ d \in Above[Parent[r]])
    BY <1>3, <1>4, AboveParent
<1>6. Parent[r] \in DOMAIN disk /\ disk[Parent[r]].type = "dir"
    BY <1>4, <1>5 DEF IsWorkspace
<1>7. d \in Above[Parent[r]]
    BY <1>3, <1>5, <1>6
<1>8. Parent[r] \in Bad
    BY <1>3, <1>6, <1>7 DEF Canonical
<1>9. Rank[Parent[r]] < Rank[r] /\ Parent[r] \in Paths
    BY <1>4, <1>5, ParentRank
<1> QED
    BY <1>2, <1>4, <1>8, <1>9, RankNat

\* The entry at i is removed with what is below it, or ignored.
LEMMA QuietExtra ==
    ASSUME Inv, SnapInv, QuietInv, pc = "walk", i <= Len(tree),
           j <= Len(nodes) => Rank[tree[i]] < Rank[nodes[j].path],
           Canonical(ws, tree[i]) => ws' = RemoveAll(ws, tree[i]),
           ~Canonical(ws, tree[i]) => ws' = ws,
           i' = i + 1, UNCHANGED <<ignored, quiet, mixed, cmd, pc, scan, root, nodes, j>>
    PROVE  QuietInv'
<1>1. PICK found : found = tree
    OBVIOUS
<1>2. i \in 1..Len(found) /\ found[i] \in Paths
    BY <1>1, TurnIs
<1>3. PICK p \in Paths : p = found[i]
    BY <1>2
<1>4. PICK left : left = ws'
    OBVIOUS
<1>5. \/ left = ws /\ p \notin DOMAIN ws
      \/ /\ DOMAIN left = DOMAIN ws \ ({p} \cup Below(p))
         /\ \A r \in DOMAIN left : StillAt(ws, left, r)
    <2>1. CASE Canonical(ws, p)
        <3>1. left = RemoveAll(ws, p) /\ Real(ws, p) = p
            BY <1>1, <1>3, <1>4, <2>1, WritingIs, RealPlain
        <3> QED BY <3>1, WritingIs, RemoveAllDir, RemoveAllStill
    <2>2. CASE ~Canonical(ws, p)
        <3>1. left = ws
            BY <1>1, <1>3, <1>4, <2>2
        <3> QED BY <2>2, <3>1, WritingIs, ExistingCanonical
    <2> QED BY <2>1, <2>2
<1>6. cmd = "checkout" /\ quiet => TurnInv(left, ignored, nodes, scan, found, i + 1, j, mixed)
    <2> SUFFICES ASSUME cmd = "checkout", quiet PROVE TurnInv(left, ignored, nodes, scan, found, i + 1, j, mixed)
        OBVIOUS
    <2>1. /\ Walking(ws, ignored, nodes, scan, found, i, j)
          /\ TurnInv(ws, ignored, nodes, scan, found, i, j, mixed)
        BY <1>1, TurnSnap DEF QuietInv
    <2>2. i <= Len(found) /\ (j <= Len(nodes) => Rank[found[i]] < Rank[nodes[j].path])
        BY <1>1
    <2>3. \/ left = ws /\ found[i] \notin DOMAIN ws
          \/ /\ DOMAIN left = DOMAIN ws \ ({found[i]} \cup Below(found[i]))
             /\ \A r \in DOMAIN left : StillAt(ws, left, r)
        BY <1>3, <1>5
    <2> QED BY <2>1, <2>2, <2>3, ExtraTurn
<1>7. cmd = "checkout" /\ quiet => TurnInv(ws', ignored, nodes', scan, tree, i', j', mixed)
    BY <1>1, <1>4, <1>6
<1>8. SameLines(nodes, nodes')
    BY SameLinesSelf
<1> QED
    BY <1>7, <1>8, TurnOn

LEMMA QuietRemoveRest == ASSUME Inv, SnapInv, QuietInv, RemoveRest, Ignores PROVE QuietInv'
<1>1. /\ pc = "walk" /\ i <= Len(tree) /\ j > Len(nodes)
      /\ ws' = RemoveAll(ws, tree[i]) /\ i' = i + 1
      /\ UNCHANGED <<ignored, quiet, mixed, cmd, pc, scan, nodes, root, j>>
    BY DEF RemoveRest, Drop, walkVars, cacheVars
<1>2. ~(j <= Len(nodes))
    BY <1>1, TurnIs
<1>3. ~Canonical(ws, tree[i]) => ws' = ws
    BY <1>1 DEF Ignores
<1> QED
    BY <1>1, <1>2, <1>3, QuietExtra

LEMMA QuietRemoveExtra == ASSUME Inv, SnapInv, QuietInv, RemoveExtra PROVE QuietInv'
<1>1. /\ pc = "walk" /\ i <= Len(tree) /\ Rank[tree[i]] < Rank[nodes[j].path]
      /\ Canonical(ws, tree[i]) /\ ws' = RemoveAll(ws, tree[i]) /\ i' = i + 1
      /\ UNCHANGED <<ignored, quiet, mixed, cmd, pc, scan, nodes, root, j>>
    BY DEF RemoveExtra, Extra, Both, Drop, walkVars, cacheVars
<1> QED
    BY <1>1, QuietExtra

LEMMA QuietSkip == ASSUME Inv, SnapInv, QuietInv, SkipBelowLink PROVE QuietInv'
<1>1. /\ pc = "walk" /\ i <= Len(tree) /\ Rank[tree[i]] < Rank[nodes[j].path]
      /\ ~Canonical(ws, tree[i]) /\ i' = i + 1
      /\ UNCHANGED <<ws, ignored, quiet, mixed, cmd, pc, scan, nodes, root, j>>
    BY DEF SkipBelowLink, Extra, Both, walkVars, cacheVars
<1> QED
    BY <1>1, QuietExtra

\* A node is made where it seems to be.
LEMMA PlacedHere ==
    ASSUME Inv, SnapInv, pc = "walk", j <= Len(nodes), NEW disk, IsWorkspace(disk),
           NEW next, Passed(ws, disk, nodes, tree, i, j, next)
    PROVE  Real(disk, nodes[j].path) = nodes[j].path
<1>1. Walking(ws, ignored, nodes, scan, tree, i, j)
    BY TurnSnap
<1>2. IsList(nodes) /\ Shaped(nodes, ignored) /\ WalkInv(ws, ignored, nodes, scan, tree, i, j)
    BY <1>1 DEF Walking
<1>3. j \in 1..Len(nodes) /\ nodes[j].path \in Paths
    <2>1. j \in 1..Len(nodes) + 1 /\ Len(nodes) \in Nat
        BY TurnIs
    <2>2. j \in 1..Len(nodes)
        BY <2>1
    <2> QED BY <1>2, <2>2 DEF IsList
<1>4. \A x \in 1..Len(nodes) : x < j => nodes[x].path \in DOMAIN ws /\ ws[nodes[x].path].type = nodes[x].type
    BY <1>2, <1>3 DEF WalkInv
<1>5. Canonical(ws, nodes[j].path)
    BY <1>2, <1>3, <1>4, NodePlain
<1>6. Canonical(disk, nodes[j].path)
    BY <1>5, CanonicalSmaller DEF Passed
<1> QED
    BY <1>3, <1>6, RealPlain DEF IsWorkspace

\* The digests of files are those of contents, and symlinks alone have targets.
LEMMA NodeLine == ASSUME Inv, SnapInv, pc = "walk", NEW x \in 1..Len(nodes) PROVE IsLine(nodes[x])
<1>1. Pending = {}
    BY DEF Pending
<1>2. PICK G : Filed(G, nodes, {})
    BY <1>1 DEF Inv, CacheOf
<1>3. nodes[x].type = "file" => \E c : nodes[x].hash = FileHash(c)
    BY <1>2 DEF Filed
<1>4. PICK F : Formed(F, nodes)
    BY DEF SnapInv, ForestOf
<1>5. nodes[x].type # "link" => nodes[x].target = ""
    BY <1>4 DEF Formed
<1> QED
    BY <1>3, <1>5 DEF IsLine

\* The node at j is made on what is left of the disk.
LEMMA QuietPlaced ==
    ASSUME Inv, HeldInv, SnapInv, QuietInv, NEW disk, NEW next, Place(disk, next), j <= Len(nodes),
           IsWorkspace(disk), Dated(disk, clock + 1),
           Passed(ws, disk, nodes, tree, i, j, next),
           nodes[j].type = "dir" => nodes[j].path \notin DOMAIN disk,
           \A r \in DOMAIN disk : StillAt(ws, disk, r),
           \A y \in 1..Len(tree) :
              y >= i /\ y < next => tree[y] = nodes[j].path \/ tree[y] \notin DOMAIN disk
    PROVE  QuietInv'
<1>1. PICK n : n = nodes[j]
    OBVIOUS
<1>2. pc = "walk" /\ UNCHANGED <<ignored, mixed>>
    BY DEF Place, cacheVars
<1>3. j \in 1..Len(nodes) /\ clock \in Nat /\ IsNode(n) /\ n.path \in Paths
    BY <1>1, <1>2, TurnIs DEF IsNode
<1>4. CASE ~(Clear(disk, n) /\ (n.type = "file" => n.hash \in store))
    <2>1. Fail
        BY <1>1, <1>4 DEF Place
    <2> QED BY <2>1, QuietOver DEF Fail
<1>5. CASE Clear(disk, n) /\ (n.type = "file" => n.hash \in store)
    <2>1. PICK new : new = CheckoutNode(disk, n)
        OBVIOUS
    <2>2. PICK p : p = n.path
        OBVIOUS
    <2>3. Real(disk, n.path) = p
        BY <1>1, <1>2, <2>2, PlacedHere
    <2>4. /\ ws' = new /\ nodes' = [nodes EXCEPT ![j].time = new[p].time]
          /\ i' = next /\ j' = j + 1 /\ UNCHANGED <<quiet, cmd, pc, scan, root>>
        BY <1>1, <1>5, <2>1, <2>3 DEF Place
    <2>5. DOMAIN new = DOMAIN disk \cup {p} /\ new[p].time = clock + 1
        <3>1. IsAt(new, p, n.type, clock + 1) /\ DOMAIN new = DOMAIN disk \cup {p}
            <4>1. n.type # "dir" \/ p \notin DOMAIN disk
                BY <1>1, <2>2
            <4> QED BY <1>3, <1>5, <2>1, <2>3, <4>1, CheckoutNodeDir
        <3> QED BY <3>1 DEF IsAt
    <2>6. PICK t : t = clock + 1
        OBVIOUS
    <2>7. Retimed(nodes, nodes', j, t)
        <3>1. t \in Nat /\ clock <= t /\ t \in 0..t
            BY <1>3, <2>6
        <3>2. IsTimedList(nodes, t)
            BY <1>3, <3>1, WritingIs, LaterList
        <3>3. nodes' = [nodes EXCEPT ![j].time = t]
            BY <2>4, <2>5, <2>6
        <3> QED BY <1>3, <3>1, <3>2, <3>3, RetimedIs
    <2>8. PICK list : list = nodes'
        OBVIOUS
    <2>9. /\ SameLines(nodes, list) /\ \A x \in 1..Len(nodes) : x # j => list[x] = nodes[x]
          /\ list[j].time = new[p].time
        BY <2>5, <2>6, <2>7, <2>8 DEF Retimed
    <2>10. /\ \A r \in DOMAIN disk : r # p => StillAt(disk, new, r)
           /\ Made(new, list[j], mixed)
        <3>1. IsLine(n)
            BY <1>1, <1>2, <1>3, NodeLine
        <3>2. /\ list[j].path = n.path /\ list[j].type = n.type /\ list[j].mode = n.mode
              /\ list[j].target = n.target /\ list[j].hash = n.hash
            BY <1>1, <1>3, <2>9 DEF SameLines
        <3>3. /\ \A r \in DOMAIN disk : r # n.path => StillAt(disk, new, r)
              /\ \A m : /\ m.path = n.path /\ m.type = n.type /\ m.mode = n.mode
                        /\ m.target = n.target /\ m.hash = n.hash /\ m.time = new[n.path].time
                        => Made(new, m, mixed)
            BY <1>3, <1>5, <2>1, <2>2, <2>3, <3>1, CheckoutNodeMakes
        <3> QED BY <2>2, <2>9, <3>2, <3>3
    <2>11. PICK found : found = tree
        OBVIOUS
    <2>12. cmd = "checkout" /\ quiet => TurnInv(new, ignored, list, scan, found, next, j + 1, mixed)
        <3> SUFFICES ASSUME cmd = "checkout", quiet
                     PROVE  TurnInv(new, ignored, list, scan, found, next, j + 1, mixed)
            OBVIOUS
        <3>1. /\ Walking(ws, ignored, nodes, scan, found, i, j)
              /\ TurnInv(ws, ignored, nodes, scan, found, i, j, mixed)
            BY <1>2, <2>11, TurnSnap DEF QuietInv
        <3>2. /\ Passed(ws, disk, nodes, found, i, j, next)
              /\ \A y \in 1..Len(found) :
                    y >= i /\ y < next => found[y] = nodes[j].path \/ found[y] \notin DOMAIN disk
            BY <2>11
        <3>3. nodes[j].path = p
            BY <1>1, <2>2
        <3> QED BY <2>5, <2>9, <2>10, <3>1, <3>2, <3>3, PlacedTurn
    <2> QED BY <1>2, <2>4, <2>8, <2>9, <2>11, <2>12, TurnOn
<1> QED
    BY <1>4, <1>5

LEMMA QuietCreateMissing == ASSUME Inv, HeldInv, SnapInv, QuietInv, CreateMissing PROVE QuietInv'
<1>1. /\ pc = "walk" /\ j <= Len(nodes) /\ Place(ws, i)
      /\ i <= Len(tree) => Rank[tree[i]] > Rank[nodes[j].path]
    BY DEF CreateMissing
<1>2. IsWorkspace(ws) /\ Dated(ws, clock + 1) /\ i \in Nat
    BY <1>1, TurnIs
<1>3. i <= Len(tree) => Rank[nodes[j].path] < Rank[tree[i]]
    <2>1. ASSUME i <= Len(tree) PROVE Rank[nodes[j].path] \in Nat /\ Rank[tree[i]] \in Nat
        <3>1. i \in 1..Len(tree) /\ j \in 1..Len(nodes)
            BY <1>1, <2>1, TurnIs
        <3>2. tree[i] \in Paths /\ nodes[j].path \in Paths
            BY <1>1, <3>1, TurnIs DEF IsNode
        <3> QED BY <3>2, RankNat
    <2> QED BY <1>1, <2>1
<1>4. Passed(ws, ws, nodes, tree, i, j, i) /\ nodes[j].path \notin DOMAIN ws
    BY <1>1, <1>3, TurnSnap, MissingPassed
<1>5. \A r \in DOMAIN ws : StillAt(ws, ws, r)
    BY StillSame
<1>6. \A y \in 1..Len(tree) : ~(y >= i /\ y < i)
    BY <1>2
<1> QED
    BY <1>1, <1>2, <1>4, <1>5, <1>6, QuietPlaced

LEMMA QuietReplace ==
    ASSUME Inv, HeldInv, SnapInv, QuietInv, ReplaceDirectory \/ ReplaceOther
    PROVE  QuietInv'
<1>1. PICK next : Replacing(RemoveAll(ws, tree[i]), next)
    BY ReplacingDirectory, ReplacingOther
<1>2. PICK left : left = RemoveAll(ws, tree[i])
    OBVIOUS
<1>3. Replacing(left, next)
    BY <1>1, <1>2
<1>4. tree[i] \in Paths /\ IsWorkspace(ws)
    <2>1. pc = "walk" /\ i <= Len(tree)
        BY DEF ReplaceDirectory, ReplaceOther, Same, Both
    <2> QED BY <2>1, TurnIs
<1>5. \A r \in DOMAIN left : StillAt(ws, left, r)
    BY <1>2, <1>4, RemoveAllStill
<1> QED
    BY <1>3, <1>5, QuietPlaced DEF Replacing

\* A file of the time of its node has the digest of it.
LEMMA NodeTrue ==
    ASSUME Inv, SnapInv, pc = "walk", NEW x \in 1..Len(nodes), nodes[x].type = "file",
           nodes[x].path \in DOMAIN ws, ws[nodes[x].path].type = "file",
           ws[nodes[x].path].time = nodes[x].time
    PROVE  nodes[x].hash = FileHash(ws[nodes[x].path].data) \/ nodes[x].hash \in mixed
<1>1. PICK c : nodes[x].hash = FileHash(c)
    BY NodeLine DEF IsLine
<1>2. nodes[x].hash # NoHash
    BY <1>1 DEF FileHash, NoHash
<1>3. Truthful(ws, nodes[x].path, nodes[x].time, nodes[x].hash, mixed)
    BY <1>2 DEF Inv, DataInv, Right
<1> QED
    BY <1>2, <1>3 DEF Truthful

LEMMA QuietUpdate == ASSUME Inv, HeldInv, SnapInv, QuietInv, Update PROVE QuietInv'
<1>1. /\ pc = "walk" /\ i <= Len(tree) /\ j <= Len(nodes) /\ tree[i] = nodes[j].path
      /\ scan[tree[i]].type = nodes[j].type
    BY DEF Update, Same, Both
<1>2. i \in 1..Len(tree) /\ j \in 1..Len(nodes) /\ IsWorkspace(ws) /\ Dated(ws, clock + 1)
    BY <1>1, TurnIs
<1>3. Passed(ws, ws, nodes, tree, i, j, i + 1) /\ nodes[j].path \in DOMAIN ws
    BY <1>1, TurnSnap, UpdatePassed, SameAt
<1>4. \A r \in DOMAIN ws : StillAt(ws, ws, r)
    BY StillSame
<1>5. PICK next : next = i + 1
    OBVIOUS
<1>6. \A y \in 1..Len(tree) : y >= i /\ y < next => tree[y] = nodes[j].path
    <2> TAKE y \in 1..Len(tree)
    <2> HAVE y >= i /\ y < next
    <2>1. y = i
        BY <1>2, <1>5
    <2> QED BY <1>1, <2>1
<1>7. CASE Differs
    <2>1. Place(ws, i + 1)
        BY <1>7 DEF Update
    <2>2. nodes[j].type # "dir"
        <3>1. nodes[j].type # "link" => nodes[j].target = ""
            BY <1>1, <1>2, NodeLine DEF IsLine
        <3> QED BY <1>1, <1>7, <3>1 DEF Differs, Target
    <2>3. Place(ws, next) /\ Passed(ws, ws, nodes, tree, i, j, next)
        BY <1>3, <1>5, <2>1
    <2> QED BY <1>1, <1>2, <1>4, <1>6, <2>2, <2>3, QuietPlaced
<1>8. CASE ~Differs
    <2>1. PICK n : n = nodes[j]
        OBVIOUS
    <2>2. PICK p \in DOMAIN ws : p = tree[i]
        BY <1>1, <1>3
    <2>3. PICK new : new = ws'
        OBVIOUS
    <2>4. /\ new = IF scan[p].mode = n.mode THEN ws ELSE WithMode(ws, p, n.mode)
          /\ i' = i + 1 /\ j' = j + 1
          /\ UNCHANGED <<ignored, quiet, mixed, cmd, pc, scan, nodes, root>>
        BY <1>8, <2>1, <2>2, <2>3 DEF Update, walkVars, cacheVars, WithMode
    <2>5. /\ scan[p].type = n.type /\ p = n.path /\ Target(scan[p]) = n.target
          /\ n.type # "dir" => scan[p].time = n.time
        BY <1>1, <1>8, <2>1, <2>2 DEF Differs
    <2>6. ASSUME cmd = "checkout", quiet
          PROVE  TurnInv(new, ignored, nodes, scan, tree, next, j + 1, mixed)
        <3>1. PICK found : found = tree
            OBVIOUS
        <3>2. Walking(ws, ignored, nodes, scan, found, i, j) /\ TurnInv(ws, ignored, nodes, scan, found, i, j, mixed)
            BY <1>1, <2>6, <3>1, TurnSnap DEF QuietInv
        <3>3. StillAt(scan, ws, p)
            <4>1. i \in 1..Len(found) /\ i >= i /\ found[i] = p
                BY <1>2, <2>2, <3>1
            <4>2. \A d \in Above[p] : \E x \in Dirs(nodes) : nodes[x].path = d
                <5>1. IsList(nodes) /\ Shaped(nodes, ignored)
                    BY <3>2 DEF Walking
                <5>2. p = nodes[j].path
                    BY <1>1, <2>2
                <5>3. \A d \in Above[nodes[j].path] : \E x \in Dirs(nodes) : nodes[x].path = d
                    BY <1>2, <5>1, NodesAbove
                <5> QED BY <5>2, <5>3
            <4> QED BY <3>2, <4>1, <4>2 DEF TurnInv
        <3>4. /\ DOMAIN new = DOMAIN ws /\ \A r \in DOMAIN ws : r # p => StillAt(ws, new, r)
              /\ new[p].type = ws[p].type /\ new[p].mode = n.mode /\ new[p].data = ws[p].data
              /\ new[p].time = ws[p].time
            <4>1. CASE scan[p].mode = n.mode
                BY <1>4, <2>4, <3>3, <4>1 DEF StillAt
            <4>2. CASE scan[p].mode # n.mode
                <5>1. PICK mode : mode = n.mode
                    OBVIOUS
                <5>2. new = WithMode(ws, p, mode)
                    BY <2>4, <4>2, <5>1
                <5> QED BY <1>2, <5>1, <5>2, ModeStill
            <4> QED BY <4>1, <4>2
        <3>5. Made(new, n, mixed)
            <4>1. n.type = "file" => n.hash = FileHash(ws[p].data) \/ n.hash \in mixed
                BY <1>1, <1>2, <2>1, <2>5, <3>3, NodeTrue DEF StillAt
            <4>2. new[p].type = n.type /\ Target(new[p]) = n.target
                BY <2>5, <3>3, <3>4 DEF StillAt, Target
            <4>3. n.type # "dir" => new[p].time = n.time
                BY <2>5, <3>3, <3>4 DEF StillAt
            <4> QED BY <2>5, <3>4, <4>1, <4>2, <4>3 DEF Made
        <3>6. SameLines(nodes, nodes)
            BY SameLinesSelf
        <3>7. /\ Passed(ws, ws, nodes, found, i, j, next)
              /\ \A y \in 1..Len(found) : y >= i /\ y < next => found[y] = nodes[j].path
              /\ DOMAIN new = DOMAIN ws \cup {nodes[j].path}
              /\ \A r \in DOMAIN ws : r # nodes[j].path => StillAt(ws, new, r)
              /\ Made(new, nodes[j], mixed)
            BY <1>3, <1>5, <1>6, <2>1, <2>5, <3>1, <3>4, <3>5
        <3>8. TurnInv(new, ignored, nodes, scan, found, next, j + 1, mixed)
            BY <1>1, <1>4, <3>2, <3>6, <3>7, PlacedTurn
        <3> QED BY <3>1, <3>8
    <2>7. cmd = "checkout" /\ quiet => TurnInv(ws', ignored, nodes', scan, tree, i', j', mixed)
        BY <1>5, <2>3, <2>4, <2>6
    <2>8. SameLines(nodes, nodes')
        BY <2>4, SameLinesSelf
    <2> QED BY <1>1, <2>4, <2>7, <2>8, TurnOn
<1> QED
    BY <1>7, <1>8

LEMMA QuietEndWalk == ASSUME Inv, SnapInv, QuietInv, EndWalk PROVE QuietInv'
<1>1. /\ pc = "walk" /\ i > Len(tree) /\ j > Len(nodes) /\ pc' = "save"
      /\ UNCHANGED <<ws, ignored, quiet, mixed, cmd, nodes, root>>
    BY DEF EndWalk, walkVars, cacheVars
<1>2. PICK found : found = tree
    OBVIOUS
<1>3. /\ Walking(ws, ignored, nodes, scan, found, i, j) /\ TreeInv(ws, ignored, nodes, j)
      /\ i > Len(found) /\ j > Len(nodes)
    BY <1>1, <1>2, TurnSnap
<1>4. /\ IsList(nodes) /\ Shaped(nodes, ignored) /\ Len(found) \in Nat /\ i \in Nat /\ j \in Nat
      /\ DOMAIN ws \subseteq Paths
    BY <1>3, WalkingIs DEF Walking
<1>5. Typed(nodes)
    BY WritingIs DEF Typed, IsNode
<1>6. \A x \in Dirs(nodes) : nodes[x].hash = TreeOf(nodes, nodes[x].path)
    BY <1>3 DEF TreeInv
<1>7. \A x \in 1..Len(nodes) : nodes[x].type = "link" => nodes[x].hash = NoHash
    BY DEF SnapInv, ForestOf, Formed
<1>8. ASSUME cmd = "checkout", quiet
      PROVE  (Unmixed(root) => root = Snapshot(ws, ignored)) /\ Recorded(ws, ignored, nodes)
    <2>1. root = TreeOf(nodes, Root) /\ TurnInv(ws, ignored, nodes, scan, found, i, j, mixed)
        BY <1>1, <1>2, <1>8 DEF QuietInv
    <2> QED BY <1>3, <1>4, <1>5, <1>6, <1>7, <2>1, EndTurns DEF Unmixed
<1> QED
    BY <1>1, <1>8 DEF QuietInv, CheckedOutIsTree, Unmixed

LEMMA QuietInit == Init => QuietInv
BY DEF Init, QuietInv, CheckedOutIsTree

LEMMA QuietNext ==
    Inv /\ HeldInv /\ SnapInv /\ QuietInv /\ ignored' = ignored /\ [Next]_vars /\ Ignores => QuietInv'
<1> SUFFICES ASSUME Inv, HeldInv, SnapInv, QuietInv, ignored' = ignored, [Next]_vars, Ignores PROVE QuietInv'
    OBVIOUS
<1>1. CASE CheckoutStep
    <2>1. ASSUME NEW t \in known, StartCheckout(t) \/ StartPullCheckout(t) PROVE QuietInv'
        BY <2>1, QuietBegun DEF StartCheckout, StartPullCheckout
    <2> QED BY <1>1, <2>1, QuietStartWalk, QuietCreateMissing, QuietRemoveRest, QuietRemoveExtra, QuietSkip,
               QuietReplace, QuietUpdate, QuietEndWalk DEF CheckoutStep
<1>2. CASE UNCHANGED vars
    BY <1>2, QuietSame DEF vars, userVars, cacheVars
<1> QED
    BY <1>1, <1>2, QuietWrite, QuietEnvironment DEF Next

LEMMA QuietWalk ==
    ASSUME \E list : Patterns = {list}
    PROVE  Inv /\ Inv' /\ HeldInv /\ SnapInv /\ QuietInv /\ [Next]_vars /\ [Ignores]_vars
              => SnapInv' /\ QuietInv'
<1>1. Inv /\ Inv' /\ SnapInv /\ [Next]_vars => SnapInv'
    BY SnapNext, OneList
<1>2. CASE Ignores
    BY <1>1, <1>2, QuietNext, OneList
<1>3. CASE UNCHANGED vars
    BY <1>1, <1>3, QuietSame DEF vars, userVars, cacheVars
<1> QED
    BY <1>1, <1>2, <1>3

\* A checkout that returns while nobody edits has made the workspace the tree
\* (index::checkout), from whatever a checkout that failed or was killed has
\* left, if no other content was stored under the digest of an object of the
\* tree: under the hypotheses of PrintedIsSnapshot, and if the walk does what
\* its comment says of the entries below a symlink, which run checkout_link
\* shows not to be so of the last of them.
THEOREM CheckedOut ==
    ASSUME \E list : Patterns = {list}, "truncated" \notin Faults
    PROVE  Spec /\ LinkedNodeIgnored => []CheckedOutIsTree
<1>1. Init => SnapInv /\ QuietInv
    BY InitInv, SnapInit, QuietInit
<1>2. Inv /\ Inv' /\ HeldInv /\ SnapInv /\ QuietInv /\ [Next]_vars /\ [Ignores]_vars => SnapInv' /\ QuietInv'
    BY QuietWalk
<1>3. QuietInv => CheckedOutIsTree
    BY DEF QuietInv
<1> QED
    BY <1>1, <1>2, <1>3, InductiveInvariant, PTL DEF Spec, LinkedNodeIgnored, Ignores

\* After a command that returns while nobody edits, the index file records
\* every file of the workspace with its metadata, so that the next command has
\* none to hash (index::refresh): under the same hypotheses.
THEOREM RecordedAll ==
    ASSUME \E list : Patterns = {list}, "truncated" \notin Faults
    PROVE  Spec /\ LinkedNodeIgnored => []IndexIsComplete
<1>1. Init => SnapInv /\ QuietInv
    BY InitInv, SnapInit, QuietInit
<1>2. Inv /\ Inv' /\ HeldInv /\ SnapInv /\ QuietInv /\ [Next]_vars /\ [Ignores]_vars => SnapInv' /\ QuietInv'
    BY QuietWalk
<1>3. Inv /\ QuietInv => IndexIsComplete
    <2> SUFFICES ASSUME Inv, QuietInv, pc = "returned", quiet,
                        NEW p \in Listed(ws, ignored), ws[p].type = "file"
                 PROVE  \E k \in DOMAIN saved : saved[k].path = p /\ Equivalent(saved[k], ws[p])
        BY DEF IndexIsComplete
    <2>1. PICK k \in 1..Len(saved) : saved[k].path = p /\ Equivalent(saved[k], ws[p])
        BY DEF QuietInv, Recorded
    <2>2. DOMAIN saved = 1..Len(saved)
        BY DEF Inv, DataInv, IsTimedList
    <2> QED BY <2>1, <2>2
<1> QED
    BY <1>1, <1>2, <1>3, InductiveInvariant, PTL DEF Spec, LinkedNodeIgnored, Ignores

OverlayDef(upto, x) == IF x[2] = 0 THEN <<>> ELSE Over(upto[<<x[1], x[2] - 1>>], x[1][x[2]])
OverlayRec == INSTANCE Recursion WITH Def <- OverlayDef

-----------------------------------------------------------------------------
(* Workspaces over each other. *)

LEMMA OverlayIs ==
    ASSUME NEW list, Len(list) \in Nat
    PROVE  /\ Overlay(list, 0) = <<>>
           /\ \A k \in 1..Len(list) : Overlay(list, k) = Over(Overlay(list, k - 1), list[k])
<1> DEFINE n == Len(list)
           D == {list} \X (0..n)
           m == [x \in D |-> x[2]]
<1>0. n \in Nat
    OBVIOUS
<1> HIDE DEF n
<1>1. OverlayRec!Local(D, m)
    <2> SUFFICES ASSUME NEW x \in D, NEW g, NEW h, \A y \in D : m[y] < m[x] => g[y] = h[y]
                 PROVE  OverlayDef(g, x) = OverlayDef(h, x)
        BY DEF OverlayRec!Local
    <2>1. x[2] # 0 => <<x[1], x[2] - 1>> \in D /\ m[<<x[1], x[2] - 1>>] < m[x]
        BY <1>0
    <2>2. x[2] # 0 => g[<<x[1], x[2] - 1>>] = h[<<x[1], x[2] - 1>>]
        BY <2>1
    <2> QED BY <2>2 DEF OverlayDef
<1>2. m \in [D -> Nat]
    BY <1>0
<1>3. PICK f : f = [x \in D |-> OverlayDef(f, x)]
    <2> HIDE DEF m, D
    <2> QED BY <1>1, <1>2, OverlayRec!Recursive, WellOrdered DEF OverlayRec!WellOrder
<1> DEFINE u == [k \in 0..n |-> f[<<list, k>>]]
<1>4. ASSUME NEW k \in 0..n PROVE u[k] = IF k = 0 THEN <<>> ELSE Over(u[k - 1], list[k])
    <2>1. f[<<list, k>>] = OverlayDef(f, <<list, k>>)
        BY <1>3
    <2>2. k # 0 => u[k - 1] = f[<<list, k - 1>>]
        BY <1>0
    <2> QED BY <2>1, <2>2 DEF OverlayDef
<1>5. u = [k \in 0..n |-> IF k = 0 THEN <<>> ELSE Over(u[k - 1], list[k])]
    <2>1. u = [k \in 0..n |-> u[k]]
        OBVIOUS
    <2> HIDE DEF u
    <2> QED BY <1>4, <2>1
<1>6. \E v : v = [k \in 0..Len(list) |-> IF k = 0 THEN <<>> ELSE Over(v[k - 1], list[k])]
    <2> HIDE DEF u
    <2> QED BY <1>5 DEF n
<1>7. PICK w : /\ w = [k \in 0..Len(list) |-> IF k = 0 THEN <<>> ELSE Over(w[k - 1], list[k])]
               /\ \A k : Overlay(list, k) = w[k]
    BY <1>6 DEF Overlay
<1>8. w[0] = <<>> /\ \A k \in 1..Len(list) : w[k] = Over(w[k - 1], list[k])
    BY <1>7
<1> QED
    BY <1>7, <1>8

LEMMA OverIs ==
    ASSUME NEW disk, NEW w
    PROVE  /\ \A p : p \in DOMAIN Over(disk, w) <=>
                        \/ p \in DOMAIN w
                        \/ p \in DOMAIN disk /\ \A d \in Above[p] \cap DOMAIN w : w[d].type = "dir"
           /\ \A p \in DOMAIN w : Over(disk, w)[p] = w[p]
           /\ \A p \in DOMAIN Over(disk, w) : p \notin DOMAIN w => Over(disk, w)[p] = disk[p]
BY DEF Over

\* Every path is that of a workspace, and one that is left out is below what
\* another has in place of a directory.
IsOverlay(disk, list, n) ==
    /\ DOMAIN disk \subseteq Paths
    /\ \A p \in DOMAIN disk : \E k \in 1..n : p \in DOMAIN list[k] /\ disk[p] = list[k][p]
    /\ \A k \in 1..n : \A p \in DOMAIN list[k] :
          \/ p \in DOMAIN disk
          \/ \E l \in 1..n : l # k /\ \E c \in Above[p] : c \in DOMAIN list[l] /\ list[l][c].type # "dir"

AreDisks(list) == Len(list) \in Nat /\ \A k \in 1..Len(list) : IsDisk(list[k])

LEMMA OverlayFacts ==
    ASSUME NEW list, AreDisks(list), NEW n \in 0..Len(list)
    PROVE  IsOverlay(Overlay(list, n), list, n)
<1>0. PICK z \in Nat : z = Len(list)
    BY DEF AreDisks
<1> DEFINE P == {k \in 0..z : IsOverlay(Overlay(list, k), list, k)}
<1>1. 0 \in P
    <2>1. PICK o : o = <<>> /\ DOMAIN o = {}
        OBVIOUS
    <2>2. Overlay(list, 0) = o
        BY <2>1, OverlayIs DEF AreDisks
    <2>3. IsOverlay(o, list, 0)
        BY <2>1 DEF IsOverlay
    <2> QED BY <1>0, <2>2, <2>3
<1>2. ASSUME NEW k \in 1..z, k - 1 \in P PROVE k \in P
    <2>1. PICK o : o = Overlay(list, k - 1)
        OBVIOUS
    <2>2. PICK w : w = list[k] /\ IsDisk(w)
        BY <1>0 DEF AreDisks
    <2>3. PICK r : r = Overlay(list, k)
        OBVIOUS
    <2>4. r = Over(o, w)
        BY <1>0, <2>1, <2>2, <2>3, OverlayIs DEF AreDisks
    <2>5. IsOverlay(o, list, k - 1)
        BY <1>2, <2>1
    <2>6. /\ \A p : p \in DOMAIN r <=>
                       \/ p \in DOMAIN w
                       \/ p \in DOMAIN o /\ \A d \in Above[p] \cap DOMAIN w : w[d].type = "dir"
          /\ \A p \in DOMAIN w : r[p] = w[p]
          /\ \A p \in DOMAIN r : p \notin DOMAIN w => r[p] = o[p]
        BY <2>4, OverIs
    <2>7. DOMAIN r \subseteq Paths
        BY <2>2, <2>5, <2>6 DEF IsDisk, IsOverlay
    <2>8. ASSUME NEW p \in DOMAIN r PROVE \E l \in 1..k : p \in DOMAIN list[l] /\ r[p] = list[l][p]
        <3>1. CASE p \in DOMAIN w
            <4>1. k \in 1..k
                OBVIOUS
            <4> QED BY <2>2, <2>6, <3>1, <4>1
        <3>2. CASE p \notin DOMAIN w
            <4>1. p \in DOMAIN o /\ r[p] = o[p]
                BY <2>6, <2>8, <3>2
            <4>2. PICK l \in 1..k - 1 : p \in DOMAIN list[l] /\ o[p] = list[l][p]
                BY <2>5, <4>1 DEF IsOverlay
            <4>3. l \in 1..k
                OBVIOUS
            <4> QED BY <4>1, <4>2, <4>3
        <3> QED BY <3>1, <3>2
    <2>9. ASSUME NEW l \in 1..k, NEW p \in DOMAIN list[l], p \notin DOMAIN r
          PROVE  \E v \in 1..k : v # l /\ \E c \in Above[p] : c \in DOMAIN list[v] /\ list[v][c].type # "dir"
        <3>1. l \in 1..k - 1
            <4>1. l # k
                BY <2>2, <2>6, <2>9
            <4> QED BY <4>1
        <3>2. CASE p \in DOMAIN o
            <4>1. PICK c \in Above[p] : c \in DOMAIN w /\ w[c].type # "dir"
                BY <2>6, <2>9, <3>2
            <4>2. k \in 1..k /\ k # l
                BY <3>1
            <4> QED BY <2>2, <4>1, <4>2
        <3>3. CASE p \notin DOMAIN o
            <4>1. PICK v \in 1..k - 1 :
                     v # l /\ \E c \in Above[p] : c \in DOMAIN list[v] /\ list[v][c].type # "dir"
                BY <2>5, <3>1, <3>3 DEF IsOverlay
            <4>2. v \in 1..k
                OBVIOUS
            <4> QED BY <4>1, <4>2
        <3> QED BY <3>2, <3>3
    <2>10. IsOverlay(r, list, k)
        BY <2>7, <2>8, <2>9 DEF IsOverlay
    <2> QED BY <2>3, <2>10
<1>3. 0..z \subseteq P
    <2> HIDE DEF P
    <2> QED BY <1>1, <1>2, Counting
<1> QED
    BY <1>0, <1>3

\* A node of a merged index: that of the workspace of which the overlay has
\* the entry.
IsFrom(disk, list, n, m) ==
    \E k \in 1..n :
        /\ m.path \in DOMAIN disk /\ m.path \in DOMAIN list[k]
        /\ disk[m.path] = list[k][m.path]
        /\ m = NodeOf(list[k], m.path)

IsMergedIndex(a, disk, list, n) ==
    /\ IsBranch(a, Root)
    /\ \A m : Has(a, m) => IsFrom(disk, list, n, m)
    /\ \A p \in DOMAIN disk : \E m : Has(a, m) /\ m.path = p
    /\ n >= 1 => \A p \in DOMAIN list[n] : Has(a, NodeOf(list[n], p))

LEMMA NothingMerged ==
    ASSUME NEW list, AreDisks(list)
    PROVE  IsMergedIndex(<<>>, Overlay(list, 0), list, 0)
<1>1. PICK o : o = <<>> /\ DOMAIN o = {}
    OBVIOUS
<1>2. Overlay(list, 0) = o
    BY <1>1, OverlayIs DEF AreDisks
<1>3. IsBranch(o, Root) /\ \A m : ~Has(o, m)
    BY <1>1, EmptyBranch
<1>4. IsMergedIndex(o, o, list, 0)
    BY <1>1, <1>3 DEF IsMergedIndex
<1> QED
    BY <1>1, <1>2, <1>4

LEMMA NodeOfIs ==
    ASSUME NEW disk, NEW p
    PROVE  /\ NodeOf(disk, p).path = p /\ NodeOf(disk, p).type = disk[p].type
           /\ NodeOf(disk, p).hash = Hashes(disk, {})[p]
BY DEF NodeOf, Node

\* The index of the next workspace is merged.
LEMMA MergedNext ==
    ASSUME NEW list, AreDisks(list), NEW n \in Nat, n < Len(list),
           NEW a, IsMergedIndex(a, Overlay(list, n), list, n),
           NEW b, b = IndexOf(list[n + 1], {})
    PROVE  IsMergedIndex(Merge(a, b), Overlay(list, n + 1), list, n + 1)
<1>1. PICK w : w = list[n + 1] /\ IsDisk(w)
    BY DEF AreDisks
<1>2. PICK o : o = Overlay(list, n)
    OBVIOUS
<1>3. PICK r : r = Overlay(list, n + 1)
    OBVIOUS
<1>4. r = Over(o, w)
    <2>1. n + 1 \in 1..Len(list) /\ (n + 1) - 1 = n
        BY DEF AreDisks
    <2> QED BY <1>1, <1>2, <1>3, <2>1, OverlayIs DEF AreDisks
<1>5. /\ \A p : p \in DOMAIN r <=>
                   \/ p \in DOMAIN w
                   \/ p \in DOMAIN o /\ \A d \in Above[p] \cap DOMAIN w : w[d].type = "dir"
      /\ \A p \in DOMAIN w : r[p] = w[p]
      /\ \A p \in DOMAIN r : p \notin DOMAIN w => r[p] = o[p]
    BY <1>4, OverIs
<1>6. IsDiskIndex(b, w)
    BY <1>1, DiskIndex
<1>7. IsBranch(b, Root) /\ \A m : Has(b, m) <=> \E p \in DOMAIN w : m = NodeOf(w, p)
    BY <1>6 DEF IsDiskIndex
<1>8. IsMergedIndex(a, o, list, n) /\ IsBranch(a, Root)
    BY <1>2 DEF IsMergedIndex
<1>9. PICK s : s = Merge(a, b)
    OBVIOUS
<1>10. IsBranch(s, Root) /\ \A m : Has(s, m) <=> Overlaid(a, b, m)
    BY <1>7, <1>8, <1>9, MergeTheorem
<1>11. \A p : /\ NodeOf(w, p).path = p /\ NodeOf(w, p).type = w[p].type
    BY NodeOfIs
<1>12. \A m : (\A y \in 1..Len(b) :
                 b[y].path # m.path /\ (b[y].path \in Above[m.path] => b[y].type = "dir"))
              <=> /\ m.path \notin DOMAIN w
                  /\ \A d \in Above[m.path] \cap DOMAIN w : w[d].type = "dir"
    <2> TAKE m
    <2>1. \A y \in 1..Len(b) : b[y].path \in DOMAIN w /\ b[y].type = w[b[y].path].type
        <3> TAKE y \in 1..Len(b)
        <3>1. PICK p \in DOMAIN w : b[y] = NodeOf(w, p)
            BY <1>7 DEF Has
        <3> QED BY <1>11, <3>1
    <2>2. \A p \in DOMAIN w : \E y \in 1..Len(b) : b[y].path = p /\ b[y].type = w[p].type
        <3> TAKE p \in DOMAIN w
        <3>1. PICK y \in 1..Len(b) : b[y] = NodeOf(w, p)
            BY <1>7 DEF Has
        <3> QED BY <1>11, <3>1
    <2>3. ASSUME \A y \in 1..Len(b) :
                    b[y].path # m.path /\ (b[y].path \in Above[m.path] => b[y].type = "dir")
          PROVE  m.path \notin DOMAIN w /\ \A d \in Above[m.path] \cap DOMAIN w : w[d].type = "dir"
        BY <2>2, <2>3
    <2>4. ASSUME m.path \notin DOMAIN w /\ \A d \in Above[m.path] \cap DOMAIN w : w[d].type = "dir",
                 NEW y \in 1..Len(b)
          PROVE  b[y].path # m.path /\ (b[y].path \in Above[m.path] => b[y].type = "dir")
        BY <2>1, <2>4
    <2> QED BY <2>3, <2>4
<1>13. \A m : Has(s, m) <=>
                 \/ \E p \in DOMAIN w : m = NodeOf(w, p)
                 \/ /\ Has(a, m) /\ m.path \notin DOMAIN w
                    /\ \A d \in Above[m.path] \cap DOMAIN w : w[d].type = "dir"
    BY <1>7, <1>10, <1>12 DEF Overlaid
<1>14. ASSUME NEW m, Has(s, m) PROVE IsFrom(r, list, n + 1, m)
    <2>1. CASE \E p \in DOMAIN w : m = NodeOf(w, p)
        <3>1. PICK p \in DOMAIN w : m = NodeOf(w, p)
            BY <2>1
        <3>2. m.path = p /\ p \in DOMAIN r /\ r[p] = w[p]
            BY <1>5, <1>11, <3>1
        <3>3. n + 1 \in 1..n + 1
            OBVIOUS
        <3> QED BY <1>1, <3>1, <3>2, <3>3 DEF IsFrom
    <2>2. CASE /\ Has(a, m) /\ m.path \notin DOMAIN w
               /\ \A d \in Above[m.path] \cap DOMAIN w : w[d].type = "dir"
        <3>1. IsFrom(o, list, n, m)
            BY <1>8, <2>2 DEF IsMergedIndex
        <3>2. PICK k \in 1..n :
                 /\ m.path \in DOMAIN o /\ m.path \in DOMAIN list[k]
                 /\ o[m.path] = list[k][m.path]
                 /\ m = NodeOf(list[k], m.path)
            BY <3>1 DEF IsFrom
        <3>3. m.path \in DOMAIN r /\ r[m.path] = o[m.path]
            BY <1>5, <2>2, <3>2
        <3>4. k \in 1..n + 1
            OBVIOUS
        <3> QED BY <3>2, <3>3, <3>4 DEF IsFrom
    <2> QED BY <1>13, <1>14, <2>1, <2>2
<1>15. ASSUME NEW p \in DOMAIN r PROVE \E m : Has(s, m) /\ m.path = p
    <2>1. CASE p \in DOMAIN w
        BY <1>11, <1>13, <2>1
    <2>2. CASE p \notin DOMAIN w
        <3>1. p \in DOMAIN o /\ \A d \in Above[p] \cap DOMAIN w : w[d].type = "dir"
            BY <1>5, <2>2
        <3>2. PICK m : Has(a, m) /\ m.path = p
            BY <1>8, <3>1 DEF IsMergedIndex
        <3> QED BY <1>13, <2>2, <3>1, <3>2
    <2> QED BY <2>1, <2>2
<1>16. \A p \in DOMAIN list[n + 1] : Has(s, NodeOf(list[n + 1], p))
    BY <1>1, <1>13
<1>17. IsMergedIndex(s, r, list, n + 1)
    BY <1>10, <1>14, <1>15, <1>16 DEF IsMergedIndex
<1> QED
    BY <1>3, <1>9, <1>17

-----------------------------------------------------------------------------
(* What is written of a merged index. *)

\* A list of which no directory is dirty is left as it is.
LEMMA NoneWritten ==
    ASSUME NEW list, Len(list) \in Nat
    PROVE  WrittenAll(list, {}) = list
<1>0. PICK z \in Nat : z = Len(list)
    OBVIOUS
<1> DEFINE IsUp(u) ==
        u = [k \in 0..Len(list) |->
                IF k = 0 THEN list
                ELSE IF Len(list) + 1 - k \in {} THEN Written(u[k - 1], Len(list) + 1 - k)
                ELSE u[k - 1]]
<1>1. \E u : IsUp(u)
    <2> DEFINE v == [k \in 0..z |-> list]
    <2>1. \A k \in 0..z :
             v[k] = IF k = 0 THEN list
                    ELSE IF z + 1 - k \in {} THEN Written(v[k - 1], z + 1 - k)
                    ELSE v[k - 1]
        OBVIOUS
    <2>2. v = [k \in 0..z |-> v[k]]
        OBVIOUS
    <2> HIDE DEF v
    <2>3. v = [k \in 0..z |->
                IF k = 0 THEN list
                ELSE IF z + 1 - k \in {} THEN Written(v[k - 1], z + 1 - k)
                ELSE v[k - 1]]
        BY <2>1, <2>2
    <2> QED BY <1>0, <2>3
<1>2. PICK u : IsUp(u) /\ WrittenAll(list, {}) = u[Len(list)]
    BY <1>1 DEF WrittenAll
<1> DEFINE P == {k \in 0..z : u[k] = list}
<1>3. 0 \in P
    BY <1>0, <1>2
<1>4. \A k \in 1..z : k - 1 \in P => k \in P
    <2> SUFFICES ASSUME NEW k \in 1..z, u[k - 1] = list PROVE u[k] = list
        OBVIOUS
    <2>1. k \in 0..Len(list) /\ k # 0
        BY <1>0
    <2> QED BY <1>2, <2>1
<1>5. 0..z \subseteq P
    <2> HIDE DEF P
    <2> QED BY <1>3, <1>4, Counting
<1>6. u[z] = list
    BY <1>5
<1> QED
    BY <1>0, <1>2, <1>6

\* The nodes lead to what a cache has.
IsStoredIndex(a, S) ==
    /\ IsList(a) /\ Single(a) /\ Typed(a)
    /\ \A x \in 1..Len(a) :
          /\ a[x].type = "link" => a[x].hash = NoHash
          /\ a[x].type # "link" => a[x].hash \in S
    /\ Whole(S \cup {TreeOf(a, Root)})

LEMMA MergedObjects ==
    ASSUME NEW list, AreDisks(list), NEW n \in 0..Len(list), NEW disk,
           NEW a, IsMergedIndex(a, disk, list, n),
           NEW S, Whole(S), \A k \in 1..n : ObjectsIn(list[k]) \subseteq S
    PROVE  IsStoredIndex(a, S)
<1>1. IsBranch(a, Root) /\ IsList(a)
    BY DEF IsMergedIndex, IsBranch
<1>2. Single(a)
    BY <1>1, BranchSingle DEF Single
<1>3. ASSUME NEW x \in 1..Len(a)
      PROVE  /\ a[x].type \in {"file", "dir", "link"}
             /\ a[x].type = "link" => a[x].hash = NoHash
             /\ a[x].type # "link" => a[x].hash \in S
    <2>1. PICK m : m = a[x] /\ Has(a, m)
        BY DEF Has
    <2>2. PICK k \in 1..n : m.path \in DOMAIN list[k] /\ m = NodeOf(list[k], m.path)
        BY <2>1 DEF IsMergedIndex, IsFrom
    <2>3. PICK w : w = list[k] /\ IsDisk(w)
        <3>1. k \in 1..Len(list)
            BY DEF AreDisks
        <3> QED BY <3>1 DEF AreDisks
    <2>4. PICK p \in DOMAIN w : m = NodeOf(w, p)
        BY <2>2, <2>3
    <2>5. m.type = w[p].type /\ m.hash = Hashes(w, {})[p]
        BY <2>4, NodeOfIs
    <2>6. IsDiskIndex(IndexOf(w, {}), w)
        BY <2>3, DiskIndex
    <2>7. w[p].type = "link" => Hashes(w, {})[p] = NoHash
        BY <2>6 DEF IsDiskIndex
    <2>8. w[p].type # "link" => Hashes(w, {})[p] \in S
        <3>1. w[p].type # "link" => Hashes(w, {})[p] \in ObjectsIn(w)
            BY DEF ObjectsIn
        <3> QED BY <2>3, <3>1
    <2>9. w[p].type \in {"file", "dir", "link"}
        BY <2>3 DEF IsDisk
    <2> QED BY <2>1, <2>5, <2>7, <2>8, <2>9
<1>4. Typed(a)
    BY <1>3 DEF Typed
<1>5. ASSUME NEW l \in TreeOf(a, Root), Len(l) = 5
      PROVE  (l[2] = "link" /\ l[5] = NoHash) \/ l[5] \in S
    <2>1. Len(<<"tree">>) # 5
        OBVIOUS
    <2>2. PICK x \in Within(a, Root) : l = Line(a[x])
        BY <1>5, <2>1 DEF TreeOf, TreeHash
    <2>3. l[2] = a[x].type /\ l[5] = a[x].hash
        BY <2>2 DEF Line
    <2> QED BY <1>3, <2>2, <2>3 DEF Within
<1>6. Whole(S \cup {TreeOf(a, Root)})
    BY <1>5 DEF Whole
<1> QED
    BY <1>1, <1>2, <1>3, <1>4, <1>6 DEF IsStoredIndex

\* No directory of one workspace is in another.
Apart(list) ==
    \A x, y \in DOMAIN list, p \in Paths :
        x # y /\ p \in DOMAIN list[x] \cap DOMAIN list[y] =>
            list[x][p].type # "dir" /\ list[y][p].type # "dir"

\* Then what is in a directory is that of the one workspace which has it.
LEMMA OneHas ==
    ASSUME NEW list, AreDisks(list), Apart(list), DOMAIN list = 1..Len(list),
           NEW n \in 0..Len(list), NEW disk, IsOverlay(disk, list, n),
           NEW k \in 1..n, NEW p \in DOMAIN list[k], list[k][p].type = "dir",
           NEW q \in Paths, Parent[q] = p
    PROVE  /\ q \in DOMAIN disk <=> q \in DOMAIN list[k]
           /\ q \in DOMAIN disk => disk[q] = list[k][q]
<1>0. 1..n \subseteq 1..Len(list) /\ 1..n \subseteq DOMAIN list
    BY DEF AreDisks
<1>1. \A l \in 1..n : IsDisk(list[l])
    BY <1>0 DEF AreDisks
<1>2. p \in Paths /\ p # Root
    BY <1>1, TreeAssumption DEF IsDisk
<1>3. ASSUME q \in DOMAIN disk PROVE q \in DOMAIN list[k] /\ disk[q] = list[k][q]
    <2>1. PICK l \in 1..n : q \in DOMAIN list[l] /\ disk[q] = list[l][q]
        BY <1>3 DEF IsOverlay
    <2>2. p \in DOMAIN list[l]
        BY <1>1, <1>2, <2>1 DEF IsDisk
    <2>3. l = k
        BY <1>0, <1>2, <2>2 DEF Apart
    <2> QED BY <2>1, <2>3
<1>4. ASSUME q \in DOMAIN list[k], q \notin DOMAIN disk PROVE FALSE
    <2>1. PICK l \in 1..n : l # k /\ \E c \in Above[q] : c \in DOMAIN list[l] /\ list[l][c].type # "dir"
        BY <1>4 DEF IsOverlay
    <2>2. PICK c \in Above[q] : c \in DOMAIN list[l]
        BY <2>1
    <2>3. c \in DOMAIN list[k] /\ list[k][c].type = "dir"
        BY <1>1, <1>4, DiskAbove
    <2>4. c \in Paths
        BY AboveOrder
    <2> QED BY <1>0, <2>1, <2>2, <2>3, <2>4 DEF Apart
<1> QED
    BY <1>3, <1>4

LEMMA ApartHashes ==
    ASSUME NEW list, AreDisks(list), Apart(list), DOMAIN list = 1..Len(list),
           NEW n \in 0..Len(list), NEW disk, IsOverlay(disk, list, n)
    PROVE  \A p \in DOMAIN disk : \A k \in 1..n :
              p \in DOMAIN list[k] /\ disk[p] = list[k][p] =>
                  Hashes(disk, {})[p] = Hashes(list[k], {})[p]
<1> DEFINE Alike(p) == \A k \in 1..n :
                        p \in DOMAIN list[k] /\ disk[p] = list[k][p] =>
                            Hashes(disk, {})[p] = Hashes(list[k], {})[p]
           Bad == {p \in DOMAIN disk : ~Alike(p)}
<1>0. DOMAIN disk \subseteq Paths
    BY DEF IsOverlay
<1>1. SUFFICES ASSUME Bad # {} PROVE FALSE
    OBVIOUS
<1>2. PICK p \in Bad : \A q \in Bad : Rank[q] <= Rank[p]
    <2>1. Bad \subseteq Paths
        BY <1>0
    <2> HIDE DEF Bad
    <2> QED BY <1>1, <2>1, Highest
<1>3. p \in DOMAIN disk /\ p \in Paths /\ p # Root /\ ~Alike(p)
    BY <1>0, <1>2, TreeAssumption
<1>4. PICK k \in 1..n : p \in DOMAIN list[k] /\ disk[p] = list[k][p] /\
                        Hashes(disk, {})[p] # Hashes(list[k], {})[p]
    BY <1>3
<1>5. PICK w : w = list[k] /\ IsDisk(w)
    <2>1. k \in 1..Len(list)
        BY DEF AreDisks
    <2> QED BY <2>1 DEF AreDisks
<1>6. PICK g, h : g = Hashes(disk, {}) /\ h = Hashes(w, {})
    OBVIOUS
<1>7. g[p] = HashOf(disk, {}, g, p) /\ h[p] = HashOf(w, {}, h, p)
    <2>1. g = [q \in Paths \cup {Root} |-> HashOf(disk, {}, g, q)]
        <3>1. Hashes(disk, {}) = [q \in Paths \cup {Root} |-> HashOf(disk, {}, Hashes(disk, {}), q)]
            BY <1>0, HashesIs
        <3> QED BY <1>6, <3>1, Zenon
    <2>2. h = [q \in Paths \cup {Root} |-> HashOf(w, {}, h, q)]
        BY <1>5, <1>6, HashesIs DEF IsDisk
    <2>3. g[p] = HashOf(disk, {}, g, p)
        BY <1>3, <2>1, Zenon
    <2>4. h[p] = HashOf(w, {}, h, p)
        BY <1>3, <2>2, Zenon
    <2> QED BY <2>3, <2>4
<1>8. disk[p] = w[p] /\ g[p] # h[p]
    BY <1>4, <1>5, <1>6
<1>9. CASE disk[p].type = "file" \/ disk[p].type = "link"
    BY <1>3, <1>7, <1>8, <1>9 DEF HashOf
<1>10. CASE disk[p].type # "file" /\ disk[p].type # "link"
    <2>1. w[p].type = "dir"
        BY <1>4, <1>5, <1>8, <1>10 DEF IsDisk
    <2>2. ASSUME NEW q \in Paths, Parent[q] = p
          PROVE  /\ q \in DOMAIN disk <=> q \in DOMAIN w
                 /\ q \in DOMAIN disk => disk[q] = w[q]
        BY <1>4, <1>5, <2>1, <2>2, OneHas
    <2>3. ASSUME NEW q \in DOMAIN disk, Parent[q] = p PROVE g[q] = h[q]
        <3>1. q \in Paths /\ Parent[q] \in Paths /\ Parent[q] # Root
            BY <1>0, <1>3, <2>3
        <3>2. Rank[p] < Rank[q] /\ Rank[p] \in Nat /\ Rank[q] \in Nat
            BY <2>3, <3>1, ParentRank, RankNat
        <3>3. q \notin Bad
            <4> HIDE DEF Bad
            <4> QED BY <1>2, <3>2
        <3>4. Alike(q)
            BY <3>3
        <3>5. q \in DOMAIN list[k] /\ disk[q] = list[k][q]
            BY <1>5, <2>2, <2>3, <3>1
        <3> QED BY <1>5, <1>6, <3>4, <3>5
    <2>4. Listed(disk, {}) = DOMAIN disk /\ Listed(w, {}) = DOMAIN w
        BY DEF Listed
    <2>5. {q \in DOMAIN disk : Parent[q] = p} = {q \in DOMAIN w : Parent[q] = p}
        <3>1. DOMAIN w \subseteq Paths
            BY <1>5 DEF IsDisk
        <3> QED BY <1>0, <2>2, <3>1
    <2>6. ASSUME NEW q \in {q \in DOMAIN disk : Parent[q] = p}
          PROVE  Line(Node(q, disk[q], g[q])) = Line(Node(q, w[q], h[q]))
        BY <1>0, <2>2, <2>3
    <2>7. {Line(Node(q, disk[q], g[q])) : q \in {q \in DOMAIN disk : Parent[q] = p}}
          = {Line(Node(q, w[q], h[q])) : q \in {q \in DOMAIN w : Parent[q] = p}}
        BY <2>5, <2>6
    <2>8. DirHash(disk, {}, g, p) = DirHash(w, {}, h, p)
        BY <2>4, <2>7 DEF DirHash
    <2>9. g[p] = DirHash(disk, {}, g, p) /\ h[p] = DirHash(w, {}, h, p)
        BY <1>3, <1>7, <1>8, <1>10 DEF HashOf
    <2> QED BY <1>8, <2>8, <2>9
<1> QED
    BY <1>9, <1>10

\* The root of a merged index is then that of the overlay.
LEMMA ApartRoot ==
    ASSUME NEW list, AreDisks(list), Apart(list), DOMAIN list = 1..Len(list),
           NEW n \in 0..Len(list), NEW disk, IsOverlay(disk, list, n),
           NEW a, IsMergedIndex(a, disk, list, n)
    PROVE  TreeOf(a, Root) = Snapshot(disk, {})
<1>0. DOMAIN disk \subseteq Paths
    BY DEF IsOverlay
<1>1. PICK g : g = Hashes(disk, {})
    OBVIOUS
<1>2. g[Root] = HashOf(disk, {}, g, Root)
    <2>1. g = [q \in Paths \cup {Root} |-> HashOf(disk, {}, g, q)]
        <3>1. Hashes(disk, {}) = [q \in Paths \cup {Root} |-> HashOf(disk, {}, Hashes(disk, {}), q)]
            BY <1>0, HashesIs
        <3> QED BY <1>1, <3>1, Zenon
    <2> QED BY <2>1, Zenon
<1>3. Listed(disk, {}) = DOMAIN disk
    BY DEF Listed
<1>4. Snapshot(disk, {}) =
          TreeHash({Line(Node(q, disk[q], g[q])) : q \in {q \in DOMAIN disk : Parent[q] = Root}})
    BY <1>1, <1>2, <1>3 DEF Snapshot, HashOf, DirHash
<1>5. ASSUME NEW m, Has(a, m)
      PROVE  m.path \in DOMAIN disk /\ m = Node(m.path, disk[m.path], g[m.path])
    <2>1. PICK p : p = m.path
        OBVIOUS
    <2>2. PICK k \in 1..n : /\ p \in DOMAIN disk /\ p \in DOMAIN list[k]
                            /\ disk[p] = list[k][p]
                            /\ m = NodeOf(list[k], p)
        BY <1>5, <2>1 DEF IsMergedIndex, IsFrom
    <2>3. Hashes(disk, {})[p] = Hashes(list[k], {})[p]
        BY <2>2, ApartHashes
    <2>4. m = Node(p, disk[p], g[p])
        BY <1>1, <2>2, <2>3 DEF NodeOf
    <2> QED BY <2>1, <2>2, <2>4
<1>6. {Line(a[x]) : x \in Within(a, Root)}
      = {Line(Node(q, disk[q], g[q])) : q \in {q \in DOMAIN disk : Parent[q] = Root}}
    <2>1. ASSUME NEW x \in Within(a, Root)
          PROVE  \E q \in DOMAIN disk : Parent[q] = Root /\ Line(a[x]) = Line(Node(q, disk[q], g[q]))
        <3>1. PICK m : m = a[x] /\ Has(a, m) /\ Parent[m.path] = Root
            BY DEF Within, Has
        <3> QED BY <1>5, <3>1
    <2>2. ASSUME NEW q \in DOMAIN disk, Parent[q] = Root
          PROVE  \E x \in Within(a, Root) : Line(Node(q, disk[q], g[q])) = Line(a[x])
        <3>1. PICK m : Has(a, m) /\ m.path = q
            BY DEF IsMergedIndex
        <3>2. PICK x \in 1..Len(a) : a[x] = m
            BY <3>1 DEF Has
        <3>3. x \in Within(a, Root)
            BY <2>2, <3>1, <3>2 DEF Within
        <3>4. a[x] = Node(q, disk[q], g[q])
            BY <1>5, <3>1, <3>2
        <3> QED BY <3>3, <3>4
    <2> QED BY <2>1, <2>2
<1> QED
    BY <1>4, <1>6 DEF TreeOf

\* The merged index is that of the workspaces merged so far, and what they
\* have is in the cache.
MergeInv ==
    /\ \E n \in 1..MaxPaths : given \in [1..n -> Workspaces]
    /\ done \in 0..Len(given)
    /\ stage \in {"refresh", "merge", "returned"}
    /\ IsMergedIndex(merged, Overlay(given, done), given, done)
    /\ Whole(cached)
    /\ \A k \in 1..done : ObjectsIn(given[k]) \subseteq cached
    /\ stage = "merge" =>
          /\ done < Len(given)
          /\ refreshed = IndexOf(given[done + 1], {})
          /\ ObjectsIn(given[done + 1]) \subseteq cached
    /\ stage = "returned" =>
          /\ done = Len(given)
          /\ printed = TreeOf(merged, Root) /\ printed \in cached

LEMMA GivenDisks ==
    ASSUME NEW n \in 1..MaxPaths, NEW list \in [1..n -> Workspaces]
    PROVE  /\ Len(list) = n /\ n \in Nat /\ DOMAIN list = 1..Len(list)
           /\ AreDisks(list)
<1>1. MaxPaths \in Nat /\ \A w \in Workspaces : IsWorkspace(w)
    BY MergeAssumption
<1>2. n \in Nat
    BY <1>1
<1>3. list \in Seq(Workspaces) /\ Len(list) = n
    BY <1>2
<1>4. \A w : IsWorkspace(w) => IsDisk(w)
    BY DEF IsWorkspace, IsDisk, IsEntry
<1>5. AreDisks(list)
    BY <1>1, <1>2, <1>3, <1>4 DEF AreDisks
<1> QED
    BY <1>2, <1>3, <1>5

LEMMA MergeStart == MergeInit => MergeInv
<1> SUFFICES ASSUME MergeInit PROVE MergeInv
    OBVIOUS
<1> USE DEF MergeInit
<1>1. PICK n \in 1..MaxPaths : given \in [1..n -> Workspaces]
    OBVIOUS
<1>2. Len(given) = n /\ n \in Nat /\ AreDisks(given)
    BY <1>1, GivenDisks
<1>3. done = 0 /\ done \in 0..Len(given) /\ 1..done = {}
    BY <1>2
<1>4. IsMergedIndex(merged, Overlay(given, done), given, done)
    BY <1>2, NothingMerged
<1>5. Whole(cached)
    BY DEF Whole
<1> QED
    BY <1>1, <1>3, <1>4, <1>5 DEF MergeInv

LEMMA MergeStep == MergeInv /\ [MergeNext]_mergeVars => MergeInv'
<1> SUFFICES ASSUME MergeInv, [MergeNext]_mergeVars PROVE MergeInv'
    OBVIOUS
<1>1. PICK n \in 1..MaxPaths : given \in [1..n -> Workspaces]
    BY DEF MergeInv
<1>2. Len(given) = n /\ n \in Nat /\ AreDisks(given)
    BY <1>1, GivenDisks
<1>3. CASE RefreshAdd
    <2> USE <1>3 DEF RefreshAdd
    <2>1. done + 1 \in 1..Len(given) /\ done \in 0..Len(given)
        BY <1>2 DEF MergeInv
    <2>2. PICK w : w = given[done + 1] /\ IsDisk(w)
        BY <1>2, <2>1 DEF AreDisks
    <2>3. cached' = cached \cup ObjectsIn(w) /\ Whole(ObjectsIn(w))
        BY <2>2, SnapshotObjects
    <2>4. Whole(cached')
        BY <2>3 DEF MergeInv, Whole
    <2>5. \A k \in 1..done' : ObjectsIn(given'[k]) \subseteq cached'
        BY <2>3 DEF MergeInv
    <2>6. ObjectsIn(given'[done' + 1]) \subseteq cached'
        BY <2>2, <2>3
    <2>7. IsMergedIndex(merged', Overlay(given', done'), given', done')
        BY DEF MergeInv
    <2>8. /\ \E k \in 1..MaxPaths : given' \in [1..k -> Workspaces]
          /\ done' \in 0..Len(given') /\ done' < Len(given')
          /\ stage' = "merge" /\ refreshed' = IndexOf(given'[done' + 1], {})
        BY <1>1, <2>1
    <2> QED BY <2>4, <2>5, <2>6, <2>7, <2>8 DEF MergeInv
<1>4. CASE MergeOther
    <2> USE <1>4 DEF MergeOther
    <2>1. /\ done \in Nat /\ done < Len(given) /\ done' = done + 1
          /\ done' \in 0..Len(given')
          /\ refreshed = IndexOf(given[done + 1], {})
          /\ ObjectsIn(given[done + 1]) \subseteq cached
        BY <1>2 DEF MergeInv
    <2>2. IsMergedIndex(merged, Overlay(given, done), given, done)
        BY DEF MergeInv
    <2>3. IsMergedIndex(Merge(merged, refreshed), Overlay(given, done + 1), given, done + 1)
        BY <1>2, <2>1, <2>2, MergedNext
    <2>4. IsMergedIndex(merged', Overlay(given', done'), given', done')
        BY <2>1, <2>3
    <2>5. \A k \in 1..done' : ObjectsIn(given'[k]) \subseteq cached'
        <3> SUFFICES ASSUME NEW k \in 1..done + 1 PROVE ObjectsIn(given[k]) \subseteq cached
            BY <2>1
        <3>1. CASE k = done + 1
            BY <2>1, <3>1
        <3>2. CASE k \in 1..done
            BY <3>2 DEF MergeInv
        <3> QED BY <2>1, <3>1, <3>2
    <2>6. Whole(cached')
        BY DEF MergeInv
    <2>7. (\E k \in 1..MaxPaths : given' \in [1..k -> Workspaces]) /\ stage' = "refresh"
        BY <1>1
    <2> QED BY <2>1, <2>4, <2>5, <2>6, <2>7 DEF MergeInv
<1>5. CASE AddMerged
    <2> USE <1>5 DEF AddMerged
    <2>1. /\ done \in 0..Len(given) /\ done = Len(given)
          /\ IsMergedIndex(merged, Overlay(given, done), given, done)
          /\ Whole(cached)
          /\ \A k \in 1..done : ObjectsIn(given[k]) \subseteq cached
        BY DEF MergeInv
    <2>2. IsStoredIndex(merged, cached)
        BY <1>2, <2>1, MergedObjects
    <2>3. IsList(merged)
        BY <2>2 DEF IsStoredIndex
    <2>4. DOMAIN merged = 1..Len(merged) /\ Len(merged) \in Nat
        BY <2>3, OrderedIs
    <2>5. {k \in DOMAIN merged : merged[k].type = "dir" /\ merged[k].hash \notin cached} = {}
        BY <2>2, <2>4 DEF IsStoredIndex
    <2>6. WrittenAll(merged, {}) = merged
        BY <2>4, NoneWritten
    <2>7. /\ merged' = merged
          /\ printed' = TreeHash({Line(m) : m \in ChildrenOf(merged, Root)})
          /\ cached' = cached \cup {printed'}
        BY <2>5, <2>6
    <2>8. printed' = TreeOf(merged', Root)
        BY <2>3, <2>7, ChildrenLines
    <2>9. Whole(cached')
        BY <2>2, <2>7, <2>8 DEF IsStoredIndex
    <2>10. \A k \in 1..done' : ObjectsIn(given'[k]) \subseteq cached'
        BY <2>1, <2>7
    <2>11. IsMergedIndex(merged', Overlay(given', done'), given', done')
        BY <2>1, <2>7
    <2>12. /\ \E k \in 1..MaxPaths : given' \in [1..k -> Workspaces]
           /\ done' \in 0..Len(given') /\ done' = Len(given')
           /\ stage' = "returned"
        BY <1>1, <2>1
    <2> QED BY <2>7, <2>8, <2>9, <2>10, <2>11, <2>12 DEF MergeInv
<1>6. CASE UNCHANGED mergeVars
    BY <1>6 DEF MergeInv, mergeVars
<1> QED
    BY <1>3, <1>4, <1>5, <1>6 DEF MergeNext

LEMMA MergeInvariant == MergeSpec => []MergeInv
BY MergeStart, MergeStep, PTL DEF MergeSpec

LEMMA InvMergedIsOverlay == MergeInv => MergedIsOverlay
<1> SUFFICES ASSUME MergeInv, stage = "refresh",
                    NEW disk, disk = Overlay(given, done)
             PROVE  /\ ToSet(PathsOf(merged)) = DOMAIN disk
                    /\ \A n \in ToSet(merged) : n = Node(n.path, disk[n.path], n.hash)
    BY DEF MergedIsOverlay
<1>1. IsMergedIndex(merged, disk, given, done)
    BY DEF MergeInv
<1>2. IsList(merged)
    BY <1>1 DEF IsMergedIndex, IsBranch
<1>3. /\ PathsOf(merged) \in Seq(Paths)
      /\ Len(PathsOf(merged)) = Len(merged) /\ Len(merged) \in Nat
      /\ DOMAIN merged = 1..Len(merged)
      /\ \A x \in 1..Len(merged) : PathsOf(merged)[x] = merged[x].path
    BY <1>2, PathsOfList
<1>4. ASSUME NEW m, Has(merged, m)
      PROVE  m.path \in DOMAIN disk /\ m = Node(m.path, disk[m.path], m.hash)
    <2>1. PICK p : p = m.path
        OBVIOUS
    <2>2. PICK k \in 1..done : p \in DOMAIN disk /\ disk[p] = given[k][p] /\ m = NodeOf(given[k], p)
        BY <1>1, <1>4, <2>1 DEF IsMergedIndex, IsFrom
    <2>3. m.hash = Hashes(given[k], {})[p]
        BY <2>2, NodeOfIs
    <2>4. m = Node(p, disk[p], m.hash)
        BY <2>2, <2>3 DEF NodeOf
    <2> QED BY <2>1, <2>2, <2>4
<1>5. ASSUME NEW p \in DOMAIN disk PROVE \E x \in 1..Len(merged) : merged[x].path = p
    BY <1>1 DEF IsMergedIndex, Has
<1>6. \A x \in 1..Len(merged) : Has(merged, merged[x])
    BY DEF Has
<1>7. ToSet(PathsOf(merged)) = {merged[x].path : x \in 1..Len(merged)}
    <2>1. DOMAIN PathsOf(merged) = 1..Len(merged)
        BY <1>3
    <2> QED BY <1>3, <2>1 DEF ToSet
<1>8. ToSet(merged) = {merged[x] : x \in 1..Len(merged)}
    BY <1>3 DEF ToSet
<1>9. ToSet(PathsOf(merged)) = DOMAIN disk
    BY <1>4, <1>5, <1>6, <1>7
<1>10. ASSUME NEW m \in ToSet(merged) PROVE m = Node(m.path, disk[m.path], m.hash)
    <2>1. Has(merged, m)
        BY <1>8 DEF Has
    <2> QED BY <1>4, <2>1
<1> QED
    BY <1>9, <1>10

LEMMA InvLastIsWhole == MergeInv => LastIsWhole
<1> SUFFICES ASSUME MergeInv, stage = "returned", NEW p \in DOMAIN given[done]
             PROVE  Lines(printed)[p] = Lines(Snapshot(given[done], {}))[p]
    BY DEF LastIsWhole
<1>1. PICK n \in 1..MaxPaths : given \in [1..n -> Workspaces]
    BY DEF MergeInv
<1>2. Len(given) = n /\ n \in Nat /\ AreDisks(given) /\ done = n /\ n >= 1
    BY <1>1, GivenDisks DEF MergeInv
<1>3. PICK w : w = given[done] /\ IsDisk(w)
    BY <1>2 DEF AreDisks
<1>4. /\ IsMergedIndex(merged, Overlay(given, done), given, done)
      /\ Whole(cached)
      /\ \A k \in 1..done : ObjectsIn(given[k]) \subseteq cached
      /\ printed = TreeOf(merged, Root)
    BY DEF MergeInv
<1>5. IsStoredIndex(merged, cached)
    BY <1>2, <1>4, MergedObjects
<1>6. IsTreeOf(printed, merged, Root)
    BY <1>4, <1>5, SingleLines DEF IsStoredIndex
<1>7. ASSUME NEW q \in DOMAIN w, Parent[q] = Root PROVE LineIn(printed, q) = Line(NodeOf(w, q))
    <2>1. PICK x \in 1..Len(merged) : merged[x] = NodeOf(w, q)
        BY <1>2, <1>3, <1>4 DEF IsMergedIndex, Has
    <2>2. merged[x].path = q
        BY <2>1, NodeOfIs
    <2>3. x \in Within(merged, Root)
        BY <1>7, <2>2 DEF Within
    <2>4. LineIn(printed, merged[x].path) = Line(merged[x])
        BY <1>6, <2>3 DEF IsTreeOf
    <2> QED BY <2>1, <2>2, <2>4
<1>8. \A q \in DOMAIN w : Lines(printed)[q] = Line(NodeOf(w, q))
    BY <1>3, <1>7, BelowRoot
<1>9. \A q \in DOMAIN w : Lines(Snapshot(w, {}))[q] = Line(NodeOf(w, q))
    BY <1>3, SnapshotLines
<1> QED
    BY <1>3, <1>8, <1>9

LEMMA InvDisjointIsOverlay == MergeInv => DisjointIsOverlay
<1> SUFFICES ASSUME MergeInv, stage = "returned", Apart(given)
             PROVE  printed = Snapshot(Overlay(given, done), {})
    BY DEF DisjointIsOverlay, Apart
<1>1. PICK n \in 1..MaxPaths : given \in [1..n -> Workspaces]
    BY DEF MergeInv
<1>2. Len(given) = n /\ n \in Nat /\ AreDisks(given) /\ done \in 0..Len(given) /\ DOMAIN given = 1..Len(given)
    BY <1>1, GivenDisks DEF MergeInv
<1>3. PICK disk : disk = Overlay(given, done)
    OBVIOUS
<1>4. IsOverlay(disk, given, done)
    BY <1>2, <1>3, OverlayFacts
<1>5. IsMergedIndex(merged, disk, given, done) /\ printed = TreeOf(merged, Root)
    BY <1>3 DEF MergeInv
<1>6. TreeOf(merged, Root) = Snapshot(disk, {})
    BY <1>2, <1>4, <1>5, ApartRoot
<1> QED
    BY <1>3, <1>5, <1>6

LEMMA InvMergedIsStored == MergeInv => MergedIsStored
BY WholeObjects DEF MergeInv, MergedIsStored

\* The index that is merged of any workspaces lists what they have together:
\* index::merge loses no node, keeps none twice and none below a file.
THEOREM MergedListsOverlay == MergeSpec => []MergedIsOverlay
BY MergeInvariant, InvMergedIsOverlay, PTL

\* The tree that write_tree of several paths prints has all that the last path
\* has.
THEOREM LastPathIsWhole == MergeSpec => []LastIsWhole
BY MergeInvariant, InvLastIsWhole, PTL

\* It is the tree of the workspaces copied over each other, if no directory is
\* in two of them.
THEOREM ApartIsOverlay == MergeSpec => []DisjointIsOverlay
BY MergeInvariant, InvDisjointIsOverlay, PTL

\* And its objects are in the cache, though only the root was written.
THEOREM MergedObjectsStored == MergeSpec => []MergedIsStored
BY MergeInvariant, InvMergedIsStored, PTL
=============================================================================
