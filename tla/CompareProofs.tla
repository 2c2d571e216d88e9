--------------------------- MODULE CompareProofs ---------------------------
(***************************************************************************)
(* Proofs about compare_to_baseline, for texts of any size and depth: the  *)
(* recursive definitions have a function, it answers right, and so does    *)
(* the comparison that asks it.                                            *)
(***************************************************************************)
EXTENDS Compare, SequenceTheorems, NaturalsInduction, WellFoundedInduction, TLAPS

\* A set of naturals has a least element.
LEMMA Least ==
  ASSUME NEW T, T \subseteq Nat, T # {}
  PROVE  \E x \in T : \A y \in T : x <= y
<1>1. PICK x \in T : \A y \in T : <<y, x>> \notin OpToRel(<, Nat)
  BY NatLessThanWellFounded, WFMin
<1>2. \A y \in T : ~ (y < x)
  BY <1>1 DEF OpToRel
<1>3. QED
  BY <1>2

LEMMA NestingType == \A x \in Nodes : Nesting(x) \in Nat
BY NodesAssumption, Zenon

\* Some node of a set nests least deep.
LEMMA LeastNested ==
  ASSUME NEW S, S \subseteq Nodes, S # {}
  PROVE  \E x \in S : \A y \in S : ~ (Nesting(y) < Nesting(x))
<1> DEFINE T == {Nesting(x) : x \in S}
<1>1. T \subseteq Nat /\ T # {}
  BY NestingType
<1>2. PICK n \in T : \A k \in T : n <= k
  BY <1>1, Least
<1>3. PICK x \in S : n = Nesting(x)
  BY <1>2
<1>4. \A y \in S : Nesting(y) \in T
  OBVIOUS
<1>5. \A y \in S : n <= Nesting(y) /\ Nesting(y) \in Nat /\ n \in Nat
  BY <1>1, <1>2, <1>4
<1>6. QED
  BY <1>3, <1>5

\* What the assumption says of the members of a node.
LEMMA NodeMembers ==
  ASSUME NEW x \in Nodes
  PROVE  /\ Len(x.members) \in Nat
         /\ x.kind \notin Containers => x.members = <<>>
         /\ x.kind \in Containers => x.raw = ""
         /\ \A i \in 1..Len(x.members) :
              /\ x.members[i].node \in Nodes
              /\ Nesting(x.members[i].node) < Nesting(x)
              /\ x.kind = "array" => x.members[i].name = ""
<1>1. CASE x = Scalar(x.kind, x.raw) /\ x.kind \in {"string", "number", "true", "false", "null"}
  <2>1. Scalar(x.kind, x.raw).members = <<>>
    BY DEF Scalar
  <2>2. x.members = <<>>
    BY <1>1, <2>1, Zenon
  <2>3. x.kind \notin Containers
    BY <1>1, Zenon DEF Containers
  <2>4. Len(x.members) = 0
    BY <2>2
  <2>5. 0 \in Nat /\ 1..0 = {}
    OBVIOUS
  <2>6. QED
    BY <2>2, <2>3, <2>4, <2>5, Zenon
<1>2. CASE /\ x = Tree(x.kind, x.members) /\ x.kind \in Containers
           /\ x.members \in Seq([name : STRING, node : Nodes])
           /\ \A i \in 1..Len(x.members) :
                /\ Nesting(x.members[i].node) < Nesting(x)
                /\ x.kind = "array" => x.members[i].name = ""
  <2>1. Tree(x.kind, x.members).raw = ""
    BY DEF Tree
  <2>2. x.raw = ""
    BY <1>2, <2>1, Zenon
  <2>3. ASSUME NEW s \in Seq([name : STRING, node : Nodes])
        PROVE  Len(s) \in Nat /\ \A i \in 1..Len(s) : s[i].node \in Nodes
    <3> DEFINE T == [name : STRING, node : Nodes]
    <3>1. \A m \in T : m.node \in Nodes
      OBVIOUS
    <3>2. s \in Seq(T)
      OBVIOUS
    <3> HIDE DEF T
    <3>3. Len(s) \in Nat /\ \A i \in 1..Len(s) : s[i] \in T
      BY <3>2
    <3>4. QED
      BY <3>1, <3>3
  <2>4. QED
    BY <1>2, <2>2, <2>3, Zenon
<1>3. QED
  BY <1>1, <1>2, NodesAssumption

---------------------------------------------------------------------------
(* numeric_only_difference is what its recursive definition says: it goes  *)
(* from nodes to their members, so there is a function that satisfies it.  *)

\* The results for the members decide.
LEMMA DifferenceOfMembers ==
  ASSUME NEW a \in Nodes, NEW b \in Nodes, NEW h, NEW g,
         Len(a.members) = Len(b.members) =>
           \A i \in 1..Len(a.members) :
             h[<<a.members[i].node, b.members[i].node>>] = g[<<a.members[i].node, b.members[i].node>>]
  PROVE  Difference(h, a, b) = Difference(g, a, b)
<1>1. CASE Len(a.members) = Len(b.members)
  <2>1. MemberResults(h, a, b) = MemberResults(g, a, b)
    BY <1>1, Zenon DEF MemberResults
  <2>2. QED
    BY <2>1, Zenon DEF Difference
<1>2. CASE Len(a.members) # Len(b.members)
  BY <1>2, Zenon DEF Difference
<1>3. QED
  BY <1>1, <1>2

\* h obeys the definition for nodes that nest less deep than n.
Obeys(h, n) ==
  \A a, b \in Nodes : Nesting(a) < n => h[<<a, b>>] = Difference(h, a, b)

\* The definition leaves no choice.
LEMMA ObeysAlike ==
  ASSUME NEW n \in Nat, NEW h, NEW g, Obeys(h, n), Obeys(g, n)
  PROVE  \A a, b \in Nodes : Nesting(a) < n => h[<<a, b>>] = g[<<a, b>>]
<1> DEFINE S == {a \in Nodes : Nesting(a) < n /\ \E b \in Nodes : h[<<a, b>>] # g[<<a, b>>]}
<1> SUFFICES ASSUME S # {}
             PROVE  FALSE
  OBVIOUS
<1>1. PICK a \in S : \A y \in S : ~ (Nesting(y) < Nesting(a))
  BY LeastNested
<1>2. PICK b \in Nodes : h[<<a, b>>] # g[<<a, b>>]
  BY <1>1
<1>3. a \in Nodes /\ Nesting(a) < n
  BY <1>1
<1>4. ASSUME Len(a.members) = Len(b.members), NEW i \in 1..Len(a.members)
      PROVE  h[<<a.members[i].node, b.members[i].node>>] = g[<<a.members[i].node, b.members[i].node>>]
  <2>1. a.members[i].node \in Nodes /\ b.members[i].node \in Nodes
    BY <1>2, <1>3, <1>4, NodeMembers
  <2>2. Nesting(a.members[i].node) < Nesting(a)
    BY <1>3, <1>4, NodeMembers
  <2>3. Nesting(a.members[i].node) < n
    BY <1>3, <2>1, <2>2, NestingType
  <2>4. a.members[i].node \notin S
    BY <1>1, <2>2
  <2>5. QED
    BY <2>1, <2>3, <2>4
<1>5. Difference(h, a, b) = Difference(g, a, b)
  BY <1>2, <1>3, <1>4, DifferenceOfMembers
<1>6. h[<<a, b>>] = Difference(h, a, b) /\ g[<<a, b>>] = Difference(g, a, b)
  BY <1>2, <1>3, Zenon DEF Obeys
<1>7. QED
  BY <1>2, <1>5, <1>6

LEMMA ObeysDeeper ==
  ASSUME NEW n \in Nat, NEW h, Obeys(h, n)
  PROVE  \E g : Obeys(g, n + 1)
<1> DEFINE g == [p \in Nodes \X Nodes |->
                   IF Nesting(p[1]) < n THEN h[p] ELSE Difference(h, p[1], p[2])]
<1>1. ASSUME NEW a \in Nodes, NEW b \in Nodes
      PROVE  g[<<a, b>>] = IF Nesting(a) < n THEN h[<<a, b>>] ELSE Difference(h, a, b)
  <2>1. <<a, b>> \in Nodes \X Nodes /\ <<a, b>>[1] = a /\ <<a, b>>[2] = b
    OBVIOUS
  <2>2. QED
    BY <2>1
<1> HIDE DEF g
<1>2. ASSUME NEW a \in Nodes, NEW b \in Nodes, Nesting(a) < n + 1
      PROVE  g[<<a, b>>] = Difference(g, a, b)
  <2>1. ASSUME Len(a.members) = Len(b.members), NEW i \in 1..Len(a.members)
        PROVE  h[<<a.members[i].node, b.members[i].node>>] = g[<<a.members[i].node, b.members[i].node>>]
    <3>1. a.members[i].node \in Nodes /\ b.members[i].node \in Nodes
      BY <2>1, NodeMembers
    <3>2. Nesting(a.members[i].node) < Nesting(a)
      BY <2>1, NodeMembers
    <3>3. Nesting(a.members[i].node) < n
      BY <1>2, <3>1, <3>2, NestingType
    <3>4. QED
      BY <1>1, <3>1, <3>3
  <2>2. Difference(h, a, b) = Difference(g, a, b)
    BY <2>1, DifferenceOfMembers
  <2>3. Nesting(a) < n => h[<<a, b>>] = Difference(h, a, b)
    BY Zenon DEF Obeys
  <2>4. QED
    BY <1>1, <2>2, <2>3
<1>3. QED
  BY <1>2, Zenon DEF Obeys

LEMMA ObeysExists ==
  ASSUME NEW n \in Nat
  PROVE  \E h : Obeys(h, n)
<1> DEFINE lacking == {m \in Nat : ~ \E h : Obeys(h, m)}
<1>1. 0 \notin lacking
  <2>1. \A a \in Nodes : ~ (Nesting(a) < 0)
    BY NestingType
  <2>2. \A h : Obeys(h, 0)
    BY <2>1, Zenon DEF Obeys
  <2>3. QED
    BY <2>2
<1>2. ASSUME NEW m \in lacking, \A k \in lacking : m <= k
      PROVE  FALSE
  <2>1. m \in Nat /\ m # 0 /\ m - 1 \in Nat /\ (m - 1) + 1 = m /\ ~ (m <= m - 1)
    BY <1>1
  <2>2. \E h : Obeys(h, m - 1)
    BY <1>2, <2>1
  <2>3. \E h : Obeys(h, (m - 1) + 1)
    BY <2>1, <2>2, ObeysDeeper
  <2>4. QED
    BY <2>1, <2>3
<1>3. lacking \subseteq Nat
  OBVIOUS
<1> HIDE DEF lacking
<1>4. lacking = {}
  BY <1>2, <1>3, Least
<1>5. QED
  BY <1>4 DEF lacking

LEMMA DifferenceDefined ==
  ASSUME NEW a \in Nodes, NEW b \in Nodes
  PROVE  numeric_only_difference[<<a, b>>] = Difference(numeric_only_difference, a, b)
<1> DEFINE f == [p \in Nodes \X Nodes |-> (CHOOSE h : Obeys(h, Nesting(p[1]) + 1))[p]]
<1>1. ASSUME NEW n \in Nat, NEW h, Obeys(h, n), NEW x \in Nodes, NEW y \in Nodes, Nesting(x) < n
      PROVE  f[<<x, y>>] = h[<<x, y>>]
  <2> DEFINE k == Nesting(x) + 1
             g == CHOOSE hh : Obeys(hh, k)
  <2>1. k \in Nat /\ k <= n /\ Nesting(x) < k
    BY <1>1, NestingType
  <2>2. Obeys(g, k)
    <3>1. \E hh : Obeys(hh, k)
      BY <2>1, ObeysExists
    <3>2. QED
      BY <3>1, Zenon
  <2>3. f[<<x, y>>] = g[<<x, y>>]
    <3>1. <<x, y>> \in Nodes \X Nodes /\ <<x, y>>[1] = x
      OBVIOUS
    <3>2. f[<<x, y>>] = (CHOOSE hh : Obeys(hh, Nesting(<<x, y>>[1]) + 1))[<<x, y>>]
      BY <3>1, Zenon
    <3>3. QED
      BY <3>1, <3>2, Zenon
  <2> HIDE DEF g, k, f
  <2>4. Obeys(h, k)
    <3>1. \A z \in Nodes : Nesting(z) < k => Nesting(z) < n
      BY <2>1, NestingType
    <3>2. QED
      BY <1>1, <3>1, Zenon DEF Obeys
  <2>5. QED
    BY <2>1, <2>2, <2>3, <2>4, ObeysAlike
<1>2. ASSUME NEW x \in Nodes, NEW y \in Nodes
      PROVE  f[<<x, y>>] = Difference(f, x, y)
  <2> DEFINE n == Nesting(x) + 1
  <2>1. n \in Nat /\ Nesting(x) < n
    BY NestingType
  <2>2. PICK h : Obeys(h, n)
    BY <2>1, ObeysExists
  <2> HIDE DEF n, f
  <2>3. f[<<x, y>>] = h[<<x, y>>]
    BY <1>1, <2>1, <2>2
  <2>4. h[<<x, y>>] = Difference(h, x, y)
    BY <2>1, <2>2, Zenon DEF Obeys
  <2>5. ASSUME Len(x.members) = Len(y.members), NEW i \in 1..Len(x.members)
        PROVE  h[<<x.members[i].node, y.members[i].node>>] = f[<<x.members[i].node, y.members[i].node>>]
    <3>1. x.members[i].node \in Nodes /\ y.members[i].node \in Nodes
      BY <2>5, NodeMembers
    <3>2. Nesting(x.members[i].node) < Nesting(x)
      BY <2>5, NodeMembers
    <3>3. Nesting(x.members[i].node) < n
      BY <2>1, <3>1, <3>2, NestingType
    <3>4. QED
      BY <1>1, <2>1, <2>2, <3>1, <3>3
  <2>6. Difference(h, x, y) = Difference(f, x, y)
    BY <2>5, DifferenceOfMembers
  <2>7. QED
    BY <2>3, <2>4, <2>6, Zenon
<1>3. f = [p \in Nodes \X Nodes |-> Difference(f, p[1], p[2])]
  <2> DEFINE g == [p \in Nodes \X Nodes |-> Difference(f, p[1], p[2])]
  <2>1. \A p \in Nodes \X Nodes : p[1] \in Nodes /\ p[2] \in Nodes /\ p = <<p[1], p[2]>>
    OBVIOUS
  <2>2. \A p \in Nodes \X Nodes : f[p] = Difference(f, p[1], p[2])
    <3> HIDE DEF f
    <3>1. TAKE p \in Nodes \X Nodes
    <3>2. f[<<p[1], p[2]>>] = Difference(f, p[1], p[2])
      BY <1>2, <2>1, Zenon
    <3>3. QED
      BY <2>1, <3>2, Zenon
  <2>3. \A p \in Nodes \X Nodes : f[p] = g[p]
    BY <2>2, Zenon
  <2>4. f = g
    BY <2>3, Zenon
  <2>5. QED
    BY <2>4, Zenon
<1> HIDE DEF f
<1>4. numeric_only_difference = [p \in Nodes \X Nodes |-> Difference(numeric_only_difference, p[1], p[2])]
  BY <1>3, Zenon DEF numeric_only_difference
<1>5. <<a, b>> \in Nodes \X Nodes /\ <<a, b>>[1] = a /\ <<a, b>>[2] = b
  OBVIOUS
<1>6. QED
  <2> DEFINE d == numeric_only_difference
  <2>1. d = [p \in Nodes \X Nodes |-> Difference(d, p[1], p[2])]
    BY <1>4
  <2> HIDE DEF d
  <2>2. d[<<a, b>>] = Difference(d, <<a, b>>[1], <<a, b>>[2])
    BY <1>5, <2>1, Zenon
  <2>3. d[<<a, b>>] = Difference(d, a, b)
    BY <1>5, <2>2, Zenon
  <2>4. QED
    BY <2>3 DEF d

---------------------------------------------------------------------------
(* So is Parts.                                                            *)

LEMMA PartsOfMembers ==
  ASSUME NEW x \in Nodes, NEW h, NEW g,
         \A i \in 1..Len(x.members) : h[x.members[i].node] = g[x.members[i].node]
  PROVE  PartsOf(h, x) = PartsOf(g, x)
<1>1. \A i \in 1..Len(x.members) : Within(h, x, i) = Within(g, x, i)
  BY Zenon DEF Within
<1>2. \A l : l \in PartsOf(h, x) <=> l \in PartsOf(g, x)
  BY <1>1, Zenon DEF PartsOf
<1>3. QED
  BY <1>2, Zenon

\* h obeys the definition of Parts for nodes that nest less deep than n.
HasParts(h, n) == \A x \in Nodes : Nesting(x) < n => h[x] = PartsOf(h, x)

LEMMA HasPartsAlike ==
  ASSUME NEW n \in Nat, NEW h, NEW g, HasParts(h, n), HasParts(g, n)
  PROVE  \A x \in Nodes : Nesting(x) < n => h[x] = g[x]
<1> DEFINE S == {x \in Nodes : Nesting(x) < n /\ h[x] # g[x]}
<1> SUFFICES ASSUME S # {}
             PROVE  FALSE
  OBVIOUS
<1>1. PICK x \in S : \A y \in S : ~ (Nesting(y) < Nesting(x))
  BY LeastNested
<1>2. x \in Nodes /\ Nesting(x) < n /\ h[x] # g[x]
  BY <1>1
<1>3. ASSUME NEW i \in 1..Len(x.members)
      PROVE  h[x.members[i].node] = g[x.members[i].node]
  <2>1. x.members[i].node \in Nodes /\ Nesting(x.members[i].node) < Nesting(x)
    BY <1>2, <1>3, NodeMembers
  <2>2. Nesting(x.members[i].node) < n
    BY <1>2, <2>1, NestingType
  <2>3. x.members[i].node \notin S
    BY <1>1, <2>1
  <2>4. QED
    BY <2>1, <2>2, <2>3
<1>4. PartsOf(h, x) = PartsOf(g, x)
  BY <1>2, <1>3, PartsOfMembers
<1>5. h[x] = PartsOf(h, x) /\ g[x] = PartsOf(g, x)
  BY <1>2, Zenon DEF HasParts
<1>6. QED
  BY <1>2, <1>4, <1>5

LEMMA HasPartsDeeper ==
  ASSUME NEW n \in Nat, NEW h, HasParts(h, n)
  PROVE  \E g : HasParts(g, n + 1)
<1> DEFINE g == [x \in Nodes |-> IF Nesting(x) < n THEN h[x] ELSE PartsOf(h, x)]
<1>1. \A x \in Nodes : g[x] = IF Nesting(x) < n THEN h[x] ELSE PartsOf(h, x)
  OBVIOUS
<1> HIDE DEF g
<1>2. ASSUME NEW x \in Nodes, Nesting(x) < n + 1
      PROVE  g[x] = PartsOf(g, x)
  <2>1. ASSUME NEW i \in 1..Len(x.members)
        PROVE  h[x.members[i].node] = g[x.members[i].node]
    <3>1. x.members[i].node \in Nodes /\ Nesting(x.members[i].node) < Nesting(x)
      BY <2>1, NodeMembers
    <3>2. Nesting(x.members[i].node) < n
      BY <1>2, <3>1, NestingType
    <3>3. QED
      BY <1>1, <3>1, <3>2
  <2>2. PartsOf(h, x) = PartsOf(g, x)
    BY <2>1, PartsOfMembers
  <2>3. Nesting(x) < n => h[x] = PartsOf(h, x)
    BY Zenon DEF HasParts
  <2>4. QED
    BY <1>1, <2>2, <2>3
<1>3. QED
  BY <1>2, Zenon DEF HasParts

LEMMA HasPartsExists ==
  ASSUME NEW n \in Nat
  PROVE  \E h : HasParts(h, n)
<1> DEFINE lacking == {m \in Nat : ~ \E h : HasParts(h, m)}
<1>1. 0 \notin lacking
  <2>1. \A x \in Nodes : ~ (Nesting(x) < 0)
    BY NestingType
  <2>2. \A h : HasParts(h, 0)
    BY <2>1, Zenon DEF HasParts
  <2>3. QED
    BY <2>2
<1>2. ASSUME NEW m \in lacking, \A k \in lacking : m <= k
      PROVE  FALSE
  <2>1. m \in Nat /\ m # 0 /\ m - 1 \in Nat /\ (m - 1) + 1 = m /\ ~ (m <= m - 1)
    BY <1>1
  <2>2. \E h : HasParts(h, m - 1)
    BY <1>2, <2>1
  <2>3. \E h : HasParts(h, (m - 1) + 1)
    BY <2>1, <2>2, HasPartsDeeper
  <2>4. QED
    BY <2>1, <2>3
<1>3. lacking \subseteq Nat
  OBVIOUS
<1> HIDE DEF lacking
<1>4. lacking = {}
  BY <1>2, <1>3, Least
<1>5. QED
  BY <1>4 DEF lacking

LEMMA PartsDefined ==
  ASSUME NEW x \in Nodes
  PROVE  Parts[x] = PartsOf(Parts, x)
<1> DEFINE f == [y \in Nodes |-> (CHOOSE h : HasParts(h, Nesting(y) + 1))[y]]
<1>1. ASSUME NEW n \in Nat, NEW h, HasParts(h, n), NEW y \in Nodes, Nesting(y) < n
      PROVE  f[y] = h[y]
  <2> DEFINE k == Nesting(y) + 1
             g == CHOOSE hh : HasParts(hh, k)
  <2>1. k \in Nat /\ k <= n /\ Nesting(y) < k
    BY <1>1, NestingType
  <2>2. HasParts(g, k)
    <3>1. \E hh : HasParts(hh, k)
      BY <2>1, HasPartsExists
    <3>2. QED
      BY <3>1, Zenon
  <2>3. f[y] = g[y]
    BY Zenon
  <2> HIDE DEF g, k, f
  <2>4. HasParts(h, k)
    <3>1. \A z \in Nodes : Nesting(z) < k => Nesting(z) < n
      BY <2>1, NestingType
    <3>2. QED
      BY <1>1, <3>1, Zenon DEF HasParts
  <2>5. QED
    BY <2>1, <2>2, <2>3, <2>4, HasPartsAlike
<1>2. ASSUME NEW y \in Nodes
      PROVE  f[y] = PartsOf(f, y)
  <2> DEFINE n == Nesting(y) + 1
  <2>1. n \in Nat /\ Nesting(y) < n
    BY NestingType
  <2>2. PICK h : HasParts(h, n)
    BY <2>1, HasPartsExists
  <2> HIDE DEF n, f
  <2>3. f[y] = h[y]
    BY <1>1, <2>1, <2>2
  <2>4. h[y] = PartsOf(h, y)
    BY <2>1, <2>2, Zenon DEF HasParts
  <2>5. ASSUME NEW i \in 1..Len(y.members)
        PROVE  h[y.members[i].node] = f[y.members[i].node]
    <3>1. y.members[i].node \in Nodes /\ Nesting(y.members[i].node) < Nesting(y)
      BY <2>5, NodeMembers
    <3>2. Nesting(y.members[i].node) < n
      BY <2>1, <3>1, NestingType
    <3>3. QED
      BY <1>1, <2>1, <2>2, <3>1, <3>2
  <2>6. PartsOf(h, y) = PartsOf(f, y)
    BY <2>5, PartsOfMembers
  <2>7. QED
    BY <2>3, <2>4, <2>6, Zenon
<1>3. f = [y \in Nodes |-> PartsOf(f, y)]
  <2> DEFINE g == [y \in Nodes |-> PartsOf(f, y)]
  <2>1. \A y \in Nodes : f[y] = g[y]
    <3> HIDE DEF f
    <3>1. QED
      BY <1>2, Zenon
  <2>2. f = g
    BY <2>1, Zenon
  <2>3. QED
    BY <2>2, Zenon
<1> HIDE DEF f
<1>4. Parts = [y \in Nodes |-> PartsOf(Parts, y)]
  BY <1>3, Zenon DEF Parts
<1>5. QED
  <2> DEFINE p == Parts
  <2>1. p = [y \in Nodes |-> PartsOf(p, y)]
    BY <1>4
  <2> HIDE DEF p
  <2>2. p[x] = PartsOf(p, x)
    BY <2>1, Zenon
  <2>3. QED
    BY <2>2 DEF p

---------------------------------------------------------------------------
(* The lexemes of a node are its own and those of its members.             *)

LEMMA PartCases ==
  ASSUME NEW x \in Nodes, NEW l \in Parts[x]
  PROVE  \/ l = Root(x)
         \/ \E i \in 1..Len(x.members) : \E k \in Parts[x.members[i].node] :
              l = InMember(i, x.members[i], k)
<1>1. l \in PartsOf(Parts, x)
  BY PartsDefined, Zenon
<1>2. CASE l = Root(x)
  BY <1>2
<1>3. CASE \E i \in 1..Len(x.members) : l \in Within(Parts, x, i)
  BY <1>3, Zenon DEF Within
<1>4. QED
  BY <1>1, <1>2, <1>3, Zenon DEF PartsOf

LEMMA PartsInclude ==
  ASSUME NEW x \in Nodes
  PROVE  /\ Root(x) \in Parts[x]
         /\ \A i \in 1..Len(x.members) : \A k \in Parts[x.members[i].node] :
              InMember(i, x.members[i], k) \in Parts[x]
<1>1. Parts[x] = PartsOf(Parts, x)
  BY PartsDefined, Zenon
<1>2. Root(x) \in PartsOf(Parts, x)
  BY Zenon DEF PartsOf
<1>3. ASSUME NEW i \in 1..Len(x.members), NEW k \in Parts[x.members[i].node]
      PROVE  InMember(i, x.members[i], k) \in PartsOf(Parts, x)
  <2>1. InMember(i, x.members[i], k) \in Within(Parts, x, i)
    BY Zenon DEF Within
  <2>2. QED
    BY <2>1, Zenon DEF PartsOf
<1>4. QED
  BY <1>1, <1>2, <1>3, Zenon

LEMMA RootFields ==
  ASSUME NEW x
  PROVE  Root(x).at = <<>> /\ Root(x).name = "" /\ Root(x).kind = x.kind /\ Root(x).raw = x.raw
BY DEF Root

LEMMA InMemberFields ==
  \A i, member, l :
    /\ InMember(i, member, l).at = <<i>> \o l.at
    /\ InMember(i, member, l).name = IF l.at = <<>> THEN member.name ELSE l.name
    /\ InMember(i, member, l).kind = l.kind
    /\ InMember(i, member, l).raw = l.raw
BY DEF InMember

LEMMA InMemberKeeps ==
  \A i, member, l : InMember(i, member, l).kind = l.kind /\ InMember(i, member, l).raw = l.raw
BY InMemberFields, Zenon

LEMMA InMemberAt == \A i, member, l : InMember(i, member, l).at = <<i>> \o l.at
BY InMemberFields, Zenon

LEMMA MemberIndex ==
  ASSUME NEW x \in Nodes, NEW i \in 1..Len(x.members)
  PROVE  i \in Nat /\ 1 <= i /\ x.members[i].node \in Nodes
<1> DEFINE n == Len(x.members)
<1>1. n \in Nat
  BY NodeMembers, Zenon
<1>2. x.members[i].node \in Nodes
  BY NodeMembers, Zenon
<1>3. i \in 1..n
  OBVIOUS
<1> HIDE DEF n
<1>4. i \in Nat /\ 1 <= i
  BY <1>1, <1>3
<1>5. QED
  BY <1>2, <1>4, Zenon

\* Places are sequences of numbers, and nothing else is at the place of a root.
LEMMA Prefixed ==
  ASSUME NEW i \in Nat, NEW p \in Seq(Nat)
  PROVE  /\ <<i>> \o p \in Seq(Nat) /\ <<i>> \o p # <<>>
         /\ Len(<<i>> \o p) = Len(p) + 1
         /\ (<<i>> \o p)[1] = i
         /\ \A k \in 1..Len(p) : (<<i>> \o p)[k + 1] = p[k]
<1>1. <<i>> \in Seq(Nat) /\ Len(<<i>>) = 1 /\ <<i>>[1] = i
  OBVIOUS
<1>2. <<i>> \o p \in Seq(Nat) /\ Len(<<i>> \o p) = Len(p) + 1
  BY <1>1
<1>3. (<<i>> \o p)[1] = i
  BY <1>1
<1>4. \A k \in 1..Len(p) : (<<i>> \o p)[k + 1] = p[k]
  BY <1>1
<1>5. <<i>> \o p # <<>>
  BY <1>2
<1>6. QED
  BY <1>2, <1>3, <1>4, <1>5

LEMMA PrefixedOnce ==
  ASSUME NEW i \in Nat, NEW j \in Nat, NEW p \in Seq(Nat), NEW q \in Seq(Nat), <<i>> \o p = <<j>> \o q
  PROVE  i = j /\ p = q
<1>1. i = j
  BY Prefixed
<1>2. Len(p) = Len(q)
  <2>1. Len(p) \in Nat /\ Len(q) \in Nat /\ Len(p) + 1 = Len(q) + 1
    BY Prefixed
  <2>2. QED
    BY <2>1
<1>3. \A k \in 1..Len(p) : p[k] = q[k]
  BY <1>2, Prefixed
<1>4. QED
  BY <1>1, <1>2, <1>3, SeqEqual

LEMMA PlacesType == \A x \in Nodes : \A l \in Parts[x] : l.at \in Seq(Nat)
<1> DEFINE S == {x \in Nodes : \E l \in Parts[x] : l.at \notin Seq(Nat)}
<1> SUFFICES ASSUME S # {}
             PROVE  FALSE
  OBVIOUS
<1>1. PICK x \in S : \A y \in S : ~ (Nesting(y) < Nesting(x))
  BY LeastNested
<1>2. PICK l \in Parts[x] : l.at \notin Seq(Nat)
  BY <1>1
<1>3. x \in Nodes
  BY <1>1
<1>4. CASE l = Root(x)
  <2>1. l.at = <<>>
    BY <1>4, RootFields
  <2>2. QED
    BY <1>2, <2>1
<1>5. ASSUME NEW i \in 1..Len(x.members), NEW k \in Parts[x.members[i].node],
             l = InMember(i, x.members[i], k)
      PROVE  FALSE
  <2>1. x.members[i].node \in Nodes /\ Nesting(x.members[i].node) < Nesting(x)
    BY <1>3, <1>5, NodeMembers
  <2>2. x.members[i].node \notin S
    BY <1>1, <2>1
  <2>3. k.at \in Seq(Nat)
    BY <1>5, <2>1, <2>2
  <2>4. l.at = <<i>> \o k.at
    BY <1>5, InMemberFields
  <2>5. i \in Nat
    BY <1>3, MemberIndex, Zenon
  <2>6. QED
    BY <1>2, <2>3, <2>4, <2>5, Prefixed
<1>6. QED
  BY <1>3, <1>4, <1>5, PartCases

LEMMA RootPlace ==
  ASSUME NEW x \in Nodes, NEW l \in Parts[x], l.at = <<>>
  PROVE  l = Root(x)
<1>1. ASSUME NEW i \in 1..Len(x.members), NEW k \in Parts[x.members[i].node],
             l = InMember(i, x.members[i], k)
      PROVE  FALSE
  <2>1. x.members[i].node \in Nodes /\ i \in Nat
    BY MemberIndex, Zenon
  <2>2. k.at \in Seq(Nat)
    BY <2>1, PlacesType
  <2>3. l.at = <<i>> \o k.at
    BY <1>1, InMemberFields
  <2>4. QED
    BY <2>1, <2>2, <2>3, Prefixed
<1>2. QED
  BY <1>1, PartCases

\* l is what is at place p of the i-th member of x.
IsInMember(l, x, i, p) ==
  /\ i \in 1..Len(x.members)
  /\ \E k \in Parts[x.members[i].node] : k.at = p /\ l = InMember(i, x.members[i], k)

LEMMA MemberPlace ==
  \A x \in Nodes : \A l \in Parts[x] : \A i \in Nat, p \in Seq(Nat) :
    l.at = <<i>> \o p => IsInMember(l, x, i, p)
<1> SUFFICES ASSUME NEW x \in Nodes, NEW l \in Parts[x], NEW i \in Nat, NEW p \in Seq(Nat), l.at = <<i>> \o p
             PROVE  /\ i \in 1..Len(x.members)
                    /\ \E k \in Parts[x.members[i].node] : k.at = p /\ l = InMember(i, x.members[i], k)
  BY Zenon DEF IsInMember
<1>1. l # Root(x)
  <2>1. Root(x).at = <<>>
    BY RootFields
  <2>2. QED
    BY <2>1, Prefixed
<1>2. PICK j \in 1..Len(x.members) :
        \E k \in Parts[x.members[j].node] : l = InMember(j, x.members[j], k)
  BY <1>1, PartCases
<1>0. PICK k \in Parts[x.members[j].node] : l = InMember(j, x.members[j], k)
  BY <1>2
<1>3. x.members[j].node \in Nodes /\ j \in Nat
  BY MemberIndex, Zenon
<1>4. k.at \in Seq(Nat)
  BY <1>3, PlacesType
<1>5. l.at = <<j>> \o k.at
  BY <1>0, InMemberFields, Zenon
<1>6. i = j /\ p = k.at
  BY <1>3, <1>4, <1>5, PrefixedOnce
<1>7. QED
  BY <1>0, <1>6

---------------------------------------------------------------------------
(* Two nodes are alike when they are at the root and in each member.       *)

LEMMA AlikeInside ==
  ASSUME NEW x \in Nodes, NEW y \in Nodes, NEW i \in Nat, NEW a, NEW b,
         NEW l \in Parts[x], NEW m \in Parts[y]
  PROVE  Alike(InMember(i, a, l), InMember(i, b, m))
           <=> Alike(l, m) /\ (l.at = <<>> => a.name = b.name)
<1> DEFINE k == InMember(i, a, l)
           n == InMember(i, b, m)
<1>1. l.at \in Seq(Nat) /\ m.at \in Seq(Nat)
  BY PlacesType
<1>2. k.at = <<i>> \o l.at /\ n.at = <<i>> \o m.at
  BY InMemberFields, Zenon
<1>3. k.at = n.at <=> l.at = m.at
  BY <1>1, <1>2, PrefixedOnce
<1>4. k.kind = l.kind /\ n.kind = m.kind /\ k.raw = l.raw /\ n.raw = m.raw
  BY InMemberFields, Zenon
<1>5. k.name = IF l.at = <<>> THEN a.name ELSE l.name
  BY InMemberFields, Zenon
<1>10. n.name = IF m.at = <<>> THEN b.name ELSE m.name
  BY InMemberFields, Zenon
<1>6. l.at = <<>> => l.name = ""
  BY RootPlace, RootFields, Zenon
<1>7. m.at = <<>> => m.name = ""
  BY RootPlace, RootFields, Zenon
<1> HIDE DEF k, n
<1>8. Alike(k, n) <=> Alike(l, m) /\ (l.at = <<>> => a.name = b.name)
  BY <1>3, <1>4, <1>5, <1>6, <1>7, <1>10, Zenon DEF Alike, BothNumbers
<1>9. QED
  BY <1>8 DEF k, n

\* The i-th members of x and y are alike, their names too.
AlikeAt(x, y, i) ==
  /\ i \in 1..Len(y.members)
  /\ x.members[i].name = y.members[i].name
  /\ AllAlike(Parts[x.members[i].node], Parts[y.members[i].node])

LEMMA AlikeMembers ==
  ASSUME NEW x \in Nodes, NEW y \in Nodes, AllAlike(Parts[x], Parts[y])
  PROVE  Alike(Root(x), Root(y)) /\ \A i \in 1..Len(x.members) : AlikeAt(x, y, i)
<1>1. Alike(Root(x), Root(y))
  <2>1. PICK m \in Parts[y] : Alike(Root(x), m)
    BY PartsInclude, Zenon DEF AllAlike
  <2>2. m.at = <<>>
    BY <2>1, RootFields, Zenon DEF Alike
  <2>3. QED
    BY <2>1, <2>2, RootPlace, Zenon
<1>2. ASSUME NEW i \in 1..Len(x.members)
      PROVE  AlikeAt(x, y, i)
  <2>1. x.members[i].node \in Nodes /\ i \in Nat
    BY MemberIndex, Zenon
  <2>2. ASSUME NEW k \in Parts[x.members[i].node]
        PROVE  /\ i \in 1..Len(y.members)
               /\ \E n \in Parts[y.members[i].node] :
                    Alike(k, n) /\ (k.at = <<>> => x.members[i].name = y.members[i].name)
    <3>1. InMember(i, x.members[i], k) \in Parts[x]
      BY PartsInclude, Zenon
    <3>2. PICK m \in Parts[y] : Alike(InMember(i, x.members[i], k), m)
      BY <3>1, Zenon DEF AllAlike
    <3>3. k.at \in Seq(Nat)
      BY <2>1, PlacesType
    <3>4. m.at = <<i>> \o k.at
      BY <3>2, InMemberFields, Zenon DEF Alike
    <3>0. PICK p \in Seq(Nat) : p = k.at
      BY <3>3
    <3>10. m.at = <<i>> \o p
      BY <3>0, <3>4, Zenon
    <3>11. IsInMember(m, y, i, p)
      <4>1. i \in Nat /\ p \in Seq(Nat) /\ m \in Parts[y] /\ m.at = <<i>> \o p
        BY <2>1, <3>2, <3>10, Zenon
      <4>2. QED
        BY <4>1, MemberPlace, Zenon
    <3>5. PICK n \in Parts[y.members[i].node] : n.at = k.at /\ m = InMember(i, y.members[i], n)
      BY <3>0, <3>11, Zenon DEF IsInMember
    <3>6. i \in 1..Len(y.members)
      BY <3>11, Zenon DEF IsInMember
    <3>7. y.members[i].node \in Nodes
      BY <3>6, MemberIndex, Zenon
    <3>8. Alike(InMember(i, x.members[i], k), InMember(i, y.members[i], n))
      BY <3>2, <3>5, Zenon
    <3>9. Alike(k, n) /\ (k.at = <<>> => x.members[i].name = y.members[i].name)
      BY <2>1, <3>7, <3>8, AlikeInside
    <3>12. QED
      BY <3>6, <3>9, Zenon
  <2>3. Root(x.members[i].node) \in Parts[x.members[i].node] /\ Root(x.members[i].node).at = <<>>
    BY <2>1, PartsInclude, RootFields, Zenon
  <2>4. i \in 1..Len(y.members) /\ x.members[i].name = y.members[i].name
    BY <2>2, <2>3, Zenon
  <2>5. AllAlike(Parts[x.members[i].node], Parts[y.members[i].node])
    BY <2>2, Zenon DEF AllAlike
  <2>6. QED
    BY <2>4, <2>5, Zenon DEF AlikeAt
<1>3. QED
  BY <1>1, <1>2

\* A lexeme of x in a member that is alike has its like in y.
LEMMA LikeInMember ==
  ASSUME NEW x \in Nodes, NEW y \in Nodes, NEW i \in 1..Len(x.members), i \in 1..Len(y.members),
         x.members[i].name = y.members[i].name,
         NEW k \in Parts[x.members[i].node],
         \E n \in Parts[y.members[i].node] : Alike(k, n)
  PROVE  \E m \in Parts[y] : Alike(InMember(i, x.members[i], k), m)
<1>1. x.members[i].node \in Nodes /\ y.members[i].node \in Nodes /\ i \in Nat
  BY MemberIndex, Zenon
<1>2. PICK n \in Parts[y.members[i].node] : Alike(k, n)
  OBVIOUS
<1>3. Alike(InMember(i, x.members[i], k), InMember(i, y.members[i], n))
  BY <1>1, <1>2, AlikeInside
<1>4. InMember(i, y.members[i], n) \in Parts[y]
  BY PartsInclude, Zenon
<1>5. QED
  BY <1>3, <1>4, Zenon

LEMMA MembersAlike ==
  ASSUME NEW x \in Nodes, NEW y \in Nodes, Alike(Root(x), Root(y)),
         \A i \in 1..Len(x.members) : AlikeAt(x, y, i)
  PROVE  AllAlike(Parts[x], Parts[y])
<1> SUFFICES ASSUME NEW l \in Parts[x]
             PROVE  \E m \in Parts[y] : Alike(l, m)
  BY Zenon DEF AllAlike
<1>1. CASE l = Root(x)
  BY <1>1, PartsInclude, Zenon
<1>2. ASSUME NEW i \in 1..Len(x.members), NEW k \in Parts[x.members[i].node],
             l = InMember(i, x.members[i], k)
      PROVE  \E m \in Parts[y] : Alike(l, m)
  <2>1. i \in 1..Len(y.members) /\ x.members[i].name = y.members[i].name
    BY Zenon DEF AlikeAt
  <2>2. \E n \in Parts[y.members[i].node] : Alike(k, n)
    BY Zenon DEF AlikeAt, AllAlike
  <2>3. \E m \in Parts[y] : Alike(InMember(i, x.members[i], k), m)
    BY <2>1, <2>2, LikeInMember
  <2>4. QED
    BY <1>2, <2>3, Zenon
<1>3. QED
  BY <1>1, <1>2, PartCases

LEMMA AlikeTurned ==
  ASSUME NEW l, NEW m
  PROVE  Alike(l, m) <=> Alike(m, l)
BY Zenon DEF Alike, BothNumbers

\* OnlyNumbersDiffer, by members.
LEMMA OnlyNumbersMembers ==
  ASSUME NEW x \in Nodes, NEW y \in Nodes
  PROVE  OnlyNumbersDiffer(x, y)
           <=> /\ Alike(Root(x), Root(y))
               /\ Len(x.members) = Len(y.members)
               /\ \A i \in 1..Len(x.members) :
                    /\ x.members[i].name = y.members[i].name
                    /\ OnlyNumbersDiffer(x.members[i].node, y.members[i].node)
<1>1. PICK n \in Nat : n = Len(x.members)
  BY NodeMembers
<1>2. PICK k \in Nat : k = Len(y.members)
  BY NodeMembers
<1>3. ASSUME OnlyNumbersDiffer(x, y)
      PROVE  /\ Alike(Root(x), Root(y)) /\ n = k
             /\ \A i \in 1..n : /\ x.members[i].name = y.members[i].name
                                /\ OnlyNumbersDiffer(x.members[i].node, y.members[i].node)
  <2>1. AllAlike(Parts[x], Parts[y]) /\ AllAlike(Parts[y], Parts[x])
    BY <1>3, Zenon DEF OnlyNumbersDiffer
  <2>2. Alike(Root(x), Root(y)) /\ (\A i \in 1..n : AlikeAt(x, y, i)) /\ \A i \in 1..k : AlikeAt(y, x, i)
    BY <1>1, <1>2, <2>1, AlikeMembers
  <2>3. \A i \in 1..n : i \in 1..k
    BY <1>2, <2>2, Zenon DEF AlikeAt
  <2>4. \A i \in 1..k : i \in 1..n
    BY <1>1, <2>2, Zenon DEF AlikeAt
  <2>5. n = k
    <3>1. n \in 1..n \/ n = 0
      OBVIOUS
    <3>2. k \in 1..k \/ k = 0
      OBVIOUS
    <3>3. n <= k
      BY <2>3, <3>1
    <3>4. k <= n
      BY <2>4, <3>2
    <3>5. QED
      BY <3>3, <3>4
  <2>6. QED
    BY <2>2, <2>3, <2>5, Zenon DEF AlikeAt, OnlyNumbersDiffer
<1>4. ASSUME Alike(Root(x), Root(y)), n = k,
             \A i \in 1..n : /\ x.members[i].name = y.members[i].name
                             /\ OnlyNumbersDiffer(x.members[i].node, y.members[i].node)
      PROVE  OnlyNumbersDiffer(x, y)
  <2>1. \A i \in 1..n : AlikeAt(x, y, i) /\ AlikeAt(y, x, i)
    BY <1>1, <1>2, <1>4, Zenon DEF AlikeAt, OnlyNumbersDiffer
  <2>2. Alike(Root(y), Root(x))
    BY <1>4, AlikeTurned, Zenon
  <2>3. QED
    BY <1>1, <1>2, <1>4, <2>1, <2>2, MembersAlike, Zenon DEF OnlyNumbersDiffer
<1>5. QED
  BY <1>1, <1>2, <1>3, <1>4, Zenon

---------------------------------------------------------------------------
(* The order of places, and what all() returns.                            *)

LEMMA NothingBeforeRoot ==
  ASSUME NEW p \in Seq(Nat)
  PROVE  ~ Precedes(p, <<>>)
<1>1. Len(p) \in Nat /\ Len(<<>>) = 0
  OBVIOUS
<1>2. \A n \in 0..Len(p) : ~ (n < Len(<<>>))
  BY <1>1
<1>3. QED
  BY <1>2 DEF Precedes

LEMMA PrecedesInMember ==
  ASSUME NEW i \in Nat, NEW j \in Nat, NEW p \in Seq(Nat), NEW q \in Seq(Nat),
         Precedes(<<j>> \o p, <<i>> \o q)
  PROVE  j < i \/ (j = i /\ Precedes(p, q))
<1> DEFINE pp == <<j>> \o p
           qq == <<i>> \o q
<1>1. /\ Len(pp) = Len(p) + 1 /\ pp[1] = j
      /\ \A k \in 1..Len(p) : pp[k + 1] = p[k]
  BY Prefixed
<1>2. /\ Len(qq) = Len(q) + 1 /\ qq[1] = i
      /\ \A k \in 1..Len(q) : qq[k + 1] = q[k]
  BY Prefixed
<1>3. Precedes(pp, qq)
  OBVIOUS
<1> HIDE DEF pp, qq
<1>4. Len(p) \in Nat /\ Len(q) \in Nat
  OBVIOUS
<1>5. PICK n \in 0..Len(pp) : /\ n < Len(qq)
                              /\ \A k \in 1..n : pp[k] = qq[k]
                              /\ n < Len(pp) => pp[n + 1] < qq[n + 1]
  BY <1>3 DEF Precedes
<1>6. n \in Nat /\ n <= Len(p) + 1 /\ n < Len(q) + 1
  BY <1>1, <1>2, <1>4, <1>5
<1>7. CASE n = 0
  <2>1. pp[0 + 1] < qq[0 + 1]
    BY <1>1, <1>4, <1>5, <1>7
  <2>2. QED
    BY <1>1, <1>2, <2>1
<1>8. CASE n # 0
  <2>1. PICK m \in Nat : n = m + 1
    <3>1. n - 1 \in Nat /\ n = (n - 1) + 1
      BY <1>6, <1>8
    <3>2. QED
      BY <3>1
  <2>2. 1 \in 1..n
    BY <1>6, <1>8
  <2>3. j = i
    BY <1>1, <1>2, <1>5, <2>2
  <2>4. m \in 0..Len(p) /\ m < Len(q)
    BY <1>4, <1>6, <2>1
  <2>5. ASSUME NEW k \in 1..m
        PROVE  p[k] = q[k]
    <3>1. k + 1 \in 1..n /\ k \in 1..Len(p) /\ k \in 1..Len(q)
      BY <1>4, <2>1, <2>4
    <3>2. QED
      BY <1>1, <1>2, <1>5, <3>1
  <2>6. ASSUME m < Len(p)
        PROVE  p[m + 1] < q[m + 1]
    <3>1. n < Len(pp) /\ m + 1 \in 1..Len(p) /\ m + 1 \in 1..Len(q)
      BY <1>1, <1>4, <2>1, <2>4, <2>6
    <3>2. pp[(m + 1) + 1] < qq[(m + 1) + 1]
      BY <1>5, <2>1, <3>1
    <3>3. QED
      BY <1>1, <1>2, <3>1, <3>2
  <2>7. Precedes(p, q)
    BY <2>4, <2>5, <2>6 DEF Precedes
  <2>8. QED
    BY <2>3, <2>7
<1>9. QED
  BY <1>7, <1>8

\* All are "yes", or it is the first that is not.
LEMMA AllCases ==
  ASSUME NEW n \in Nat, NEW results, DOMAIN results = 1..n
  PROVE  \/ all(results) = "yes" /\ \A i \in 1..n : results[i] = "yes"
         \/ \E i \in 1..n : /\ all(results) = results[i] /\ results[i] # "yes"
                            /\ \A j \in 1..(i - 1) : results[j] = "yes"
<1>1. CASE \A i \in 1..n : results[i] = "yes"
  BY <1>1, Zenon DEF all
<1>2. CASE ~ \A i \in 1..n : results[i] = "yes"
  <2> DEFINE T == {i \in 1..n : results[i] # "yes"}
             First(i) == results[i] # "yes" /\ \A j \in 1..(i - 1) : results[j] = "yes"
  <2>1. T \subseteq Nat /\ T # {}
    BY <1>2
  <2>2. PICK i \in T : \A j \in T : i <= j
    BY <2>1, Least
  <2>3. i \in 1..n /\ results[i] # "yes"
    BY <2>2
  <2>4. ASSUME NEW j \in 1..(i - 1)
        PROVE  results[j] = "yes"
    <3>1. j \in 1..n /\ ~ (i <= j)
      BY <2>3
    <3>2. QED
      BY <2>2, <3>1
  <2>5. \E k \in 1..n : First(k)
    BY <2>3, <2>4, Zenon
  <2> HIDE DEF First
  <2>6. First(CHOOSE k \in 1..n : First(k)) /\ (CHOOSE k \in 1..n : First(k)) \in 1..n
    BY <2>5, Zenon
  <2>7. all(results) = results[CHOOSE k \in 1..n : First(k)]
    BY <1>2, Zenon DEF all, First
  <2>8. QED
    BY <2>6, <2>7, Zenon DEF First
<1>3. QED
  BY <1>1, <1>2

---------------------------------------------------------------------------
(* What numeric_only_difference says of two nodes, when no name is spelled *)
(* in two ways.                                                            *)

\* At one place, equal names are spelled alike.
SpelledAlike(x, y) ==
  \A l \in Parts[x] : \A m \in Parts[y] :
    l.at = m.at /\ Decoded(l.name) = Decoded(m.name) => l.name = m.name

LEMMA SpelledAlikeMembers ==
  ASSUME NEW x \in Nodes, NEW y \in Nodes, SpelledAlike(x, y),
         NEW i \in 1..Len(x.members), i \in 1..Len(y.members)
  PROVE  /\ SpelledAlike(x.members[i].node, y.members[i].node)
         /\ Decoded(x.members[i].name) = Decoded(y.members[i].name)
              => x.members[i].name = y.members[i].name
<1> DEFINE a == x.members[i]
           b == y.members[i]
<1>1. a.node \in Nodes /\ b.node \in Nodes
  BY MemberIndex, Zenon
<1>2. /\ \A l \in Parts[a.node] : InMember(i, a, l) \in Parts[x]
      /\ \A m \in Parts[b.node] : InMember(i, b, m) \in Parts[y]
  BY PartsInclude, Zenon
<1> HIDE DEF a, b
<1>3. ASSUME NEW l \in Parts[a.node], NEW m \in Parts[b.node], l.at = m.at
      PROVE  LET name1 == IF l.at = <<>> THEN a.name ELSE l.name
                 name2 == IF l.at = <<>> THEN b.name ELSE m.name
             IN  Decoded(name1) = Decoded(name2) => name1 = name2
  <2> DEFINE ll == InMember(i, a, l)
             mm == InMember(i, b, m)
  <2>1. ll \in Parts[x] /\ mm \in Parts[y]
    BY <1>2, Zenon
  <2>2. ll.at = <<i>> \o l.at /\ mm.at = <<i>> \o m.at
    BY InMemberFields, Zenon
  <2>3. ll.name = IF l.at = <<>> THEN a.name ELSE l.name
    BY InMemberFields, Zenon
  <2>4. mm.name = IF m.at = <<>> THEN b.name ELSE m.name
    BY InMemberFields, Zenon
  <2> HIDE DEF ll, mm
  <2>5. ll.at = mm.at
    BY <1>3, <2>2, Zenon
  <2>6. Decoded(ll.name) = Decoded(mm.name) => ll.name = mm.name
    BY <2>1, <2>5, Zenon DEF SpelledAlike
  <2>7. QED
    BY <1>3, <2>3, <2>4, <2>6, Zenon
<1>4. ASSUME NEW l \in Parts[a.node], NEW m \in Parts[b.node], l.at = m.at,
             Decoded(l.name) = Decoded(m.name)
      PROVE  l.name = m.name
  <2>1. CASE l.at = <<>>
    <3>1. l = Root(a.node)
      BY <1>1, <2>1, RootPlace, Zenon
    <3>2. m = Root(b.node)
      BY <1>1, <1>4, <2>1, RootPlace, Zenon
    <3>3. l.name = "" /\ m.name = ""
      BY <3>1, <3>2, RootFields
    <3>4. QED
      BY <3>3, Zenon
  <2>2. CASE l.at # <<>>
    BY <1>3, <1>4, <2>2, Zenon
  <2>3. QED
    BY <2>1, <2>2
<1>5. Decoded(a.name) = Decoded(b.name) => a.name = b.name
  <2>1. /\ Root(a.node) \in Parts[a.node] /\ Root(a.node).at = <<>>
        /\ Root(b.node) \in Parts[b.node] /\ Root(b.node).at = <<>>
    BY <1>1, PartsInclude, RootFields, Zenon
  <2>2. QED
    BY <1>3, <2>1, Zenon
<1>6. SpelledAlike(a.node, b.node)
  BY <1>4, Zenon DEF SpelledAlike
<1>7. QED
  BY <1>5, <1>6, Zenon DEF a, b

\* The members before the i-th, and what comes before p in it, have their likes.
LEMMA AlikeBeforeInMember ==
  ASSUME NEW x \in Nodes, NEW y \in Nodes, Alike(Root(x), Root(y)),
         NEW i \in 1..Len(x.members), i \in 1..Len(y.members),
         x.members[i].name = y.members[i].name,
         \A j \in 1..(i - 1) : AlikeAt(x, y, j),
         NEW p \in Seq(Nat), AlikeBefore(x.members[i].node, y.members[i].node, p)
  PROVE  AlikeBefore(x, y, <<i>> \o p)
<1> SUFFICES ASSUME NEW l \in Parts[x], Precedes(l.at, <<i>> \o p)
             PROVE  \E m \in Parts[y] : Alike(l, m)
  BY Zenon DEF AlikeBefore, AllAlike
<1>1. CASE l = Root(x)
  BY <1>1, PartsInclude, Zenon
<1>2. ASSUME NEW j \in 1..Len(x.members), NEW k \in Parts[x.members[j].node],
             l = InMember(j, x.members[j], k)
      PROVE  \E m \in Parts[y] : Alike(l, m)
  <2>1. i \in Nat /\ 1 <= i /\ j \in Nat /\ 1 <= j /\ x.members[j].node \in Nodes
    BY MemberIndex, Zenon
  <2>2. k.at \in Seq(Nat)
    BY <2>1, PlacesType
  <2>3. Precedes(<<j>> \o k.at, <<i>> \o p)
    <3>1. l.at = <<j>> \o k.at
      BY <1>2, InMemberFields
    <3>2. QED
      BY <3>1, Zenon
  <2>4. j < i \/ (j = i /\ Precedes(k.at, p))
    BY <2>1, <2>2, <2>3, PrecedesInMember
  <2>5. /\ j \in 1..Len(y.members) /\ x.members[j].name = y.members[j].name
        /\ \E n \in Parts[y.members[j].node] : Alike(k, n)
    <3>1. CASE j < i
      <4>1. j \in 1..(i - 1)
        BY <2>1, <3>1
      <4>2. AlikeAt(x, y, j)
        BY <4>1, Zenon
      <4>3. QED
        BY <4>2, Zenon DEF AlikeAt, AllAlike
    <3>2. CASE j = i /\ Precedes(k.at, p)
      <4>1. k \in {n \in Parts[x.members[i].node] : Precedes(n.at, p)}
        BY <3>2, Zenon
      <4>2. \E n \in Parts[y.members[i].node] : Alike(k, n)
        BY <4>1, Zenon DEF AlikeBefore, AllAlike
      <4>3. QED
        BY <3>2, <4>2, Zenon
    <3>3. QED
      BY <2>4, <3>1, <3>2, Zenon
  <2>6. \E m \in Parts[y] : Alike(InMember(j, x.members[j], k), m)
    BY <2>5, LikeInMember
  <2>7. QED
    BY <1>2, <2>6, Zenon
<1>3. QED
  BY <1>1, <1>2, PartCases

\* A number beyond the range, behind members that are alike.
LEMMA RaisedInMember ==
  ASSUME NEW x \in Nodes, NEW y \in Nodes, Alike(Root(x), Root(y)),
         NEW i \in 1..Len(x.members), i \in 1..Len(y.members),
         x.members[i].name = y.members[i].name,
         \A j \in 1..(i - 1) : AlikeAt(x, y, j) /\ AlikeAt(y, x, j),
         RaisedBy(x.members[i].node, y.members[i].node)
  PROVE  RaisedBy(x, y)
<1> DEFINE a == x.members[i]
           b == y.members[i]
<1>1. a.node \in Nodes /\ b.node \in Nodes /\ i \in Nat
  BY MemberIndex, Zenon
<1>2. PICK l \in Parts[a.node] :
        \E m \in Parts[b.node] :
          /\ l.at = m.at /\ BothNumbers(l, m)
          /\ ~ (InRange(l.raw) /\ InRange(m.raw))
          /\ AlikeBefore(a.node, b.node, l.at) /\ AlikeBefore(b.node, a.node, l.at)
  BY Zenon DEF RaisedBy
<1>3. PICK m \in Parts[b.node] :
          /\ l.at = m.at /\ BothNumbers(l, m)
          /\ ~ (InRange(l.raw) /\ InRange(m.raw))
          /\ AlikeBefore(a.node, b.node, l.at) /\ AlikeBefore(b.node, a.node, l.at)
  BY <1>2, Zenon
<1>4. l.at \in Seq(Nat)
  BY <1>1, PlacesType
<1>5. PICK p \in Seq(Nat) : p = l.at
  BY <1>4
<1>6. Alike(Root(y), Root(x))
  BY AlikeTurned, Zenon
<1>7. AlikeBefore(x, y, <<i>> \o p)
  <2>1. AlikeBefore(x.members[i].node, y.members[i].node, p)
    BY <1>3, <1>5, Zenon
  <2>2. QED
    BY <2>1, AlikeBeforeInMember
<1>8. AlikeBefore(y, x, <<i>> \o p)
  <2>1. AlikeBefore(y.members[i].node, x.members[i].node, p)
    BY <1>3, <1>5, Zenon
  <2>2. QED
    BY <1>6, <2>1, AlikeBeforeInMember
<1>9. InMember(i, a, l) \in Parts[x] /\ InMember(i, b, m) \in Parts[y]
  BY PartsInclude, Zenon
<1> DEFINE ll == InMember(i, a, l)
           mm == InMember(i, b, m)
<1> HIDE DEF a, b
<1>10. ll.at = <<i>> \o l.at /\ mm.at = <<i>> \o m.at
  BY InMemberAt, Zenon
<1>11. ll.kind = l.kind /\ mm.kind = m.kind /\ ll.raw = l.raw /\ mm.raw = m.raw
  BY InMemberKeeps, Zenon
<1>12. ll \in Parts[x] /\ mm \in Parts[y]
  BY <1>9
<1> HIDE DEF ll, mm
<1>13. ll.at = mm.at /\ ll.at = <<i>> \o p
  BY <1>3, <1>5, <1>10, Zenon
<1>14. BothNumbers(ll, mm) /\ ~ (InRange(ll.raw) /\ InRange(mm.raw))
  BY <1>3, <1>11, Zenon DEF BothNumbers
<1>15. AlikeBefore(x, y, ll.at) /\ AlikeBefore(y, x, ll.at)
  BY <1>7, <1>8, <1>13, Zenon
<1>16. QED
  BY <1>12, <1>13, <1>14, <1>15, Zenon DEF RaisedBy

\* The answer about x and y is the right one.
Right(x, y) ==
  LET answered == numeric_only_difference[<<x, y>>]
  IN  \/ answered = "yes" /\ OnlyNumbersDiffer(x, y)
      \/ answered = "no" /\ ~ OnlyNumbersDiffer(x, y)
      \/ answered = InvalidOperation /\ RaisedBy(x, y)

LEMMA DifferenceCases ==
  \A d, a, b :
    /\ a.kind # b.kind => Difference(d, a, b) = "no"
    /\ a.kind = b.kind /\ a.kind = "number" /\ InRange(a.raw) /\ InRange(b.raw) =>
         Difference(d, a, b) = IF NumericValue(a.raw) = NumericValue(b.raw) THEN "yes" ELSE "no"
    /\ a.kind = b.kind /\ a.kind = "number" /\ ~ (InRange(a.raw) /\ InRange(b.raw)) =>
         Difference(d, a, b) = InvalidOperation
    /\ a.kind = b.kind /\ a.kind \in Containers /\ Len(a.members) = Len(b.members) =>
         Difference(d, a, b) = all(MemberResults(d, a, b))
    /\ a.kind = b.kind /\ a.kind \in Containers /\ Len(a.members) # Len(b.members) =>
         Difference(d, a, b) = "no"
    /\ a.kind = b.kind /\ a.kind # "number" /\ a.kind \notin Containers =>
         Difference(d, a, b) = IF a.raw = b.raw THEN "yes" ELSE "no"
<1>1. "number" \notin Containers
  BY DEF Containers
<1>2. TAKE d, a, b
<1>3. QED
  BY <1>1, Zenon DEF Difference

LEMMA RootsAlike ==
  ASSUME NEW x, NEW y
  PROVE  Alike(Root(x), Root(y))
           <=> \/ x.kind = y.kind /\ x.raw = y.raw
               \/ x.kind = "number" /\ y.kind = "number" /\ NumericValue(x.raw) = NumericValue(y.raw)
<1>1. Root(x).at = <<>> /\ Root(x).name = "" /\ Root(x).kind = x.kind /\ Root(x).raw = x.raw
  BY RootFields
<1>2. Root(y).at = <<>> /\ Root(y).name = "" /\ Root(y).kind = y.kind /\ Root(y).raw = y.raw
  BY RootFields
<1>3. Root(x).at = Root(y).at /\ Root(x).name = Root(y).name
  BY <1>1, <1>2, Zenon
<1>4. QED
  BY <1>1, <1>2, <1>3, Zenon DEF Alike, BothNumbers

\* A node without members is what its lexeme is.
LEMMA ScalarsAlike ==
  ASSUME NEW x \in Nodes, NEW y \in Nodes, x.kind \notin Containers, y.kind \notin Containers
  PROVE  OnlyNumbersDiffer(x, y) <=> Alike(Root(x), Root(y))
<1>1. x.members = <<>> /\ y.members = <<>>
  BY NodeMembers
<1>2. Len(x.members) = Len(y.members) /\ 1..Len(x.members) = {}
  <2>1. Len(<<>>) = 0 /\ 1..0 = {}
    OBVIOUS
  <2>2. QED
    BY <1>1, <2>1, Zenon
<1>3. QED
  BY <1>2, OnlyNumbersMembers, Zenon

LEMMA NumbersRaise ==
  ASSUME NEW x \in Nodes, NEW y \in Nodes, x.kind = "number", y.kind = "number",
         ~ (InRange(x.raw) /\ InRange(y.raw))
  PROVE  RaisedBy(x, y)
<1>1. Root(x) \in Parts[x] /\ Root(y) \in Parts[y]
  BY PartsInclude
<1>2. \A z, u \in Nodes : AlikeBefore(z, u, <<>>)
  <2>1. \A z \in Nodes : \A l \in Parts[z] : ~ Precedes(l.at, <<>>)
    BY PlacesType, NothingBeforeRoot
  <2>2. QED
    BY <2>1, Zenon DEF AlikeBefore, AllAlike
<1>3. Root(x).at = <<>> /\ Root(x).kind = "number" /\ Root(x).raw = x.raw
  BY RootFields
<1>4. Root(y).at = <<>> /\ Root(y).kind = "number" /\ Root(y).raw = y.raw
  BY RootFields
<1>5. Root(x).at = Root(y).at /\ BothNumbers(Root(x), Root(y))
  BY <1>3, <1>4, Zenon DEF BothNumbers
<1>6. ~ (InRange(Root(x).raw) /\ InRange(Root(y).raw))
  BY <1>3, <1>4, Zenon
<1>7. AlikeBefore(x, y, Root(x).at) /\ AlikeBefore(y, x, Root(x).at)
  BY <1>2, <1>3, Zenon
<1>8. QED
  BY <1>1, <1>5, <1>6, <1>7, Zenon DEF RaisedBy

\* Objects and arrays with as many members, each answered right: all() is right.
LEMMA ContainersRight ==
  ASSUME NEW x \in Nodes, NEW y \in Nodes, x.kind = y.kind, x.kind \in Containers,
         SpelledAlike(x, y), Len(x.members) = Len(y.members),
         \A i \in 1..Len(x.members) : Right(x.members[i].node, y.members[i].node)
  PROVE  LET answered == all(MemberResults(numeric_only_difference, x, y))
         IN  \/ answered = "yes" /\ OnlyNumbersDiffer(x, y)
             \/ answered = "no" /\ ~ OnlyNumbersDiffer(x, y)
             \/ answered = InvalidOperation /\ RaisedBy(x, y)
<1> DEFINE results == MemberResults(numeric_only_difference, x, y)
           Same(i) == numeric_only_difference[<<x.members[i].node, y.members[i].node>>]
<1>1. PICK n \in Nat : n = Len(x.members)
  BY NodeMembers, Zenon
<1>2. Alike(Root(x), Root(y))
  <2>1. x.raw = "" /\ y.raw = ""
    BY NodeMembers
  <2>2. QED
    BY <2>1, RootsAlike, Zenon
<1>3. ASSUME NEW i \in 1..n
      PROVE  /\ results[i] = "yes" => x.members[i].name = y.members[i].name /\ results[i] = Same(i)
             /\ results[i] # "yes" => \/ results[i] = "no" /\ x.members[i].name # y.members[i].name
                                      \/ results[i] = Same(i) /\ x.members[i].name = y.members[i].name
  <2>1. results[i] = IF x.kind = "object" /\ Decoded(x.members[i].name) # Decoded(y.members[i].name)
                     THEN "no" ELSE Same(i)
    BY <1>1, <1>3, Zenon DEF MemberResults
  <2>2. i \in 1..Len(x.members) /\ i \in 1..Len(y.members)
    BY <1>1, <1>3, Zenon
  <2>3. Decoded(x.members[i].name) = Decoded(y.members[i].name) => x.members[i].name = y.members[i].name
    BY <2>2, SpelledAlikeMembers
  <2>4. x.kind # "object" => x.members[i].name = y.members[i].name
    <3>1. x.kind # "object" => x.kind = "array" /\ y.kind = "array"
      BY DEF Containers
    <3>2. x.kind = "array" => x.members[i].name = ""
      BY <2>2, NodeMembers
    <3>3. y.kind = "array" => y.members[i].name = ""
      BY <2>2, NodeMembers
    <3>4. QED
      BY <3>1, <3>2, <3>3, Zenon
  <2>5. "no" # "yes"
    OBVIOUS
  <2>6. QED
    BY <2>1, <2>3, <2>4, <2>5, Zenon
<1>4. DOMAIN results = 1..n
  BY <1>1, Zenon DEF MemberResults
<1>5. OnlyNumbersDiffer(x, y)
        <=> \A i \in 1..n : /\ x.members[i].name = y.members[i].name
                            /\ OnlyNumbersDiffer(x.members[i].node, y.members[i].node)
  BY <1>1, <1>2, OnlyNumbersMembers, Zenon
<1>6. ASSUME NEW i \in 1..n
      PROVE  \/ Same(i) = "yes" /\ OnlyNumbersDiffer(x.members[i].node, y.members[i].node)
             \/ Same(i) = "no" /\ ~ OnlyNumbersDiffer(x.members[i].node, y.members[i].node)
             \/ Same(i) = InvalidOperation /\ RaisedBy(x.members[i].node, y.members[i].node)
  BY <1>1, <1>6, Zenon DEF Right
<1>7. "yes" # "no" /\ "yes" # InvalidOperation /\ "no" # InvalidOperation
  BY DEF InvalidOperation
<1> HIDE DEF results, Same
<1>8. CASE all(results) = "yes" /\ \A i \in 1..n : results[i] = "yes"
  BY <1>3, <1>5, <1>6, <1>7, <1>8, Zenon DEF results
<1>9. ASSUME NEW i \in 1..n, all(results) = results[i], results[i] # "yes",
             \A j \in 1..(i - 1) : results[j] = "yes"
      PROVE  \/ results[i] = "no" /\ ~ OnlyNumbersDiffer(x, y)
             \/ results[i] = InvalidOperation /\ RaisedBy(x, y)
  <2>1. CASE results[i] = "no" /\ x.members[i].name # y.members[i].name
    BY <1>5, <2>1, Zenon
  <2>2. CASE results[i] = Same(i) /\ x.members[i].name = y.members[i].name
    <3>1. CASE Same(i) = "no" /\ ~ OnlyNumbersDiffer(x.members[i].node, y.members[i].node)
      BY <1>5, <2>2, <3>1, Zenon
    <3>2. CASE Same(i) = InvalidOperation /\ RaisedBy(x.members[i].node, y.members[i].node)
      <4>1. ASSUME NEW j \in 1..(i - 1)
            PROVE  AlikeAt(x, y, j) /\ AlikeAt(y, x, j)
        <5>1. j \in 1..n /\ results[j] = "yes"
          BY <1>9
        <5>2. x.members[j].name = y.members[j].name /\ Same(j) = "yes"
          BY <1>3, <5>1, Zenon
        <5>3. OnlyNumbersDiffer(x.members[j].node, y.members[j].node)
          BY <1>6, <1>7, <5>1, <5>2, Zenon
        <5>4. j \in 1..Len(x.members) /\ j \in 1..Len(y.members)
          BY <1>1, <5>1, Zenon
        <5>5. QED
          BY <5>2, <5>3, <5>4, Zenon DEF AlikeAt, OnlyNumbersDiffer
      <4>2. i \in 1..Len(x.members) /\ i \in 1..Len(y.members)
        BY <1>1, Zenon
      <4>3. x.members[i].name = y.members[i].name /\ RaisedBy(x.members[i].node, y.members[i].node)
        BY <2>2, <3>2, Zenon
      <4>4. RaisedBy(x, y)
        BY <1>2, <4>1, <4>2, <4>3, RaisedInMember
      <4>5. QED
        BY <2>2, <3>2, <4>4, Zenon
    <3>3. QED
      BY <1>6, <1>9, <2>2, <3>1, <3>2, Zenon
  <2>3. QED
    BY <1>3, <1>9, <2>1, <2>2, Zenon
<1>10. CASE \E i \in 1..n : /\ all(results) = results[i] /\ results[i] # "yes"
                            /\ \A j \in 1..(i - 1) : results[j] = "yes"
  BY <1>9, <1>10, Zenon DEF results
<1>11. QED
  BY <1>4, <1>8, <1>10, AllCases, Zenon

LEMMA DifferenceRight == \A x, y \in Nodes : SpelledAlike(x, y) => Right(x, y)
<1> DEFINE S == {x \in Nodes : \E y \in Nodes : SpelledAlike(x, y) /\ ~ Right(x, y)}
<1> SUFFICES ASSUME S # {}
             PROVE  FALSE
  OBVIOUS
<1>1. PICK x \in S : \A z \in S : ~ (Nesting(z) < Nesting(x))
  BY LeastNested
<1>2. x \in Nodes
  BY <1>1
<1>3. PICK y \in Nodes : SpelledAlike(x, y) /\ ~ Right(x, y)
  BY <1>1
<1>4. numeric_only_difference[<<x, y>>] = Difference(numeric_only_difference, x, y)
  BY <1>2, DifferenceDefined
<1>5. CASE x.kind # y.kind
  <2>1. Difference(numeric_only_difference, x, y) = "no"
    BY <1>5, DifferenceCases, Zenon
  <2>2. ~ Alike(Root(x), Root(y))
    BY <1>5, RootsAlike, Zenon
  <2>3. ~ OnlyNumbersDiffer(x, y)
    BY <1>2, <2>2, OnlyNumbersMembers, Zenon
  <2>4. QED
    BY <1>3, <1>4, <2>1, <2>3, Zenon DEF Right
<1>6. CASE x.kind = y.kind /\ x.kind = "number"
  <2>1. x.kind \notin Containers /\ y.kind \notin Containers
    BY <1>6 DEF Containers
  <2>2. OnlyNumbersDiffer(x, y) <=> Alike(Root(x), Root(y))
    BY <1>2, <2>1, ScalarsAlike
  <2>3. Alike(Root(x), Root(y)) <=> NumericValue(x.raw) = NumericValue(y.raw)
    BY <1>6, RootsAlike, Zenon
  <2>4. CASE InRange(x.raw) /\ InRange(y.raw)
    <3>1. Difference(numeric_only_difference, x, y)
            = IF NumericValue(x.raw) = NumericValue(y.raw) THEN "yes" ELSE "no"
      BY <1>6, <2>4, DifferenceCases, Zenon
    <3>2. QED
      BY <1>3, <1>4, <2>2, <2>3, <3>1, Zenon DEF Right
  <2>5. CASE ~ (InRange(x.raw) /\ InRange(y.raw))
    <3>1. Difference(numeric_only_difference, x, y) = InvalidOperation
      BY <1>6, <2>5, DifferenceCases, Zenon
    <3>2. y.kind = "number"
      BY <1>6
    <3>3. RaisedBy(x, y)
      BY <1>2, <1>6, <2>5, <3>2, NumbersRaise
    <3>4. QED
      BY <1>3, <1>4, <3>1, <3>3, Zenon DEF Right
  <2>6. QED
    BY <2>4, <2>5
<1>7. CASE x.kind = y.kind /\ x.kind \in Containers
  <2>1. CASE Len(x.members) # Len(y.members)
    <3>1. Difference(numeric_only_difference, x, y) = "no"
      BY <1>7, <2>1, DifferenceCases, Zenon
    <3>2. ~ OnlyNumbersDiffer(x, y)
      BY <1>2, <2>1, OnlyNumbersMembers, Zenon
    <3>3. QED
      BY <1>3, <1>4, <3>1, <3>2, Zenon DEF Right
  <2>2. CASE Len(x.members) = Len(y.members)
    <3>1. ASSUME NEW i \in 1..Len(x.members)
          PROVE  Right(x.members[i].node, y.members[i].node)
      <4>1. i \in 1..Len(y.members)
        BY <2>2
      <4>2. x.members[i].node \in Nodes /\ y.members[i].node \in Nodes
        BY <1>2, <4>1, MemberIndex, Zenon
      <4>3. Nesting(x.members[i].node) < Nesting(x)
        BY <1>2, NodeMembers
      <4>4. SpelledAlike(x.members[i].node, y.members[i].node)
        BY <1>2, <1>3, <4>1, SpelledAlikeMembers
      <4>5. x.members[i].node \notin S
        BY <1>1, <4>3
      <4>6. QED
        BY <4>2, <4>4, <4>5
    <3>2. Difference(numeric_only_difference, x, y) = all(MemberResults(numeric_only_difference, x, y))
      BY <1>7, <2>2, DifferenceCases, Zenon
    <3>3. Right(x, y)
      BY <1>2, <1>3, <1>4, <1>7, <2>2, <3>1, <3>2, ContainersRight, Zenon DEF Right
    <3>4. QED
      BY <1>3, <3>3
  <2>3. QED
    BY <2>1, <2>2
<1>8. CASE x.kind = y.kind /\ x.kind # "number" /\ x.kind \notin Containers
  <2>1. OnlyNumbersDiffer(x, y) <=> Alike(Root(x), Root(y))
    BY <1>2, <1>8, ScalarsAlike, Zenon
  <2>2. Alike(Root(x), Root(y)) <=> x.raw = y.raw
    BY <1>8, RootsAlike, Zenon
  <2>3. Difference(numeric_only_difference, x, y) = IF x.raw = y.raw THEN "yes" ELSE "no"
    BY <1>8, DifferenceCases, Zenon
  <2>4. QED
    BY <1>3, <1>4, <2>1, <2>2, <2>3, Zenon DEF Right
<1>9. QED
  BY <1>5, <1>6, <1>7, <1>8, Zenon

---------------------------------------------------------------------------
(* The comparison.                                                         *)

\* The members of a canonical file are the sections, in their order.
LEMMA CanonicalSections ==
  ASSUME NEW f \in Files, f.format = Accepted
  PROVE  /\ Len(f.members) = 5
         /\ \A i \in 1..5 : /\ f.members[i].node \in Nodes
                            /\ sections(f)[TOP_LEVEL_ORDER[i]] = f.members[i].node
<1> DEFINE ms == f.members
           Named(i) == Decoded(ms[i].name)
<1>1. ms \in Seq([name : STRING, node : Nodes])
  BY FilesAssumption, Zenon
<1>2. [i \in 1..Len(ms) |-> Named(i)] = TOP_LEVEL_ORDER
  BY FilesAssumption, Zenon
<1>3. Len(ms) \in Nat /\ \A i \in 1..Len(ms) : ms[i].node \in Nodes
  <2> DEFINE T == [name : STRING, node : Nodes]
  <2>1. \A m \in T : m.node \in Nodes
    OBVIOUS
  <2>2. ms \in Seq(T)
    BY <1>1
  <2> HIDE DEF T, ms
  <2>3. Len(ms) \in Nat /\ \A i \in 1..Len(ms) : ms[i] \in T
    BY <2>2
  <2>4. QED
    BY <2>1, <2>3
<1> HIDE DEF ms, Named
<1>4. DOMAIN TOP_LEVEL_ORDER = 1..5
  BY DEF TOP_LEVEL_ORDER
<1>5. 1..Len(ms) = 1..5
  BY <1>2, <1>4, Zenon
<1>6. Len(ms) = 5
  <2>1. ASSUME NEW n \in Nat, \A k \in Nat : k \in 1..n <=> k \in 1..5
        PROVE  n = 5
    <3>1. 5 <= n
      BY <2>1
    <3>2. n <= 5
      BY <2>1, <3>1
    <3>3. QED
      BY <3>1, <3>2
  <2>2. \A k \in Nat : k \in 1..Len(ms) <=> k \in 1..5
    BY <1>5, Zenon
  <2>3. QED
    BY <1>3, <2>1, <2>2, Zenon
<1>7. \A i \in 1..5 : Named(i) = TOP_LEVEL_ORDER[i]
  BY <1>2, <1>5, Zenon
<1>8. \A i, j \in 1..5 : TOP_LEVEL_ORDER[i] = TOP_LEVEL_ORDER[j] => i = j
  BY DEF TOP_LEVEL_ORDER
<1>9. ASSUME NEW i \in 1..5
      PROVE  sections(f)[TOP_LEVEL_ORDER[i]] = ms[i].node
  <2> DEFINE key == TOP_LEVEL_ORDER[i]
             j == CHOOSE k \in 1..Len(ms) : Named(k) = key
  <2>1. key \in {TOP_LEVEL_ORDER[k] : k \in 1..5}
    BY Zenon
  <2>2. sections(f)[key] = ms[j].node
    BY <2>1, Zenon DEF sections, ms, Named
  <2>3. j \in 1..Len(ms) /\ Named(j) = key
    <3>1. \E k \in 1..Len(ms) : Named(k) = key
      BY <1>5, <1>7, Zenon
    <3>2. QED
      BY <3>1, Zenon
  <2> HIDE DEF j
  <2>4. j = i
    BY <1>5, <1>7, <1>8, <2>3, Zenon
  <2>5. QED
    BY <2>2, <2>4, Zenon
<1>10. QED
  BY <1>3, <1>5, <1>6, <1>9, Zenon DEF ms

\* What an answer at section i rests on.
SectionAnswer(i) ==
  LET x == candidate.members[i].node
      y == reference.members[i].node
      same == numeric_only_difference[<<x, y>>]
      typeChanged == i = 5 /\ json_type(x) # json_type(y)
  IN  /\ x # y
      /\ \/ typeChanged /\ answer = "INVARIANT_TYPE_CHANGED"
         \/ ~ typeChanged /\ same = "yes" /\ answer = "NUMERIC_REPRESENTATION_CHANGE"
         \/ ~ typeChanged /\ same = "no" /\ i = 5 /\ answer = "INVARIANT_VALUE_CHANGED"
         \/ ~ typeChanged /\ same = "no" /\ i # 5 /\ answer = MODIFIED[TOP_LEVEL_ORDER[i]]
         \/ ~ typeChanged /\ same = InvalidOperation /\ answer = InvalidOperation

CompareTypes == candidate \in Files /\ reference \in Files /\ section \in 0..6

\* Two different canonical files, whose sections before this one are equal.
SectionsBeforeAgree ==
  section # 0 =>
    /\ candidate # reference
    /\ candidate.format = Accepted /\ reference.format = Accepted
    /\ \A i \in 1..5 : i < section => candidate.members[i].node = reference.members[i].node

\* The section at which the answer was found, and why.
AnswerHasReason ==
  \/ answer = ""
  \/ section = 0 /\ candidate = reference /\ answer = Accepted
  \/ section = 0 /\ candidate # reference /\ answer \in FormatCodes \cup {BaselineError}
  \/ section \in 1..5 /\ SectionAnswer(section)
  \/ section = 6 /\ answer = AssertionError

CompareInv == CompareTypes /\ SectionsBeforeAgree /\ AnswerHasReason

\* In the loop, c and r are the files' sections at this position.
LEMMA AtSection ==
  ASSUME CompareTypes, SectionsBeforeAgree, section \in 1..5
  PROVE  /\ c = candidate.members[section].node /\ r = reference.members[section].node
         /\ name = TOP_LEVEL_ORDER[section]
         /\ name = "invariant" <=> section = 5
<1>1. section # 0
  OBVIOUS
<1>2. candidate.format = Accepted /\ reference.format = Accepted /\ candidate \in Files /\ reference \in Files
  BY <1>1 DEF CompareTypes, SectionsBeforeAgree
<1>3. name = TOP_LEVEL_ORDER[section]
  BY DEF name
<1>4. sections(candidate)[TOP_LEVEL_ORDER[section]] = candidate.members[section].node
  BY <1>2, CanonicalSections
<1>5. sections(reference)[TOP_LEVEL_ORDER[section]] = reference.members[section].node
  BY <1>2, CanonicalSections
<1>6. TOP_LEVEL_ORDER[section] = "invariant" <=> section = 5
  BY DEF TOP_LEVEL_ORDER
<1>7. QED
  BY <1>3, <1>4, <1>5, <1>6, Zenon DEF c, r

LEMMA CompareInitInv == CompareInit => CompareInv
<1>1. 0 \in 0..6
  OBVIOUS
<1>2. QED
  BY <1>1, Zenon DEF CompareInit, CompareInv, CompareTypes, SectionsBeforeAgree, AnswerHasReason

LEMMA CompareStep == CompareInv /\ [CompareNext]_compareVars => CompareInv'
<1> SUFFICES ASSUME CompareInv, [CompareNext]_compareVars
             PROVE  CompareInv'
  OBVIOUS
<1> USE DEF CompareInv
<1>1. CASE UNCHANGED compareVars
  BY <1>1 DEF compareVars, CompareTypes, SectionsBeforeAgree, AnswerHasReason, SectionAnswer
<1>2. CASE SameBytes
  BY <1>2, Zenon DEF SameBytes, Answer, CompareTypes, SectionsBeforeAgree, AnswerHasReason
<1>3. CASE InvalidInput
  <2>1. candidate.format \in FormatCodes \cup {Accepted} /\ reference.format \in FormatCodes \cup {Accepted}
    BY FilesAssumption, Zenon DEF CompareTypes
  <2>2. QED
    BY <1>3, <2>1, Zenon DEF InvalidInput, Answer, CompareTypes, SectionsBeforeAgree, AnswerHasReason
<1>4. CASE Begin
  <2>1. section' = 1 /\ UNCHANGED <<candidate, reference, answer>> /\ answer = "" /\ candidate # reference
        /\ reference.format = Accepted /\ candidate.format = Accepted
    BY <1>4 DEF Begin
  <2>2. \A i \in 1..5 : ~ (i < 1)
    OBVIOUS
  <2>3. 1 \in 0..6
    OBVIOUS
  <2>4. QED
    BY <2>1, <2>2, <2>3, Zenon DEF CompareTypes, SectionsBeforeAgree, AnswerHasReason
<1>5. CASE SameSection
  <2>1. /\ section \in 1..5 /\ answer = "" /\ c = r
        /\ section' = section + 1 /\ UNCHANGED <<candidate, reference, answer>>
    BY <1>5 DEF SameSection, Comparing
  <2>2. candidate.members[section].node = reference.members[section].node
    BY <2>1, AtSection
  <2>3. section # 0 /\ section + 1 \in 0..6 /\ \A i \in 1..5 : i < section + 1 => i < section \/ i = section
    <3>1. \A n \in 1..5 : /\ n # 0 /\ n + 1 \in 0..6
                          /\ \A i \in 1..5 : i < n + 1 => i < n \/ i = n
      OBVIOUS
    <3>2. QED
      BY <2>1, <3>1, Zenon
  <2>4. QED
    BY <2>1, <2>2, <2>3, Zenon DEF CompareTypes, SectionsBeforeAgree, AnswerHasReason
<1>6. CASE InvariantDiffers
  <2>1. section \in 1..5 /\ name = "invariant" /\ c # r /\ UNCHANGED <<candidate, reference, section>>
    BY <1>6, Zenon DEF InvariantDiffers, Comparing, Answer, Differs
  <2>2. c = candidate.members[section].node /\ r = reference.members[section].node /\ section = 5
    BY <2>1, AtSection
  <2>3. \/ json_type(c) # json_type(r) /\ answer' = "INVARIANT_TYPE_CHANGED"
        \/ /\ json_type(c) = json_type(r)
           /\ \/ numeric_only_difference[<<c, r>>] = "yes" /\ answer' = "NUMERIC_REPRESENTATION_CHANGE"
              \/ numeric_only_difference[<<c, r>>] = "no" /\ answer' = "INVARIANT_VALUE_CHANGED"
              \/ numeric_only_difference[<<c, r>>] = InvalidOperation /\ answer' = InvalidOperation
    BY <1>6, Zenon DEF InvariantDiffers, Differs, Answer
  <2>4. SectionAnswer(section)'
    BY <2>1, <2>2, <2>3, Zenon DEF SectionAnswer
  <2>5. QED
    BY <2>1, <2>4, Zenon DEF CompareTypes, SectionsBeforeAgree, AnswerHasReason
<1>7. CASE SectionDiffers
  <2>1. section \in 1..5 /\ name # "invariant" /\ c # r /\ UNCHANGED <<candidate, reference, section>>
    BY <1>7, Zenon DEF SectionDiffers, Comparing, Answer, Differs
  <2>2. /\ c = candidate.members[section].node /\ r = reference.members[section].node
        /\ section # 5 /\ name = TOP_LEVEL_ORDER[section]
    BY <2>1, AtSection
  <2>3. \/ numeric_only_difference[<<c, r>>] = "yes" /\ answer' = "NUMERIC_REPRESENTATION_CHANGE"
        \/ numeric_only_difference[<<c, r>>] = "no" /\ answer' = MODIFIED[name]
        \/ numeric_only_difference[<<c, r>>] = InvalidOperation /\ answer' = InvalidOperation
    BY <1>7, Zenon DEF SectionDiffers, Differs, Answer
  <2>4. SectionAnswer(section)'
    BY <2>1, <2>2, <2>3, Zenon DEF SectionAnswer
  <2>5. QED
    BY <2>1, <2>4, Zenon DEF CompareTypes, SectionsBeforeAgree, AnswerHasReason
<1>8. CASE NoSectionDiffers
  BY <1>8, Zenon DEF NoSectionDiffers, Answer, CompareTypes, SectionsBeforeAgree, AnswerHasReason
<1>9. QED
  BY <1>1, <1>2, <1>3, <1>4, <1>5, <1>6, <1>7, <1>8 DEF CompareNext

\* compare_to_baseline looks at two different canonical files section by section, in
\* order, and answers at the first that differs.
THEOREM CompareInvariant == CompareSpec => []CompareInv
<1>1. CompareInit => CompareInv
  BY CompareInitInv
<1>2. CompareInv /\ [CompareNext]_compareVars => CompareInv'
  BY CompareStep
<1>3. QED
  BY <1>1, <1>2, PTL DEF CompareSpec

---------------------------------------------------------------------------
(* The properties.                                                         *)

LEMMA CodesApart ==
  /\ Accepted \notin FormatCodes \cup {BaselineError, InvalidOperation, AssertionError, ""}
  /\ Accepted \notin BaselineCodes
  /\ BaselineCodes \cap (FormatCodes \cup {BaselineError, InvalidOperation, AssertionError, ""}) = {}
  /\ InvalidOperation \notin FormatCodes \cup {BaselineError, AssertionError, ""}
  /\ AssertionError \notin FormatCodes \cup {BaselineError, ""}
BY DEF FormatCodes, BaselineCodes, FormatPrecedence, BaselinePrecedence,
       Accepted, BaselineError, InvalidOperation, AssertionError

LEMMA SectionCodes ==
  ASSUME NEW i \in 1..5, SectionAnswer(i)
  PROVE  \/ answer = InvalidOperation
         \/ answer \in BaselineCodes
<1>1. {"INVARIANT_TYPE_CHANGED", "NUMERIC_REPRESENTATION_CHANGE", "INVARIANT_VALUE_CHANGED",
       "INTENT_MODIFIED", "EVENT_MODIFIED", "OBSERVE_MODIFIED", "META_MODIFIED"} \subseteq BaselineCodes
  BY DEF BaselineCodes, BaselinePrecedence
<1>2. i # 5 => MODIFIED[TOP_LEVEL_ORDER[i]]
                 \in {"INTENT_MODIFIED", "EVENT_MODIFIED", "OBSERVE_MODIFIED", "META_MODIFIED"}
  <2>1. i # 5 => i = 1 \/ i = 2 \/ i = 3 \/ i = 4
    OBVIOUS
  <2>2. /\ TOP_LEVEL_ORDER[1] = "intent" /\ TOP_LEVEL_ORDER[2] = "event"
        /\ TOP_LEVEL_ORDER[3] = "observe" /\ TOP_LEVEL_ORDER[4] = "meta"
    BY DEF TOP_LEVEL_ORDER
  <2>3. /\ MODIFIED["intent"] = "INTENT_MODIFIED" /\ MODIFIED["event"] = "EVENT_MODIFIED"
        /\ MODIFIED["observe"] = "OBSERVE_MODIFIED" /\ MODIFIED["meta"] = "META_MODIFIED"
    BY DEF MODIFIED
  <2>4. QED
    BY <2>1, <2>2, <2>3, Zenon
<1>3. QED
  BY <1>1, <1>2, Zenon DEF SectionAnswer

LEMMA Numbered == 6 # 0 /\ \A i \in 1..5 : i # 0
OBVIOUS

LEMMA IdentityOnly == CompareInv => AcceptsIdentityOnly
<1> SUFFICES ASSUME CompareInv, answer # ""
             PROVE  answer = Accepted <=> candidate = reference
  BY Zenon DEF AcceptsIdentityOnly
<1>1. CASE section = 0 /\ candidate = reference /\ answer = Accepted
  BY <1>1
<1>2. CASE section = 0 /\ candidate # reference /\ answer \in FormatCodes \cup {BaselineError}
  BY <1>2, CodesApart, Zenon
<1>3. CASE section \in 1..5 /\ SectionAnswer(section)
  <2>0. section \in 1..5
    BY <1>3, Zenon
  <2>1. section # 0
    BY <2>0, Numbered, Zenon
  <2>2. candidate # reference
    BY <2>1, Zenon DEF CompareInv, SectionsBeforeAgree
  <2>3. answer = InvalidOperation \/ answer \in BaselineCodes
    BY <1>3, SectionCodes
  <2>4. answer # Accepted
    BY <2>3, CodesApart, Zenon
  <2>5. QED
    BY <2>2, <2>4
<1>4. CASE section = 6 /\ answer = AssertionError
  <2>0. section = 6
    BY <1>4, Zenon
  <2>1. section # 0
    BY <2>0, Numbered, Zenon
  <2>2. candidate # reference
    BY <2>1, Zenon DEF CompareInv, SectionsBeforeAgree
  <2>3. QED
    BY <1>4, <2>2, CodesApart, Zenon
<1>5. QED
  BY <1>1, <1>2, <1>3, <1>4, Zenon DEF CompareInv, AnswerHasReason

\* Only identical bytes are accepted, and identical bytes always are
\* (compare_to_baseline returns on candidate == reference and raises otherwise).
THEOREM IdentityAccepted == CompareSpec => []AcceptsIdentityOnly
BY CompareInvariant, IdentityOnly, PTL

\* The section of an answer is the first that differs.
LEMMA FirstIsSection ==
  ASSUME CompareInv, section \in 1..5, SectionAnswer(section)
  PROVE  FirstDifference = section
<1> DEFINE Differ(i) == candidate.members[i].node # reference.members[i].node
           First(i) == Differ(i) /\ \A j \in 1..(i - 1) : ~ Differ(j)
<1>1. section # 0
  OBVIOUS
<1>2. Differ(section)
  BY Zenon DEF SectionAnswer
<1>3. \A i \in 1..5 : i < section => ~ Differ(i)
  BY <1>1, Zenon DEF CompareInv, SectionsBeforeAgree
<1>4. FirstDifference = CHOOSE i \in 1..5 : First(i)
  BY Zenon DEF FirstDifference
<1> HIDE DEF Differ
<1>5. First(section)
  <2>1. \A j \in 1..(section - 1) : j \in 1..5 /\ j < section
    OBVIOUS
  <2>2. QED
    BY <1>2, <1>3, <2>1, Zenon
<1>6. ASSUME NEW i \in 1..5, First(i)
      PROVE  i = section
  <2>1. ~ (i < section)
    BY <1>3, <1>6
  <2>2. ~ (section < i)
    <3>1. section < i => section \in 1..(i - 1)
      OBVIOUS
    <3>2. QED
      BY <1>2, <1>6, <3>1, Zenon
  <2>3. QED
    BY <2>1, <2>2
<1> HIDE DEF First
<1>7. QED
  BY <1>4, <1>5, <1>6, Zenon

\* No member name inside a section is spelled in two ways by the two files.
NamesSpelledAlike ==
  candidate.format = Accepted /\ reference.format = Accepted =>
    \A i \in 1..5 : SpelledAlike(candidate.members[i].node, reference.members[i].node)

LEMMA SectionAnswered ==
  ASSUME CompareInv, NamesSpelledAlike, section \in 1..5
  PROVE  Right(candidate.members[section].node, reference.members[section].node)
<1>1. section # 0
  OBVIOUS
<1>2. candidate.format = Accepted /\ reference.format = Accepted /\ candidate \in Files /\ reference \in Files
  BY <1>1, Zenon DEF CompareInv, CompareTypes, SectionsBeforeAgree
<1>3. candidate.members[section].node \in Nodes /\ reference.members[section].node \in Nodes
  BY <1>2, CanonicalSections, Zenon
<1>4. SpelledAlike(candidate.members[section].node, reference.members[section].node)
  BY <1>2, Zenon DEF NamesSpelledAlike
<1>5. QED
  BY <1>3, <1>4, DifferenceRight, Zenon

\* A code or the exception of a number comes from a section.
LEMMA AnsweredAtSection ==
  ASSUME CompareInv, answer \in BaselineCodes \/ answer = InvalidOperation
  PROVE  section \in 1..5 /\ SectionAnswer(section)
<1>1. answer \notin FormatCodes \cup {BaselineError, AssertionError, "", Accepted}
  BY CodesApart, Zenon
<1>2. QED
  BY <1>1, Zenon DEF CompareInv, AnswerHasReason

LEMMA DocumentedWhenAlike == CompareInv /\ NamesSpelledAlike => ClassifiesAsDocumented
<1> SUFFICES ASSUME CompareInv, NamesSpelledAlike, answer \in BaselineCodes
             PROVE  answer = DocumentedCode
  BY Zenon DEF ClassifiesAsDocumented
<1> DEFINE x == candidate.members[section].node
           y == reference.members[section].node
<1>1. section \in 1..5 /\ SectionAnswer(section)
  BY AnsweredAtSection, Zenon
<1>2. FirstDifference = section
  BY <1>1, FirstIsSection
<1>3. Right(x, y)
  BY <1>1, SectionAnswered
<1>4. DocumentedCode =
        IF section = 5 /\ json_type(x) # json_type(y) THEN "INVARIANT_TYPE_CHANGED"
        ELSE IF OnlyNumbersDiffer(x, y) THEN "NUMERIC_REPRESENTATION_CHANGE"
        ELSE IF section = 5 THEN "INVARIANT_VALUE_CHANGED"
        ELSE MODIFIED[TOP_LEVEL_ORDER[section]]
  BY <1>2, Zenon DEF DocumentedCode
<1>5. answer # InvalidOperation
  BY CodesApart, Zenon
<1>6. \/ numeric_only_difference[<<x, y>>] = "yes" /\ OnlyNumbersDiffer(x, y)
      \/ numeric_only_difference[<<x, y>>] = "no" /\ ~ OnlyNumbersDiffer(x, y)
      \/ numeric_only_difference[<<x, y>>] = InvalidOperation
  BY <1>3, Zenon DEF Right
<1>7. "yes" # "no" /\ "yes" # InvalidOperation /\ "no" # InvalidOperation
  BY DEF InvalidOperation
<1>8. LET same == numeric_only_difference[<<x, y>>]
          typeChanged == section = 5 /\ json_type(x) # json_type(y)
      IN  \/ typeChanged /\ answer = "INVARIANT_TYPE_CHANGED"
          \/ ~ typeChanged /\ same = "yes" /\ answer = "NUMERIC_REPRESENTATION_CHANGE"
          \/ ~ typeChanged /\ same = "no" /\ section = 5 /\ answer = "INVARIANT_VALUE_CHANGED"
          \/ ~ typeChanged /\ same = "no" /\ section # 5 /\ answer = MODIFIED[TOP_LEVEL_ORDER[section]]
  BY <1>1, <1>5, Zenon DEF SectionAnswer
<1> HIDE DEF x, y
<1>9. QED
  BY <1>4, <1>6, <1>7, <1>8, Zenon

\* With member names spelled in one way, compare_to_baseline answers with the code
\* that rejection-reasons.md gives to the first difference of two canonical files.
THEOREM DocumentedCodes == CompareSpec => [](NamesSpelledAlike => ClassifiesAsDocumented)
BY CompareInvariant, DocumentedWhenAlike, PTL

LEMMA RaisesWhenAlike == CompareInv /\ NamesSpelledAlike => RaisesOnlyBeforeDifference
<1> SUFFICES ASSUME CompareInv, NamesSpelledAlike, answer = InvalidOperation
             PROVE  RaisedBy(candidate.members[FirstDifference].node, reference.members[FirstDifference].node)
  BY Zenon DEF RaisesOnlyBeforeDifference
<1> DEFINE x == candidate.members[section].node
           y == reference.members[section].node
<1>1. section \in 1..5 /\ SectionAnswer(section)
  BY AnsweredAtSection, Zenon
<1>2. FirstDifference = section
  BY <1>1, FirstIsSection
<1>3. Right(x, y)
  BY <1>1, SectionAnswered
<1>4. /\ InvalidOperation \notin {"INVARIANT_TYPE_CHANGED", "NUMERIC_REPRESENTATION_CHANGE", "INVARIANT_VALUE_CHANGED"}
      /\ "yes" # InvalidOperation /\ "no" # InvalidOperation
  BY DEF InvalidOperation
<1>5. section # 5 => MODIFIED[TOP_LEVEL_ORDER[section]] # InvalidOperation
  <2>1. section # 5 => section = 1 \/ section = 2 \/ section = 3 \/ section = 4
    BY <1>1
  <2>2. /\ TOP_LEVEL_ORDER[1] = "intent" /\ TOP_LEVEL_ORDER[2] = "event"
        /\ TOP_LEVEL_ORDER[3] = "observe" /\ TOP_LEVEL_ORDER[4] = "meta"
    BY DEF TOP_LEVEL_ORDER
  <2>3. /\ MODIFIED["intent"] # InvalidOperation /\ MODIFIED["event"] # InvalidOperation
        /\ MODIFIED["observe"] # InvalidOperation /\ MODIFIED["meta"] # InvalidOperation
    BY DEF MODIFIED, InvalidOperation
  <2>4. QED
    BY <2>1, <2>2, <2>3, Zenon
<1>6. numeric_only_difference[<<x, y>>] = InvalidOperation
  BY <1>1, <1>4, <1>5, Zenon DEF SectionAnswer
<1>7. RaisedBy(x, y)
  BY <1>3, <1>4, <1>6, Zenon DEF Right
<1>8. QED
  BY <1>2, <1>7, Zenon

\* With member names spelled in one way, the exception of a number beyond Decimal's
\* range comes from the first section that differs, before the difference in it.
THEOREM RaisesBeforeDifference == CompareSpec => [](NamesSpelledAlike => RaisesOnlyBeforeDifference)
BY CompareInvariant, RaisesWhenAlike, PTL

\* Members are equal when their names and nodes are.
LEMMA MembersEqual ==
  \A s, t \in Seq([name : STRING, node : Nodes]) :
    Len(s) = 5 /\ Len(t) = 5 /\ (\A i \in 1..5 : s[i].node = t[i].node)
      /\ (\A i \in 1..5 : s[i].name = t[i].name) => s = t
<1> DEFINE T == [name : STRING, node : Nodes]
<1>1. \A m, n \in T : m.name = n.name /\ m.node = n.node => m = n
  OBVIOUS
<1> HIDE DEF T
<1>2. ASSUME NEW s \in Seq(T), NEW t \in Seq(T), Len(s) = 5, Len(t) = 5,
             \A i \in 1..5 : s[i].node = t[i].node, \A i \in 1..5 : s[i].name = t[i].name
      PROVE  s = t
  <2>1. \A i \in 1..5 : s[i] \in T /\ t[i] \in T
    <3>1. \A u \in Seq(T) : \A i \in 1..Len(u) : u[i] \in T
      OBVIOUS
    <3>2. QED
      BY <1>2, <3>1, Zenon
  <2>2. \A i \in 1..5 : s[i] = t[i]
    BY <1>1, <1>2, <2>1, Zenon
  <2>3. QED
    BY <1>2, <2>2, SeqEqual, Zenon
<1>3. QED
  BY <1>2, Zenon DEF T

\* The two files spell the names of their sections in one way.
SectionsSpelledAlike ==
  candidate.format = Accepted /\ reference.format = Accepted =>
    \A i \in 1..5 : candidate.members[i].name = reference.members[i].name

LEMMA EndUnreachedWhenAlike == CompareInv /\ SectionsSpelledAlike => EndIsUnreachable
<1> SUFFICES ASSUME CompareInv, SectionsSpelledAlike, answer = AssertionError
             PROVE  FALSE
  BY Zenon DEF EndIsUnreachable
<1>1. section = 6
  <2>1. answer \notin FormatCodes \cup {BaselineError, InvalidOperation, ""} /\ answer \notin BaselineCodes
        /\ answer # Accepted
    BY CodesApart, Zenon DEF InvalidOperation
  <2>2. ~ (section \in 1..5 /\ SectionAnswer(section))
    BY <2>1, SectionCodes
  <2>3. QED
    BY <2>1, <2>2, Zenon DEF CompareInv, AnswerHasReason
<1>2. section # 0 /\ \A i \in 1..5 : i < section
  BY <1>1
<1>3. /\ candidate # reference /\ candidate \in Files /\ reference \in Files
      /\ candidate.format = Accepted /\ reference.format = Accepted
      /\ \A i \in 1..5 : candidate.members[i].node = reference.members[i].node
  BY <1>2, Zenon DEF CompareInv, CompareTypes, SectionsBeforeAgree
<1>4. \A i \in 1..5 : candidate.members[i].name = reference.members[i].name
  BY <1>3, Zenon DEF SectionsSpelledAlike
<1>5. /\ candidate.members \in Seq([name : STRING, node : Nodes])
      /\ reference.members \in Seq([name : STRING, node : Nodes])
      /\ candidate = [format |-> candidate.format, members |-> candidate.members]
      /\ reference = [format |-> reference.format, members |-> reference.members]
  BY <1>3, FilesAssumption, Zenon
<1>6. Len(candidate.members) = 5 /\ Len(reference.members) = 5
  BY <1>3, CanonicalSections
<1>7. candidate.members = reference.members
  BY <1>3, <1>4, <1>5, <1>6, MembersEqual, Zenon
<1>8. QED
  BY <1>3, <1>5, <1>7, Zenon

\* The statement after the loop is unreachable, as its comment says, for records
\* that spell the names of their sections in one way.
THEOREM EndUnreached == CompareSpec => [](SectionsSpelledAlike => EndIsUnreachable)
BY CompareInvariant, EndUnreachedWhenAlike, PTL
===========================================================================
