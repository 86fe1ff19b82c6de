------------------------------ MODULE FlowProofs ------------------------------
(***************************************************************************)
(* Theorems about visual flows: TopologicalOrder walks every executable      *)
(* definition, and the tasks of one execution follow that walk, for any      *)
(* definitions, any number of requests and any capacity of the worker.       *)
(***************************************************************************)
EXTENDS FlowExecution, FiniteSetTheorems, SequenceTheorems, WellFoundedInduction, TLAPS

-----------------------------------------------------------------------------
(* Induction over the natural numbers, from the well-foundedness of the      *)
(* finite subsets of a set                                                   *)

(* A non-empty set of natural numbers has a least element. *)
LEMMA Least ==
    ASSUME NEW S, S \subseteq Nat, S # {}
    PROVE  \E m \in S : \A k \in S : m <= k
<1> DEFINE T == {0 .. n : n \in S}
<1>1. T \subseteq FiniteSubsetsOf(Nat) /\ T # {}
  <2>1. \A n \in S : 0 .. n \subseteq Nat /\ IsFiniteSet(0 .. n)
      BY FS_Interval
  <2> QED BY <2>1 DEF FiniteSubsetsOf
<1>2. PICK x \in T : \A y \in T : ~ (<<y, x>> \in StrictSubsetOrdering(Nat))
  <2> HIDE DEF T
  <2> QED BY <1>1, FS_StrictSubsetOrderingWellFounded, WFMin
<1>3. PICK m \in S : x = 0 .. m
    OBVIOUS
<1>4. ASSUME NEW k \in S, k < m PROVE FALSE
  <2> DEFINE a == 0 .. k
  <2>1. a \in T
      OBVIOUS
  <2>2. a \subseteq Nat /\ x \subseteq Nat /\ a \subseteq x /\ m \notin a /\ m \in x
      BY <1>3, <1>4
  <2> HIDE DEF a
  <2>3. a # x
      BY <2>2, Zenon
  <2>4. <<a, x>> \in StrictSubsetOrdering(Nat)
      BY <2>2, <2>3 DEF StrictSubsetOrdering
  <2> QED BY <1>2, <2>1, <2>4
<1> QED BY <1>4

(* Induction over the natural numbers, for membership in a set. *)
LEMMA Induction ==
    ASSUME NEW S, 0 \in S, \A n \in Nat : n \in S => n + 1 \in S
    PROVE  \A n \in Nat : n \in S
<1> SUFFICES ASSUME Nat \ S # {} PROVE FALSE
    OBVIOUS
<1>1. PICK m \in Nat \ S : \A k \in Nat \ S : m <= k
    BY Least
<1>2. m - 1 \in Nat /\ m - 1 \in S
    BY <1>1
<1> QED BY <1>1, <1>2

(* A function on a set can be iterated, and what is closed under the steps   *)
(* of an iteration is never left.                                            *)
CanIterate(D, d, F, N) ==
    \E h \in [0 .. N -> D] : h[0] = d /\ \A k \in 1 .. N : h[k] = F[h[k - 1]]

(* A function can be iterated N times from any element of its domain. *)
LEMMA Iteration ==
    ASSUME NEW D, NEW d \in D, NEW F \in [D -> D], NEW N \in Nat
    PROVE  CanIterate(D, d, F, N)
<1> DEFINE Good(n, h) == h[0] = d /\ \A k \in 1 .. n : h[k] = F[h[k - 1]]
           S == {n \in Nat : \E h \in [0 .. n -> D] : Good(n, h)}
<1>1. 0 \in S
  <2> DEFINE h == [k \in 0 .. 0 |-> d]
  <2>1. h \in [0 .. 0 -> D] /\ Good(0, h)
      OBVIOUS
  <2> QED BY <2>1
<1>2. ASSUME NEW n \in Nat, n \in S PROVE n + 1 \in S
  <2>1. PICK h \in [0 .. n -> D] : Good(n, h)
      BY <1>2
  <2> DEFINE i == [k \in 0 .. n + 1 |-> IF k = n + 1 THEN F[h[n]] ELSE h[k]]
  <2>2. i \in [0 .. n + 1 -> D]
    <3>1. F[h[n]] \in D
        OBVIOUS
    <3>2. \A k \in 0 .. n + 1 : k # n + 1 => h[k] \in D
        OBVIOUS
    <3> QED BY <3>1, <3>2
  <2>3. ASSUME NEW k \in 1 .. n + 1 PROVE i[k] = F[i[k - 1]]
    <3>1. k - 1 \in 0 .. n /\ k - 1 # n + 1 /\ i[k - 1] = h[k - 1]
        OBVIOUS
    <3>2. CASE k = n + 1
        BY <3>1, <3>2
    <3>3. CASE k # n + 1
      <4>1. k \in 1 .. n /\ i[k] = h[k]
          BY <3>3
      <4>2. h[k] = F[h[k - 1]]
          BY <2>1, <4>1
      <4> QED BY <3>1, <4>1, <4>2
    <3> QED BY <3>2, <3>3
  <2>4. Good(n + 1, i)
    <3>1. i[0] = d
        BY <2>1
    <3> HIDE DEF i
    <3> QED BY <2>3, <3>1
  <2> HIDE DEF Good, i
  <2> QED BY <2>2, <2>4
<1> HIDE DEF S
<1>3. N \in S
    BY <1>1, <1>2, Induction
<1> QED BY <1>3 DEF S, CanIterate

(* What a step keeps holds after any number of steps. *)
LEMMA Closed ==
    ASSUME NEW N \in Nat, NEW h, NEW I, h[0] \in I,
           \A k \in 1 .. N : h[k - 1] \in I => h[k] \in I
    PROVE  \A k \in 0 .. N : h[k] \in I
<1> DEFINE S == {k \in Nat : k <= N => h[k] \in I}
<1>1. 0 \in S
    OBVIOUS
<1>2. ASSUME NEW k \in Nat, k \in S PROVE k + 1 \in S
  <2>1. k + 1 <= N => k + 1 \in 1 .. N /\ (k + 1) - 1 = k /\ h[k] \in I
      BY <1>2
  <2> QED BY <2>1
<1> HIDE DEF S
<1>3. \A k \in Nat : k \in S
    BY <1>1, <1>2, Induction
<1> QED BY <1>3 DEF S

-----------------------------------------------------------------------------
(* Sorted lists a finite set of numbers, each once.                          *)
LEMMA SortedLists ==
    ASSUME NEW S, S \subseteq Nat, IsFiniteSet(S)
    PROVE  /\ Sorted(S) \in Seq(S)
           /\ \A x \in S : \E i \in 1 .. Len(Sorted(S)) : Sorted(S)[i] = x
           /\ \A i, j \in 1 .. Len(Sorted(S)) : Sorted(S)[i] = Sorted(S)[j] => i = j
<1> DEFINE Below(x) == {y \in S : y < x}
           rank == [x \in S |-> Cardinality(Below(x))]
           n == Cardinality(S)
           R == {rank[x] : x \in S}
<1>1. n \in Nat
    BY FS_CardinalityType
<1>2. \A x \in S : IsFiniteSet(Below(x)) /\ rank[x] \in Nat
  <2>1. ASSUME NEW x \in S PROVE IsFiniteSet(Below(x)) /\ Cardinality(Below(x)) \in Nat
    <3>1. Below(x) \subseteq S
        OBVIOUS
    <3> HIDE DEF Below
    <3> QED BY <3>1, FS_Subset, FS_CardinalityType
  <2> QED BY <2>1
<1>3. ASSUME NEW x \in S, NEW y \in S, x < y PROVE rank[x] < rank[y]
  <2>1. Below(x) \subseteq Below(y) /\ x \in Below(y) /\ x \notin Below(x)
    <3>1. x \in Nat /\ y \in Nat /\ \A z \in S : z \in Nat
        OBVIOUS
    <3>2. \A z \in S : z < x => z < y
        BY <1>3, <3>1
    <3>3. ~(x < x)
        BY <3>1
    <3>4. Below(x) \subseteq Below(y)
        BY <3>2
    <3> QED BY <1>3, <3>3, <3>4
  <2>2. IsFiniteSet(Below(x)) /\ IsFiniteSet(Below(y))
      BY <1>2
  <2> DEFINE A == Below(x)  B == Below(y)
  <2>3. Cardinality(A) < Cardinality(B)
    <3>1. A \subseteq B /\ x \in B /\ x \notin A /\ IsFiniteSet(A) /\ IsFiniteSet(B)
        BY <2>1, <2>2
    <3> HIDE DEF A, B
    <3>2. A # B
        BY <3>1
    <3>3. Cardinality(A) <= Cardinality(B) /\ (Cardinality(A) = Cardinality(B) => A = B)
        BY <3>1, FS_Subset
    <3>4. Cardinality(A) \in Nat /\ Cardinality(B) \in Nat
        BY <3>1, FS_CardinalityType
    <3> QED BY <3>2, <3>3, <3>4
  <2> QED BY <2>3
<1>4. \A x, y \in S : rank[x] = rank[y] => x = y
  <2>1. SUFFICES ASSUME NEW x \in S, NEW y \in S, rank[x] = rank[y], x # y PROVE FALSE
      OBVIOUS
  <2>2. x < y \/ y < x
      BY <2>1
  <2> HIDE DEF rank
  <2>3. rank[x] \in Nat /\ rank[y] \in Nat
      BY <1>2
  <2> QED BY <1>3, <2>1, <2>2, <2>3
<1>5. \A x \in S : rank[x] \in 0 .. n - 1
  <2>1. ASSUME NEW x \in S PROVE Cardinality(Below(x)) < n
    <3> DEFINE B == Below(x)
    <3>1. B \subseteq S /\ x \in S /\ x \notin B
        OBVIOUS
    <3> HIDE DEF B
    <3>2. Cardinality(B) <= Cardinality(S) /\ (Cardinality(B) = Cardinality(S) => B = S)
          /\ Cardinality(B) \in Nat
        BY <3>1, FS_Subset, FS_CardinalityType
    <3>3. B # S
        BY <3>1
    <3> QED BY <3>2, <3>3, <1>1 DEF B
  <2> HIDE DEF Below, n
  <2> QED BY <1>1, <1>2, <2>1
<1>6. R = 0 .. n - 1
  <2> DEFINE I == 0 .. n - 1
  <2>1. R \subseteq I
    <3> HIDE DEF rank, n
    <3> QED BY <1>5
  <2>2. IsFiniteSet(I) /\ Cardinality(I) = n
    <3> HIDE DEF n
    <3>1. n - 1 \in Int /\ 0 \in Int
        BY <1>1
    <3>2. IsFiniteSet(I) /\ Cardinality(I) = IF 0 > n - 1 THEN 0 ELSE (n - 1) - 0 + 1
        BY <3>1, FS_Interval
    <3> HIDE DEF I
    <3> QED BY <1>1, <3>2
  <2>3. rank \in Bijection(S, R)
      BY <1>4 DEF Bijection, Injection, Surjection, IsInjective
  <2>4. IsFiniteSet(R) /\ Cardinality(R) = n
    <3> HIDE DEF R, rank
    <3> QED BY <2>3, FS_Bijection DEF ExistsBijection
  <2> HIDE DEF R, n, rank, I
  <2>5. R = I
      BY <2>1, <2>2, <2>4, FS_Subset
  <2> QED BY <2>5 DEF I
<1>7. ASSUME NEW i \in 1 .. n
      PROVE  Sorted(S)[i] \in S /\ rank[Sorted(S)[i]] = i - 1
  <2>1. i - 1 \in R
    <3> HIDE DEF R, n
    <3> QED BY <1>1, <1>6
  <2>2. \E x \in S : Cardinality(Below(x)) = i - 1
      BY <2>1
  <2>3. Sorted(S)[i] = CHOOSE x \in S : Cardinality(Below(x)) = i - 1
      BY DEF Sorted
  <2> DEFINE c == CHOOSE x \in S : Cardinality(Below(x)) = i - 1
  <2>4. c \in S /\ Cardinality(Below(c)) = i - 1
    <3> HIDE DEF Below
    <3> QED BY <2>2
  <2> HIDE DEF c
  <2> QED BY <2>3, <2>4 DEF c
<1>8. Sorted(S) \in Seq(S) /\ Len(Sorted(S)) = n
  <2>1. DOMAIN Sorted(S) = 1 .. n
      BY DEF Sorted
  <2>2. Sorted(S) = [i \in 1 .. n |-> Sorted(S)[i]]
      BY SMTT(20) DEF Sorted
  <2> HIDE DEF n, rank
  <2>3. Sorted(S) \in [1 .. n -> S]
      BY <2>2, <1>7
  <2>4. Sorted(S) \in Seq(S)
      BY <1>1, <2>3
  <2> QED BY <1>1, <2>1, <2>4
<1>9. \A x \in S : \E i \in 1 .. n : Sorted(S)[i] = x
  <2>1. SUFFICES ASSUME NEW x \in S PROVE \E i \in 1 .. n : Sorted(S)[i] = x
      OBVIOUS
  <2> DEFINE i == rank[x] + 1
  <2> HIDE DEF n, rank
  <2>2. i \in 1 .. n /\ i - 1 = rank[x]
      BY <1>1, <1>5
  <2> HIDE DEF i
  <2>3. Sorted(S)[i] \in S /\ rank[Sorted(S)[i]] = rank[x]
      BY <1>7, <2>2
  <2> QED BY <1>4, <2>2, <2>3
<1>10. \A i, j \in 1 .. n : Sorted(S)[i] = Sorted(S)[j] => i = j
  <2> HIDE DEF n, rank
  <2>1. SUFFICES ASSUME NEW i \in 1 .. n, NEW j \in 1 .. n, Sorted(S)[i] = Sorted(S)[j]
                 PROVE  i = j
      OBVIOUS
  <2>2. i - 1 = j - 1
      BY <1>7, <2>1
  <2> QED BY <1>1, <2>2
<1> HIDE DEF n
<1> QED BY <1>8, <1>9, <1>10

-----------------------------------------------------------------------------
(* The nodes of a definition, and lists of them                              *)

IsFlow(g) == g.nodes \in Seq(NodeRecords)

(* The nodes of a flow are the indices of its list of nodes. *)
LEMMA FlowNodes ==
    ASSUME NEW g, IsFlow(g)
    PROVE  /\ Len(g.nodes) \in Nat /\ Nodes(g) = 1 .. Len(g.nodes)
           /\ IsFiniteSet(Nodes(g)) /\ Cardinality(Nodes(g)) = Len(g.nodes)
<1>1. Len(g.nodes) \in Nat /\ Nodes(g) = 1 .. Len(g.nodes)
    BY DEF IsFlow, Nodes
<1> DEFINE n == Len(g.nodes)
<1>2. IsFiniteSet(1 .. n) /\ Cardinality(1 .. n) = IF 1 > n THEN 0 ELSE n - 1 + 1
    BY <1>1, FS_Interval
<1> HIDE DEF n
<1>3. n \in Nat /\ Nodes(g) = 1 .. n
    BY <1>1 DEF n
<1>4. Cardinality(1 .. n) = n
    BY <1>2, <1>3
<1> QED BY <1>2, <1>3, <1>4 DEF n

Listed(s) == {s[i] : i \in DOMAIN s}
Once(s) == \A i, j \in 1 .. Len(s) : s[i] = s[j] => i = j

(* The tail of a list without repetition lists all but the head. *)
LEMMA TailListed ==
    ASSUME NEW X, NEW s \in Seq(X), s # <<>>, Once(s)
    PROVE  /\ Tail(s) \in Seq(X) /\ Once(Tail(s)) /\ Head(s) \in Listed(s)
           /\ Listed(Tail(s)) = Listed(s) \ {Head(s)}
<1>1. /\ Len(s) \in Nat /\ Len(s) > 0 /\ Tail(s) \in Seq(X) /\ Len(Tail(s)) = Len(s) - 1
      /\ Head(s) = s[1] /\ \A i \in 1 .. Len(s) - 1 : Tail(s)[i] = s[i + 1]
    OBVIOUS
<1> DEFINE t == Tail(s)  n == Len(s)
<1>2. /\ n \in Nat /\ n > 0 /\ t \in Seq(X) /\ Len(t) = n - 1 /\ DOMAIN t = 1 .. n - 1
      /\ DOMAIN s = 1 .. n /\ \A i \in 1 .. n - 1 : t[i] = s[i + 1]
    BY <1>1
<1> HIDE DEF t, n
<1>3. \A i, j \in 1 .. n : s[i] = s[j] => i = j
    BY DEF Once, n
<1>4. Once(t)
  <2>1. SUFFICES ASSUME NEW i \in 1 .. n - 1, NEW j \in 1 .. n - 1, t[i] = t[j] PROVE i = j
      BY <1>2 DEF Once
  <2>2. i + 1 \in 1 .. n /\ j + 1 \in 1 .. n /\ s[i + 1] = s[j + 1]
      BY <1>2, <2>1
  <2> QED BY <1>3, <2>2
<1>5. Listed(t) \subseteq Listed(s) \ {s[1]}
  <2>1. SUFFICES ASSUME NEW i \in 1 .. n - 1 PROVE t[i] \in Listed(s) \ {s[1]}
      BY <1>2 DEF Listed
  <2>2. i + 1 \in 1 .. n /\ 1 \in 1 .. n /\ i + 1 # 1 /\ t[i] = s[i + 1]
      BY <1>2
  <2> QED BY <1>2, <1>3, <2>2 DEF Listed
<1>6. Listed(s) \ {s[1]} \subseteq Listed(t)
  <2>1. SUFFICES ASSUME NEW i \in 1 .. n, s[i] # s[1] PROVE s[i] \in Listed(t)
      BY <1>2 DEF Listed
  <2>2. i - 1 \in 1 .. n - 1 /\ t[i - 1] = s[(i - 1) + 1] /\ (i - 1) + 1 = i
      BY <1>2, <2>1
  <2> QED BY <1>2, <2>2 DEF Listed
<1>7. s[1] \in Listed(s) /\ Head(s) = s[1]
    BY <1>1, <1>2 DEF Listed
<1> QED BY <1>2, <1>4, <1>5, <1>6, <1>7 DEF t

(* Two lists without repetition and with nothing in common join to one. *)
LEMMA JoinListed ==
    ASSUME NEW X, NEW s \in Seq(X), NEW t \in Seq(X), Once(s), Once(t), Listed(s) \cap Listed(t) = {}
    PROVE  s \o t \in Seq(X) /\ Once(s \o t) /\ Listed(s \o t) = Listed(s) \cup Listed(t)
<1> DEFINE u == s \o t  m == Len(s)  n == Len(t)
<1>1. /\ u \in Seq(X) /\ Len(u) = m + n /\ DOMAIN u = 1 .. m + n /\ m \in Nat /\ n \in Nat
      /\ DOMAIN s = 1 .. m /\ DOMAIN t = 1 .. n
      /\ \A i \in 1 .. m + n : u[i] = IF i <= m THEN s[i] ELSE t[i - m]
    OBVIOUS
<1> HIDE DEF u, m, n
<1>2. /\ \A i, j \in 1 .. m : s[i] = s[j] => i = j
      /\ \A i, j \in 1 .. n : t[i] = t[j] => i = j
    BY DEF Once, m, n
<1>3. ASSUME NEW i \in 1 .. m, NEW j \in 1 .. n PROVE s[i] # t[j]
  <2>1. s[i] \in Listed(s) /\ t[j] \in Listed(t)
      BY <1>1 DEF Listed
  <2> QED BY <2>1
<1>4. Once(u)
  <2>1. SUFFICES ASSUME NEW i \in 1 .. m + n, NEW j \in 1 .. m + n, u[i] = u[j] PROVE i = j
      BY <1>1 DEF Once
  <2>2. /\ i <= m => i \in 1 .. m
        /\ ~(i <= m) => i - m \in 1 .. n
        /\ j <= m => j \in 1 .. m
        /\ ~(j <= m) => j - m \in 1 .. n
      BY <1>1
  <2>3. /\ u[i] = IF i <= m THEN s[i] ELSE t[i - m]
        /\ u[j] = IF j <= m THEN s[j] ELSE t[j - m]
      BY <1>1
  <2>4. (i <= m /\ j <= m) \/ (~(i <= m) /\ ~(j <= m))
      BY <1>3, <2>1, <2>2, <2>3
  <2>5. i = j \/ i - m = j - m
      BY <1>2, <2>1, <2>2, <2>3, <2>4
  <2> QED BY <1>1, <2>5
<1>5. Listed(u) \subseteq Listed(s) \cup Listed(t)
  <2>1. SUFFICES ASSUME NEW i \in 1 .. m + n PROVE u[i] \in Listed(s) \cup Listed(t)
      BY <1>1 DEF Listed
  <2>2. (i <= m => i \in 1 .. m) /\ (~(i <= m) => i - m \in 1 .. n)
      BY <1>1
  <2>3. u[i] = IF i <= m THEN s[i] ELSE t[i - m]
      BY <1>1
  <2> QED BY <1>1, <2>2, <2>3 DEF Listed
<1>6. Listed(s) \subseteq Listed(u)
  <2>1. SUFFICES ASSUME NEW i \in 1 .. m PROVE s[i] \in Listed(u)
      BY <1>1 DEF Listed
  <2>2. i \in 1 .. m + n /\ i <= m
      BY <1>1
  <2>3. u[i] = s[i]
      BY <1>1, <2>2
  <2> QED BY <1>1, <2>2, <2>3 DEF Listed
<1>7. Listed(t) \subseteq Listed(u)
  <2>1. SUFFICES ASSUME NEW i \in 1 .. n PROVE t[i] \in Listed(u)
      BY <1>1 DEF Listed
  <2>2. i + m \in 1 .. m + n /\ ~(i + m <= m) /\ (i + m) - m = i
      BY <1>1
  <2>3. u[i + m] = t[i]
      BY <1>1, <2>2
  <2> QED BY <1>1, <2>2, <2>3 DEF Listed
<1> QED BY <1>1, <1>4, <1>5, <1>6, <1>7 DEF u

(* A list without repetition stays one when a new element is appended. *)
LEMMA AppendListed ==
    ASSUME NEW X, NEW s \in Seq(X), NEW x \in X, Once(s), x \notin Listed(s)
    PROVE  Append(s, x) \in Seq(X) /\ Once(Append(s, x)) /\ Listed(Append(s, x)) = Listed(s) \cup {x}
<1> DEFINE t == <<x>>
<1>1. Append(s, x) = s \o t /\ t \in Seq(X) /\ Len(t) = 1 /\ t[1] = x /\ DOMAIN t = 1 .. 1
    BY AppendIsConcat
<1> HIDE DEF t
<1>2. Listed(t) = {x} /\ Once(t)
    BY <1>1 DEF Listed, Once
<1>3. s \o t \in Seq(X) /\ Once(s \o t) /\ Listed(s \o t) = Listed(s) \cup Listed(t)
    BY <1>1, <1>2, JoinListed
<1> QED BY <1>1, <1>2, <1>3

-----------------------------------------------------------------------------
(* Kahn's walk                                                               *)

(* The queue holds the nodes all of whose sources have been taken, each      *)
(* once, and every node taken was one of them.                               *)
Frontier(g, w) ==
    /\ w \in [queue : Seq(Nodes(g)), order : Seq(Nodes(g))]
    /\ Once(w.queue) /\ Once(w.order)
    /\ Listed(w.queue) = Ready(g, Listed(w.order))
    /\ \A j \in 1 .. Len(w.order) : \A e \in Incoming(g, w.order[j]) :
           \E i \in 1 .. j - 1 : w.order[i] = e.source

(* Sorted, for nodes of a definition.                                        *)
LEMMA SortedNodes ==
    ASSUME NEW g, IsFlow(g), NEW S, S \subseteq Nodes(g)
    PROVE  Sorted(S) \in Seq(Nodes(g)) /\ Once(Sorted(S)) /\ Listed(Sorted(S)) = S
<1>1. IsFiniteSet(S) /\ S \subseteq Nat
    BY FlowNodes, FS_Subset
<1> DEFINE s == Sorted(S)
<1>2. /\ s \in Seq(S) /\ \A x \in S : \E i \in 1 .. Len(s) : s[i] = x
      /\ \A i, j \in 1 .. Len(s) : s[i] = s[j] => i = j
    BY <1>1, SortedLists
<1> HIDE DEF s
<1>3. s \in Seq(Nodes(g)) /\ Once(s)
    BY <1>2 DEF Once
<1>4. DOMAIN s = 1 .. Len(s) /\ \A i \in 1 .. Len(s) : s[i] \in S
    BY <1>2
<1>5. Listed(s) = S
    BY <1>2, <1>4 DEF Listed
<1> QED BY <1>3, <1>5 DEF s

(* The first frontier: nothing is ordered and the nodes without predecessor are ready. *)
LEMMA FirstFrontier ==
    ASSUME NEW g, IsFlow(g) PROVE Frontier(g, FirstStep(g))
<1> DEFINE w == FirstStep(g)  S == Ready(g, {})
<1>1. S \subseteq Nodes(g)
    BY DEF Ready
<1>2. Sorted(S) \in Seq(Nodes(g)) /\ Once(Sorted(S)) /\ Listed(Sorted(S)) = S
    BY <1>1, SortedNodes
<1>3. w = [queue |-> Sorted(S), order |-> <<>>]
    BY DEF FirstStep
<1>4. <<>> \in Seq(Nodes(g)) /\ Once(<<>>) /\ Listed(<<>>) = {} /\ Len(<<>>) = 0
    BY DEF Once, Listed
<1> HIDE DEF S, w
<1>5. /\ w \in [queue : Seq(Nodes(g)), order : Seq(Nodes(g))]
      /\ w.queue = Sorted(S) /\ w.order = <<>>
    BY <1>2, <1>3, <1>4
<1>6. Listed(w.queue) = Ready(g, Listed(w.order)) /\ Once(w.queue) /\ Once(w.order)
    BY <1>2, <1>4, <1>5 DEF S
<1>7. Len(w.order) = 0 /\ 1 .. 0 = {}
    BY <1>4, <1>5
<1> QED BY <1>5, <1>6, <1>7 DEF Frontier, w

(* Taking the first ready node keeps what Frontier says of the order. *)
LEMMA NextFrontier ==
    ASSUME NEW g, IsFlow(g), NEW w, Frontier(g, w) PROVE Frontier(g, NextStep(g, w))
<1> DEFINE before == Listed(w.order)
           node == Head(w.queue)
           freed == Ready(g, before \cup {node}) \ Ready(g, before)
           new == Sorted(freed \ {node})
           queue == Tail(w.queue) \o new
           order == Append(w.order, node)
<1>1. /\ w.queue \in Seq(Nodes(g)) /\ w.order \in Seq(Nodes(g)) /\ Once(w.queue) /\ Once(w.order)
      /\ Listed(w.queue) = Ready(g, before)
      /\ \A j \in 1 .. Len(w.order) : \A e \in Incoming(g, w.order[j]) :
             \E i \in 1 .. j - 1 : w.order[i] = e.source
    BY DEF Frontier
<1>2. CASE w.queue = <<>>
    BY <1>2 DEF NextStep
<1>3. CASE w.queue # <<>>
  <2>1. /\ Tail(w.queue) \in Seq(Nodes(g)) /\ Once(Tail(w.queue)) /\ node \in Ready(g, before)
        /\ Listed(Tail(w.queue)) = Ready(g, before) \ {node}
      BY <1>1, <1>3, TailListed
  <2>2. node \in Nodes(g) /\ node \notin before /\ \A e \in Incoming(g, node) : e.source \in before
      BY <2>1 DEF Ready
  <2>3. freed \ {node} \subseteq Nodes(g)
      BY DEF Ready
  <2>4. new \in Seq(Nodes(g)) /\ Once(new) /\ Listed(new) = freed \ {node}
    <3> DEFINE S == freed \ {node}
    <3> HIDE DEF S
    <3>1. S \subseteq Nodes(g)
        BY <2>3 DEF S
    <3>2. Sorted(S) \in Seq(Nodes(g)) /\ Once(Sorted(S)) /\ Listed(Sorted(S)) = S
        BY <3>1, SortedNodes
    <3> QED BY <3>2 DEF S
  <2>5. NextStep(g, w) = [queue |-> queue, order |-> order]
      BY <1>3 DEF NextStep, Listed
  <2> HIDE DEF new, before, node
  <2>6. queue \in Seq(Nodes(g)) /\ Once(queue) /\ Listed(queue) = Ready(g, before \cup {node})
    <3>1. Listed(Tail(w.queue)) \cap Listed(new) = {}
        BY <2>1, <2>4
    <3>2. queue \in Seq(Nodes(g)) /\ Once(queue) /\ Listed(queue) = Listed(Tail(w.queue)) \cup Listed(new)
        BY ZenonT(30), <2>1, <2>4, <3>1, JoinListed
    <3>3. Ready(g, before) \ {node} \subseteq Ready(g, before \cup {node})
        BY DEF Ready
    <3>4. node \notin Ready(g, before \cup {node})
        BY DEF Ready
    <3>5. Listed(queue) = Ready(g, before \cup {node})
        BY <2>1, <2>4, <3>2, <3>3, <3>4
    <3> QED BY <3>2, <3>5
  <2>7. order \in Seq(Nodes(g)) /\ Once(order) /\ Listed(order) = before \cup {node}
      BY <1>1, <2>2, AppendListed DEF before
  <2> HIDE DEF queue
  <2>8. ASSUME NEW j \in 1 .. Len(order), NEW e \in Incoming(g, order[j])
        PROVE  \E i \in 1 .. j - 1 : order[i] = e.source
    <3> DEFINE n == Len(w.order)
    <3>1. /\ n \in Nat /\ Len(order) = n + 1 /\ order[n + 1] = node
          /\ \A i \in 1 .. n : order[i] = w.order[i]
        BY <1>1, AppendProperties, <2>2
    <3>2. DOMAIN w.order = 1 .. n
        BY <1>1
    <3> HIDE DEF order, n
    <3>3. CASE j = n + 1
      <4>1. e.source \in before
          BY <2>2, <2>8, <3>1, <3>3
      <4>2. PICK i \in 1 .. n : w.order[i] = e.source
          BY <3>2, <4>1 DEF before, Listed
      <4>3. i \in 1 .. j - 1 /\ order[i] = e.source
          BY <3>1, <3>3, <4>2
      <4> QED BY <4>3
    <3>4. CASE j # n + 1
      <4>1. j \in 1 .. n /\ order[j] = w.order[j]
          BY <3>1, <3>4
      <4>2. PICK i \in 1 .. j - 1 : w.order[i] = e.source
          BY <1>1, <2>8, <4>1 DEF n
      <4>3. i \in 1 .. n
          BY <3>1, <4>1
      <4> QED BY <3>1, <4>2, <4>3
    <3> QED BY <3>3, <3>4
  <2> HIDE DEF order
  <2> DEFINE v == [queue |-> queue, order |-> order]
  <2>9. v \in [queue : Seq(Nodes(g)), order : Seq(Nodes(g))] /\ v.queue = queue /\ v.order = order
      BY <2>6, <2>7
  <2> HIDE DEF v
  <2>10. Frontier(g, v)
      BY <2>6, <2>7, <2>8, <2>9 DEF Frontier
  <2> QED BY <2>5, <2>10 DEF v
<1> QED BY <1>2, <1>3

(* The function TopologicalOrder reads its result from.                      *)
LEMMA WalkUnfolds ==
    ASSUME NEW g, IsFlow(g)
    PROVE  \A k \in 0 .. Len(g.nodes) :
               Walk(g)[k] = IF k = 0 THEN FirstStep(g) ELSE NextStep(g, Walk(g)[k - 1])
<1> DEFINE D == {w \in [queue : Seq(Nodes(g)), order : Seq(Nodes(g))] : Frontier(g, w)}
           F == [w \in D |-> NextStep(g, w)]
           N == Len(g.nodes)
<1>1. FirstStep(g) \in D
    BY FirstFrontier DEF Frontier
<1>2. F \in [D -> D]
  <2>1. ASSUME NEW w \in D PROVE NextStep(g, w) \in D
    <3>1. Frontier(g, NextStep(g, w))
        BY NextFrontier
    <3> QED BY <3>1 DEF Frontier
  <2> QED BY <2>1
<1>3. N \in Nat
    BY FlowNodes
<1> HIDE DEF D
<1>4. PICK h \in [0 .. N -> D] : h[0] = FirstStep(g) /\ \A k \in 1 .. N : h[k] = F[h[k - 1]]
  <2> HIDE DEF F, N
  <2>1. CanIterate(D, FirstStep(g), F, N)
      BY <1>1, <1>2, <1>3, Iteration
  <2> QED BY <2>1 DEF CanIterate
<1>5. h = [k \in 0 .. N |-> IF k = 0 THEN FirstStep(g) ELSE NextStep(g, h[k - 1])]
  <2>1. ASSUME NEW k \in 0 .. N, k # 0 PROVE h[k] = NextStep(g, h[k - 1])
    <3>1. k - 1 \in 0 .. N /\ k \in 1 .. N
        BY <1>3, <2>1
    <3>2. h[k] = F[h[k - 1]]
        BY <1>4, <3>1
    <3> QED BY <3>1, <3>2
  <2> HIDE DEF F
  <2> QED BY <1>3, <1>4, <2>1
<1>6. Walk(g) = [k \in 0 .. N |-> IF k = 0 THEN FirstStep(g) ELSE NextStep(g, Walk(g)[k - 1])]
    BY <1>5 DEF Walk
<1> HIDE DEF N
<1>7. \A k \in 0 .. N : Walk(g)[k] = IF k = 0 THEN FirstStep(g) ELSE NextStep(g, Walk(g)[k - 1])
    BY <1>6
<1> QED BY <1>7 DEF N

(* After as many steps as there are nodes, Frontier still holds. *)
LEMMA WalkKeepsFrontier ==
    ASSUME NEW g, IsFlow(g) PROVE Frontier(g, Walk(g)[Len(g.nodes)])
<1> DEFINE D == {w \in [queue : Seq(Nodes(g)), order : Seq(Nodes(g))] : Frontier(g, w)}
           N == Len(g.nodes)
           h == Walk(g)
<1>1. N \in Nat /\ \A k \in 0 .. N : h[k] = IF k = 0 THEN FirstStep(g) ELSE NextStep(g, h[k - 1])
    BY FlowNodes, WalkUnfolds
<1> HIDE DEF N, h
<1>2. h[0] \in D
    BY <1>1, FirstFrontier DEF Frontier
<1>3. \A k \in 1 .. N : h[k - 1] \in D => h[k] \in D
  <2>1. SUFFICES ASSUME NEW k \in 1 .. N, h[k - 1] \in D PROVE h[k] \in D
      OBVIOUS
  <2>2. h[k] = NextStep(g, h[k - 1])
      BY <1>1
  <2>3. Frontier(g, h[k])
      BY <2>1, <2>2, NextFrontier
  <2> QED BY <2>3 DEF Frontier
<1> HIDE DEF D
<1>4. h[N] \in D
    BY <1>1, <1>2, <1>3, Closed
<1> QED BY <1>4 DEF D, N, h

-----------------------------------------------------------------------------
(* What is reached has an edge into it, or was there from the beginning.     *)
LEMMA ReachedHasSource ==
    ASSUME NEW g, IsFlow(g), NEW from, from \subseteq Nodes(g),
           \A e \in g.edges : e.source \in Nodes(g) /\ e.target \in Nodes(g)
    PROVE  Reachable(g, from) \subseteq from \cup {n \in Nodes(g) : Incoming(g, n) # {}}
<1> DEFINE D == SUBSET (from \cup {n \in Nodes(g) : Incoming(g, n) # {}})
           F == [S \in D |-> S \cup Targets(g, S)]
           N == Len(g.nodes)
           r == Reached(g, from)
<1>1. \A S \in D : S \cup Targets(g, S) \in D
  <2>1. \A S : Targets(g, S) \subseteq {n \in Nodes(g) : Incoming(g, n) # {}}
      BY DEF Targets, Incoming
  <2> QED BY <2>1
<1>2. F \in [D -> D] /\ from \in D
    BY <1>1
<1>3. N \in Nat
    BY FlowNodes
<1> HIDE DEF D
<1>4. PICK h \in [0 .. N -> D] : h[0] = from /\ \A k \in 1 .. N : h[k] = F[h[k - 1]]
  <2> HIDE DEF F, N
  <2>1. CanIterate(D, from, F, N)
      BY <1>2, <1>3, Iteration
  <2> QED BY <2>1 DEF CanIterate
<1>5. h = [k \in 0 .. N |-> IF k = 0 THEN from ELSE h[k - 1] \cup Targets(g, h[k - 1])]
  <2>1. ASSUME NEW k \in 0 .. N, k # 0 PROVE h[k] = h[k - 1] \cup Targets(g, h[k - 1])
    <3>1. k - 1 \in 0 .. N /\ k \in 1 .. N
        BY <1>3, <2>1
    <3>2. h[k] = F[h[k - 1]]
        BY <1>4, <3>1
    <3> QED BY <3>1, <3>2
  <2> HIDE DEF F
  <2> QED BY <1>3, <1>4, <2>1
<1>6. r = [k \in 0 .. N |-> IF k = 0 THEN from ELSE r[k - 1] \cup Targets(g, r[k - 1])]
    BY <1>5 DEF Reached
<1> HIDE DEF N, r
<1>7. r[0] \in D
    BY <1>2, <1>3, <1>6
<1>8. \A k \in 1 .. N : r[k - 1] \in D => r[k] \in D
  <2>1. SUFFICES ASSUME NEW k \in 1 .. N, r[k - 1] \in D PROVE r[k] \in D
      OBVIOUS
  <2>2. k \in 0 .. N /\ k # 0
      BY <1>3
  <2>3. r[k] = r[k - 1] \cup Targets(g, r[k - 1])
      BY <1>6, <2>2
  <2> QED BY <1>1, <2>1, <2>3
<1>9. r[N] \in D
  <2>1. \A k \in 0 .. N : r[k] \in D
      BY <1>3, <1>7, <1>8, Closed
  <2> QED BY <1>3, <2>1
<1>10. Reachable(g, from) = r[N]
    BY DEF Reachable, r, N
<1> QED BY <1>9, <1>10 DEF D

(* The walk of an executable definition takes every node once, the start     *)
(* first and none before a node that leads to it: what _topological_order    *)
(* promises the loop over its result.                                        *)
THEOREM OrderIsWalk ==
    ASSUME NEW g, IsFlow(g), Executable(g)
    PROVE  IsWalk(g, TopologicalOrder(g))
<1> DEFINE w == Walk(g)[Len(g.nodes)]  o == w.order  n == Len(g.nodes)
<1>1. TopologicalOrder(g) = o
    BY DEF TopologicalOrder
<1>2. Frontier(g, w)
    BY WalkKeepsFrontier
<1>3. /\ Savable(g) /\ Cardinality(OfKind(g, "start")) = 1
      /\ Reachable(g, OfKind(g, "start")) = Nodes(g)
    BY DEF Executable
<1>4. EdgesAreWellFormed(g) /\ Len(o) = n
    BY <1>1, <1>3 DEF Savable
<1>5. \A e \in g.edges : e.source \in Nodes(g) /\ e.target \in Nodes(g)
    BY <1>4 DEF EdgesAreWellFormed
<1> HIDE DEF w
<1>6. /\ o \in Seq(Nodes(g)) /\ Once(o)
      /\ \A j \in 1 .. Len(o) : \A e \in Incoming(g, o[j]) : \E i \in 1 .. j - 1 : o[i] = e.source
    BY <1>2 DEF Frontier
<1> HIDE DEF o, n
<1>7. n \in Nat /\ Nodes(g) = 1 .. n /\ IsFiniteSet(Nodes(g)) /\ Cardinality(Nodes(g)) = n
    BY FlowNodes DEF n
<1>8. \A i \in 1 .. n : o[i] \in Nodes(g)
    BY <1>4, <1>6
<1>9. \A i, j \in 1 .. n : o[i] = o[j] => i = j
    BY <1>4, <1>6 DEF Once
<1>10. \A m \in Nodes(g) : \E i \in 1 .. n : o[i] = m
  <2> DEFINE R == {o[i] : i \in 1 .. n}
  <2>1. o \in [1 .. n -> R]
      BY <1>4, <1>6
  <2>2. o \in Bijection(1 .. n, R)
      BY <1>9, <2>1 DEF Bijection, Injection, Surjection, IsInjective
  <2>3. R \subseteq Nodes(g)
      BY <1>8
  <2> HIDE DEF R
  <2>4. IsFiniteSet(R) /\ Cardinality(R) = n
      BY <1>7, <2>2, FS_Bijection DEF ExistsBijection
  <2>5. R = Nodes(g)
      BY <1>7, <2>3, <2>4, FS_Subset
  <2> QED BY <2>5 DEF R
<1>11. n > 0
  <2>1. CASE n = 0
    <3>1. OfKind(g, "start") = {}
        BY <1>7, <2>1 DEF OfKind
    <3> QED BY <1>3, <3>1, FS_EmptySet
  <2> QED BY <1>7, <2>1
<1>12. Kind(g, o[1]) = "start"
  <2>1. o[1] \in Nodes(g) /\ Incoming(g, o[1]) = {}
    <3>1. 1 \in 1 .. n /\ 1 .. 1 - 1 = {}
        BY <1>7, <1>11
    <3> QED BY <1>4, <1>6, <1>8, <3>1
  <2>2. OfKind(g, "start") \subseteq Nodes(g)
      BY DEF OfKind
  <2>3. o[1] \in OfKind(g, "start")
      BY <1>3, <1>5, <2>1, <2>2, ReachedHasSource
  <2> QED BY <2>3 DEF OfKind
<1>13. ASSUME NEW e \in g.edges, NEW i \in 1 .. n, NEW j \in 1 .. n, o[i] = e.source, o[j] = e.target
       PROVE  i < j
  <2>1. e \in Incoming(g, o[j])
      BY <1>13 DEF Incoming
  <2>2. PICK k \in 1 .. j - 1 : o[k] = e.source
      BY <1>4, <1>6, <2>1
  <2>3. k \in 1 .. n /\ k < j
      BY <1>7
  <2>4. k = i
      BY <1>9, <1>13, <2>2, <2>3
  <2> QED BY <2>3, <2>4
<1>14. o # <<>>
    BY <1>4, <1>11
<1> QED BY <1>1, <1>4, <1>6, <1>9, <1>10, <1>12, <1>13, <1>14 DEF IsWalk

-----------------------------------------------------------------------------
(* Visual flows *)

Marks == {"passed", "failed", "error", "true", "false", "skipped"}
AllEdges == UNION {g.edges : g \in Definitions}

Execs ==
    [status : {"none", "queued", "running", "passed", "failed"}, graph : Definitions \cup {NoGraph},
     order : {TopologicalOrder(g) : g \in Definitions} \cup {<<>>}, deleted : BOOLEAN]

Tasks ==
    [state : {"none", "queued", "refused", "taken", "walking", "ended"}, done : Nat,
     edges : SUBSET AllEdges, fatal : BOOLEAN]

FlowTypes ==
    /\ flow \in Seq(Definitions) /\ exec \in Execs /\ task \in [Requests -> Tasks]
    /\ rows \in [Places -> Marks \cup {"none"}] /\ calls \in [Places -> Nat]

(* Nothing was done before there was an execution; then it is of a           *)
(* definition and walks that one.                                            *)
ExecOK ==
    IF exec.status = "none"
    THEN /\ \A n \in Places : rows[n] = "none" /\ calls[n] = 0
         /\ \A r \in Requests : task[r].state = "none"
    ELSE Graph \in Definitions /\ Order = TopologicalOrder(Graph)

(* A walk the rows of which are the task's own: the first done of the order, *)
(* the edges they activated and whether one of them stops the flow.          *)
OwnRows(t, marks, g, order) ==
    /\ t.done <= Len(order)
    /\ \A i \in 1 .. Len(order) : marks[order[i]] # "none" <=> i <= t.done
    /\ t.edges = UNION {Activated(g, n, marks[n]) :
                           n \in {m \in Nodes(g) : marks[m] \notin {"none", "skipped"}}}
    /\ t.fatal <=> \E n \in Nodes(g) : IsFatal(g.nodes[n], marks[n])

Leads(t) == t.state = "walking" /\ t.done > 0

(* One task at most has got past the start; those that are still before it   *)
(* have nothing.                                                             *)
WalkersOK ==
    /\ \A r \in Requests :
           /\ task[r].state = "walking" /\ ~Leads(task[r]) => task[r].edges = {} /\ ~task[r].fatal
           /\ Leads(task[r]) => OwnRows(task[r], rows, Graph, Order)
    /\ \A r, q \in Requests : Leads(task[r]) /\ Leads(task[q]) => r = q

RowsOK ==
    exec.status # "none" =>
        /\ \A n \in Nodes(Graph) : rows[n] # "none" => rows[Order[1]] # "none"
        /\ \A n \in Nodes(Graph) :
               Kind(Graph, n) # "start" => calls[n] <= 1 /\ (rows[n] = "none" => calls[n] = 0)

FlowInv == FlowTypes /\ ExecOK /\ WalkersOK /\ RowsOK /\ RowsFollowRoutes

-----------------------------------------------------------------------------
(* The definition that is executed, as the walk needs it.                    *)
LEMMA Walked ==
    ASSUME FlowInv, exec.status # "none"
    PROVE  /\ Graph \in Definitions /\ IsWalk(Graph, Order)
           /\ Nodes(Graph) \subseteq Places /\ Graph.edges \subseteq AllEdges
           /\ Len(Order) \in Nat /\ Len(Order) > 0
           /\ \A i \in 1 .. Len(Order) : Order[i] \in Nodes(Graph)
<1>1. Graph \in Definitions /\ Order = TopologicalOrder(Graph)
    BY DEF FlowInv, ExecOK
<1>2. IsWalk(Graph, Order) /\ Nodes(Graph) \subseteq Places
    BY <1>1, FlowAssumption, OrderIsWalk DEF IsFlow
<1>3. Order \in Seq(Nodes(Graph)) /\ Order # <<>>
    BY <1>2 DEF IsWalk
<1> HIDE DEF Order, Graph
<1>4. Len(Order) \in Nat /\ Len(Order) > 0 /\ \A i \in 1 .. Len(Order) : Order[i] \in Nodes(Graph)
    BY <1>3
<1> QED BY <1>1, <1>2, <1>4 DEF AllEdges

(* Setting the status of an execution leaves the definition it runs. *)
LEMMA ExecFields ==
    ASSUME exec \in Execs, NEW s \in {"none", "queued", "running", "passed", "failed"}, NEW d \in BOOLEAN,
           exec' = [exec EXCEPT !.status = s, !.deleted = d]
    PROVE  exec' \in Execs /\ Graph' = Graph /\ Order' = Order /\ exec'.status = s
BY DEF Execs, Graph, Order

(* Rows that nobody touched, under an execution of the same definition.      *)
LEMMA RowsUntouched ==
    ASSUME FlowInv, exec.status # "none", exec' \in Execs, Graph' = Graph, Order' = Order,
           exec'.status # "none", UNCHANGED <<rows, calls>>,
           exec'.status = "passed" => \A n \in Nodes(Graph) :
               rows[n] # "none" /\ ~IsFatal(Graph.nodes[n], rows[n])
    PROVE  ExecOK' /\ RowsOK' /\ RowsFollowRoutes'
<1>1. ExecOK /\ RowsOK /\ RowsFollowRoutes
    BY DEF FlowInv
<1>2. \A n : Ran(n)' <=> Ran(n)
    BY DEF Ran
<1>3. ExecOK'
    BY <1>1 DEF ExecOK
<1>4. RowsOK'
    BY <1>1 DEF RowsOK
<1>5. RowsFollowRoutes'
    BY <1>1, <1>2 DEF RowsFollowRoutes
<1> QED BY <1>3, <1>4, <1>5

(* A task that does not walk yet, or no longer, or that begins a walk.       *)
LEMMA OtherTask ==
    ASSUME FlowInv, exec.status # "none", Graph' = Graph, Order' = Order, UNCHANGED rows,
           NEW r \in Requests, NEW t \in Tasks, task' = [task EXCEPT ![r] = t],
           \/ t.state # "walking"
           \/ t = [NoTask EXCEPT !.state = "walking"]
    PROVE  task' \in [Requests -> Tasks] /\ WalkersOK'
<1>1. task \in [Requests -> Tasks] /\ WalkersOK
    BY DEF FlowInv, FlowTypes
<1>2. task' \in [Requests -> Tasks] /\ \A q \in Requests : task'[q] = IF q = r THEN t ELSE task[q]
    BY <1>1
<1>3. ~Leads(t) /\ (t.state = "walking" => t.edges = {} /\ ~t.fatal)
    BY DEF Leads, NoTask
<1>5. ASSUME NEW q \in Requests, Leads(task'[q])
      PROVE  q # r /\ task'[q] = task[q] /\ OwnRows(task'[q], rows', Graph', Order')
  <2>1. q # r /\ task'[q] = task[q]
      BY <1>2, <1>3, <1>5
  <2> QED BY <1>1, <1>5, <2>1 DEF WalkersOK
<1> QED BY <1>1, <1>2, <1>3, <1>5 DEF WalkersOK

(* What IsWalk says, position by position. *)
LEMMA WalkFacts ==
    ASSUME NEW g, NEW order, IsWalk(g, order)
    PROVE  /\ \A n \in Nodes(g) : \E i \in 1 .. Len(order) : order[i] = n
           /\ \A i, j \in 1 .. Len(order) : i # j => order[i] # order[j]
           /\ \A e \in g.edges : \A i, j \in 1 .. Len(order) :
                  order[i] = e.source /\ order[j] = e.target => i < j
BY DEF IsWalk

(* The edges of an executable definition join its nodes. *)
LEMMA ExecutableEdges ==
    ASSUME NEW g, Executable(g)
    PROVE  \A e \in g.edges : e.source \in Nodes(g) /\ e.target \in Nodes(g)
<1>1. Savable(g)
    BY DEF Executable
<1>2. EdgesAreWellFormed(g)
    BY <1>1 DEF Savable
<1> QED BY <1>2 DEF EdgesAreWellFormed

(* Where a task may insert the row of its next node, the rows there are its  *)
(* own, and no other task leads.                                             *)
LEMMA InsertsOwn ==
    ASSUME FlowInv, exec.status # "none", NEW r \in Requests,
           task[r].state = "walking", Unwalked(r), rows[NextNode(r)] = "none"
    PROVE  /\ OwnRows(task[r], rows, Graph, Order)
           /\ \A q \in Requests : Leads(task[q]) => q = r
<1> DEFINE t == task[r]
<1>1. /\ IsWalk(Graph, Order) /\ Len(Order) \in Nat /\ Len(Order) > 0
      /\ \A i \in 1 .. Len(Order) : Order[i] \in Nodes(Graph)
    BY Walked
<1>2. t \in Tasks /\ WalkersOK /\ RowsOK
    BY DEF FlowInv, FlowTypes
<1>3. CASE t.done > 0
    BY <1>2, <1>3 DEF WalkersOK, Leads
<1>4. CASE t.done = 0
  <2>1. NextNode(r) = Order[1]
      BY <1>4 DEF NextNode
  <2>2. \A n \in Nodes(Graph) : rows[n] = "none"
      BY <1>2, <2>1 DEF RowsOK
  <2>3. ASSUME NEW q \in Requests, Leads(task[q]) PROVE FALSE
    <3>1. OwnRows(task[q], rows, Graph, Order) /\ task[q].done > 0 /\ task[q].done \in Nat
        BY <1>2, <2>3 DEF WalkersOK, Leads, FlowInv, FlowTypes, Tasks
    <3>2. rows[Order[1]] # "none"
        BY <1>1, <3>1 DEF OwnRows
    <3> QED BY <2>1, <3>2
  <2>4. t.edges = {} /\ ~t.fatal
      BY <1>2, <1>4 DEF WalkersOK, Leads
  <2>5. \A i \in 1 .. Len(Order) : rows[Order[i]] = "none" /\ ~(i <= t.done)
      BY <1>1, <1>4, <2>2
  <2>6. UNION {Activated(Graph, n, rows[n]) : n \in {m \in Nodes(Graph) : rows[m] \notin {"none", "skipped"}}} = {}
      BY <2>2
  <2>7. \A n \in Nodes(Graph) : ~IsFatal(Graph.nodes[n], rows[n])
      BY <2>2 DEF IsFatal, Failed
  <2>8. OwnRows(t, rows, Graph, Order)
    <3>1. t.done <= Len(Order) /\ \A i \in 1 .. Len(Order) : rows[Order[i]] # "none" <=> i <= t.done
        BY <1>1, <1>4, <2>5
    <3>2. t.edges = UNION {Activated(Graph, n, rows[n]) : n \in {m \in Nodes(Graph) : rows[m] \notin {"none", "skipped"}}}
        BY <2>4, <2>6
    <3>3. t.fatal <=> \E n \in Nodes(Graph) : IsFatal(Graph.nodes[n], rows[n])
        BY <2>4, <2>7
    <3> HIDE DEF t
    <3> QED BY <3>1, <3>2, <3>3 DEF OwnRows
  <2> QED BY <2>3, <2>8
<1> QED BY <1>2, <1>3, <1>4 DEF Tasks

(* What a node ends with is a status of its row, and never "skipped". *)
LEMMA OutcomesAreMarks ==
    ASSUME NEW kind PROVE Outcomes(kind) \subseteq Marks \ {"skipped"}
BY DEF Outcomes, Marks

(* The next row of a walk: the walk it is the next of still owns its rows.   *)
LEMMA WalkGoesOn ==
    ASSUME NEW g, NEW order, IsWalk(g, order), Len(order) \in Nat,
           NEW marks \in [Places -> Marks \cup {"none"}], Nodes(g) \subseteq Places,
           NEW t \in Tasks, OwnRows(t, marks, g, order), t.done < Len(order),
           NEW n, n = order[t.done + 1], n \in Nodes(g), marks[n] = "none",
           NEW outcome \in Marks, NEW active \in BOOLEAN,
           outcome # "skipped" <=> active,
           NEW u, NEW told,
           told = [marks EXCEPT ![n] = outcome],
           u.done = t.done + 1,
           u.edges = t.edges \cup (IF active THEN Activated(g, n, outcome) ELSE {}),
           u.fatal <=> t.fatal \/ (active /\ IsFatal(g.nodes[n], outcome))
    PROVE  OwnRows(u, told, g, order)
<1>1. t.done \in Nat
    BY DEF Tasks
<1>2. \A m \in Places : told[m] = IF m = n THEN outcome ELSE marks[m]
    OBVIOUS
<1>3. u.done <= Len(order)
    BY <1>1
<1>4. ASSUME NEW i \in 1 .. Len(order) PROVE told[order[i]] # "none" <=> i <= u.done
  <2>1. order[i] \in Nodes(g)
      BY DEF IsWalk
  <2>2. CASE i = t.done + 1
      BY <1>1, <1>2, <2>1, <2>2 DEF Marks
  <2>3. CASE i # t.done + 1
    <3>1. order[i] # n
      <4>1. t.done + 1 \in 1 .. Len(order) /\ i # t.done + 1
          BY <1>1, <2>3
      <4> QED BY <4>1, WalkFacts
    <3>2. told[order[i]] = marks[order[i]]
        BY <1>2, <2>1, <3>1
    <3>3. i <= t.done <=> i <= u.done
        BY <1>1, <2>3
    <3> QED BY <3>2, <3>3 DEF OwnRows
  <2> QED BY <2>2, <2>3
<1>5. u.edges = UNION {Activated(g, k, told[k]) : k \in {m \in Nodes(g) : told[m] \notin {"none", "skipped"}}}
  <2>1. t.edges = UNION {Activated(g, k, marks[k]) : k \in {m \in Nodes(g) : marks[m] \notin {"none", "skipped"}}}
      BY DEF OwnRows
  <2>2. ASSUME NEW e
        PROVE  (\E k \in Nodes(g) : told[k] \notin {"none", "skipped"} /\ e \in Activated(g, k, told[k])) <=>
                   \/ \E k \in Nodes(g) : marks[k] \notin {"none", "skipped"} /\ e \in Activated(g, k, marks[k])
                   \/ active /\ e \in Activated(g, n, outcome)
    <3>1. \A k \in Nodes(g) : k # n => told[k] = marks[k]
        BY <1>2
    <3>2. told[n] = outcome /\ (told[n] \notin {"none", "skipped"} <=> active)
        BY <1>2 DEF Marks
    <3> HIDE DEF Activated
    <3> QED BY <3>1, <3>2
  <2> HIDE DEF Activated
  <2>3. \A e : e \in u.edges <=>
            \/ \E k \in Nodes(g) : marks[k] \notin {"none", "skipped"} /\ e \in Activated(g, k, marks[k])
            \/ active /\ e \in Activated(g, n, outcome)
      BY <2>1
  <2> QED BY <2>2, <2>3
<1>6. u.fatal <=> \E k \in Nodes(g) : IsFatal(g.nodes[k], told[k])
  <2>1. t.fatal <=> \E k \in Nodes(g) : IsFatal(g.nodes[k], marks[k])
      BY DEF OwnRows
  <2>2. ~IsFatal(g.nodes[n], marks[n])
      BY DEF IsFatal, Failed
  <2>3. ~active => ~IsFatal(g.nodes[n], outcome)
      BY DEF IsFatal, Failed
  <2>4. \A k \in Nodes(g) : told[k] = IF k = n THEN outcome ELSE marks[k]
      BY <1>2
  <2> HIDE DEF IsFatal
  <2> QED BY <2>1, <2>2, <2>3, <2>4
<1> QED BY <1>3, <1>4, <1>5, <1>6 DEF OwnRows

(* The row of the next node in a walk follows the rows before it, and none   *)
(* of those looked at it.                                                    *)
LEMMA RouteGoesOn ==
    ASSUME FlowInv, exec.status # "none", NEW r \in Requests, Unwalked(r),
           OwnRows(task[r], rows, Graph, Order), task[r] \in Tasks,
           NEW n, n = NextNode(r), rows[n] = "none",
           NEW outcome \in Marks, outcome # "skipped" <=> IsActive(r, n),
           rows' = [rows EXCEPT ![n] = outcome], UNCHANGED exec
    PROVE  \A m \in Nodes(Graph) : rows'[m] # "none" =>
               (rows'[m] \notin {"none", "skipped"} <=>
                   \/ Kind(Graph, m) = "start"
                   \/ \E e \in Incoming(Graph, m) :
                         rows'[e.source] \notin {"none", "skipped"}
                         /\ e \in Activated(Graph, e.source, rows'[e.source]))
<1> DEFINE k == task[r].done
<1>1. /\ IsWalk(Graph, Order) /\ Len(Order) \in Nat /\ Nodes(Graph) \subseteq Places
      /\ Graph \in Definitions /\ \A i \in 1 .. Len(Order) : Order[i] \in Nodes(Graph)
    BY Walked
<1>2. k \in Nat /\ k + 1 \in 1 .. Len(Order) /\ n = Order[k + 1] /\ n \in Nodes(Graph)
    BY <1>1 DEF Tasks, Unwalked, NextNode
<1>3. \A m \in Places : rows'[m] = IF m = n THEN outcome ELSE rows[m]
    BY DEF FlowInv, FlowTypes
<1>4. \A e \in Graph.edges : e.source \in Nodes(Graph)
    BY <1>1, FlowAssumption, ExecutableEdges
<1>5. \A m \in Nodes(Graph) : \A e \in Incoming(Graph, m) : e \in Graph.edges /\ e.target = m
    BY DEF Incoming
<1>6. ASSUME NEW m \in Nodes(Graph), rows'[m] # "none"
      PROVE  \A e \in Incoming(Graph, m) : e.source # n
  <2>1. SUFFICES ASSUME NEW e \in Incoming(Graph, m), e.source = n PROVE FALSE
      OBVIOUS
  <2>2. PICK i \in 1 .. Len(Order) : Order[i] = m
      BY <1>1, WalkFacts
  <2>3. k + 1 < i
    <3>1. e \in Graph.edges /\ e.target = m /\ e.source = Order[k + 1] /\ Order[i] = m
        BY <1>2, <1>5, <2>1, <2>2
    <3> QED BY <1>1, <1>2, <3>1, WalkFacts
  <2>4. m # n
      BY <1>1, <1>2, <2>2, <2>3, WalkFacts
  <2>5. rows[m] # "none"
      BY <1>1, <1>3, <1>6, <2>4
  <2>6. i <= k
      BY <2>2, <2>5 DEF OwnRows
  <2> QED BY <1>2, <2>3, <2>6
<1>7. ASSUME NEW m \in Nodes(Graph), rows'[m] # "none", NEW e \in Incoming(Graph, m)
      PROVE  rows'[e.source] = rows[e.source]
    BY <1>1, <1>3, <1>4, <1>5, <1>6, <1>7
<1>8. ASSUME NEW m \in Nodes(Graph), rows'[m] # "none", m # n
      PROVE  rows'[m] \notin {"none", "skipped"} <=>
                 \/ Kind(Graph, m) = "start"
                 \/ \E e \in Incoming(Graph, m) :
                       rows'[e.source] \notin {"none", "skipped"}
                       /\ e \in Activated(Graph, e.source, rows'[e.source])
  <2>1. rows'[m] = rows[m]
      BY <1>1, <1>3, <1>8
  <2>2. rows[m] \notin {"none", "skipped"} <=>
            \/ Kind(Graph, m) = "start"
            \/ \E e \in Incoming(Graph, m) :
                  rows[e.source] \notin {"none", "skipped"} /\ e \in Activated(Graph, e.source, rows[e.source])
      BY <1>8, <2>1 DEF FlowInv, RowsFollowRoutes, Ran
  <2> HIDE DEF Activated, Incoming
  <2> QED BY <1>7, <1>8, <2>1, <2>2
<1>9. outcome \notin {"none", "skipped"} <=> IsActive(r, n)
    BY DEF Marks
<1>10. IsActive(r, n) <=>
           \/ Kind(Graph, n) = "start"
           \/ \E e \in Incoming(Graph, n) :
                 rows[e.source] \notin {"none", "skipped"} /\ e \in Activated(Graph, e.source, rows[e.source])
  <2>1. task[r].edges = UNION {Activated(Graph, p, rows[p]) :
                                 p \in {m \in Nodes(Graph) : rows[m] \notin {"none", "skipped"}}}
      BY DEF OwnRows
  <2>2. \A p : \A e \in Activated(Graph, p, rows[p]) : e.source = p
      BY DEF Activated, Outgoing
  <2>3. \A e : e \in task[r].edges <=>
            \E p \in Nodes(Graph) : rows[p] \notin {"none", "skipped"} /\ e \in Activated(Graph, p, rows[p])
    <3> HIDE DEF Activated
    <3> QED BY <2>1
  <2>4. \A e \in Incoming(Graph, n) : e.source \in Nodes(Graph)
      BY <1>2, <1>4, <1>5
  <2> HIDE DEF Activated, Incoming
  <2> QED BY <2>2, <2>3, <2>4 DEF IsActive
<1>11. rows'[n] = outcome
    BY <1>1, <1>2, <1>3
<1>12. outcome # "none"
    BY DEF Marks
<1> HIDE DEF Activated, Incoming
<1>13. \A e \in Incoming(Graph, n) : rows'[e.source] = rows[e.source]
    BY <1>2, <1>7, <1>11, <1>12
<1> QED BY <1>8, <1>9, <1>10, <1>11, <1>13

(* A node of a walk.                                                         *)
LEMMA WalkNodeKept ==
    ASSUME FlowInv, exec.status # "none", NEW r \in Requests,
           NEW outcome \in Marks, WalkNode(r, outcome)
    PROVE  FlowInv'
<1> DEFINE t == task[r]
           n == NextNode(r)
<1>1. /\ IsWalk(Graph, Order) /\ Len(Order) \in Nat /\ Len(Order) > 0
      /\ Nodes(Graph) \subseteq Places /\ Graph.edges \subseteq AllEdges
      /\ \A i \in 1 .. Len(Order) : Order[i] \in Nodes(Graph)
    BY Walked
<1>2. t.state = "walking" /\ Unwalked(r) /\ UNCHANGED flow
    BY DEF WalkNode
<1>3. /\ t \in Tasks /\ exec \in Execs /\ task \in [Requests -> Tasks] /\ flow \in Seq(Definitions)
      /\ rows \in [Places -> Marks \cup {"none"}] /\ calls \in [Places -> Nat]
    BY DEF FlowInv, FlowTypes
<1>4. /\ t.done \in Nat /\ t.done + 1 \in 1 .. Len(Order) /\ n = Order[t.done + 1] /\ n \in Nodes(Graph)
      /\ n \in Places
    BY <1>1, <1>2, <1>3 DEF Tasks, Unwalked, NextNode
<1>5. /\ calls' = [calls EXCEPT ![n] = IF IsActive(r, n) /\ calls[n] < 2 THEN calls[n] + 1 ELSE calls[n]]
      /\ IF IsActive(r, n) THEN outcome \in Outcomes(Kind(Graph, n)) ELSE outcome = "skipped"
    BY DEF WalkNode
<1>6. /\ calls' \in [Places -> Nat] /\ calls'[n] <= calls[n] + 1
      /\ \A m \in Places \ {n} : calls'[m] = calls[m]
  <2>1. calls[n] \in Nat
      BY <1>3, <1>4
  <2> DEFINE more == IF IsActive(r, n) /\ calls[n] < 2 THEN calls[n] + 1 ELSE calls[n]
  <2>2. more \in Nat /\ more <= calls[n] + 1
      BY <2>1
  <2> HIDE DEF more, n
  <2> QED BY <1>3, <1>4, <1>5, <2>2 DEF more
<1>7. outcome # "skipped" <=> IsActive(r, n)
    BY <1>5, OutcomesAreMarks
<1>8. CASE CanInsert(n) /\ UNCHANGED exec
  <2> DEFINE active == IsActive(r, n)
             u == [t EXCEPT !.done = t.done + 1,
                            !.edges = t.edges \cup (IF active THEN Activated(Graph, n, outcome) ELSE {}),
                            !.fatal = t.fatal \/ (active /\ IsFatal(Graph.nodes[n], outcome))]
  <2>1. rows' = [rows EXCEPT ![n] = outcome] /\ task' = [task EXCEPT ![r] = u]
      BY <1>8 DEF WalkNode, Fail
  <2>2. rows[n] = "none"
      BY <1>8 DEF CanInsert
  <2>3. OwnRows(t, rows, Graph, Order) /\ \A q \in Requests : Leads(task[q]) => q = r
      BY <1>2, <2>2, InsertsOwn
  <2>4. /\ u \in Tasks /\ u.state = "walking" /\ u.done = t.done + 1
        /\ u.edges = t.edges \cup (IF active THEN Activated(Graph, n, outcome) ELSE {})
        /\ (u.fatal <=> t.fatal \/ (active /\ IsFatal(Graph.nodes[n], outcome)))
    <3>1. Activated(Graph, n, outcome) \subseteq AllEdges
        BY <1>1 DEF Activated, Outgoing
    <3> DEFINE edges == t.edges \cup (IF active THEN Activated(Graph, n, outcome) ELSE {})
               fatal == t.fatal \/ (active /\ IsFatal(Graph.nodes[n], outcome))
    <3>2. edges \in SUBSET AllEdges /\ fatal \in BOOLEAN /\ t.done + 1 \in Nat
        BY <1>3, <1>4, <3>1 DEF Tasks
    <3>6. u = [t EXCEPT !.done = t.done + 1, !.edges = edges, !.fatal = fatal]
        OBVIOUS
    <3> HIDE DEF edges, fatal, t, u
    <3>3. u = [state |-> t.state, done |-> t.done + 1, edges |-> edges, fatal |-> fatal]
        BY <1>3, <3>6 DEF Tasks
    <3>4. u.state = t.state /\ u.done = t.done + 1 /\ u.edges = edges /\ u.fatal = fatal
        BY <3>3
    <3>5. u \in Tasks
        BY <1>3, <3>2, <3>3 DEF Tasks
    <3> QED BY <1>2, <3>4, <3>5 DEF edges, fatal
  <2>5. active \in BOOLEAN
      BY DEF IsActive
  <2> HIDE DEF u, t
  <2>6. OwnRows(u, rows', Graph, Order)
    <3> HIDE DEF active, n
    <3> QED BY <1>1, <1>2, <1>3, <1>4, <1>7, <2>1, <2>2, <2>3, <2>4, <2>5, WalkGoesOn DEF Unwalked, t, active
  <2>7. /\ task' \in [Requests -> Tasks]
        /\ \A q \in Requests : task'[q] = IF q = r THEN u ELSE task[q]
      BY <1>3, <2>1, <2>4
  <2>8. Graph' = Graph /\ Order' = Order /\ exec' = exec
      BY <1>8 DEF Graph, Order
  <2>9. WalkersOK'
    <3>1. \A q \in Requests : Leads(task'[q]) => q = r
        BY <2>3, <2>7
    <3>2. Leads(task'[r])
        BY <1>4, <2>4, <2>7 DEF Leads
    <3>3. ASSUME NEW q \in Requests, task'[q].state = "walking", ~Leads(task'[q])
          PROVE  task'[q].edges = {} /\ ~task'[q].fatal
      <4>1. task'[q] = task[q]
          BY <2>7, <3>2, <3>3
      <4> QED BY <3>3, <4>1 DEF FlowInv, WalkersOK
    <3> QED BY <2>6, <2>7, <2>8, <3>1, <3>3 DEF WalkersOK
  <2>10. \A m \in Places : rows'[m] = IF m = n THEN outcome ELSE rows[m]
      BY <1>3, <2>1
  <2>11. FlowTypes'
    <3>1. rows' \in [Places -> Marks \cup {"none"}]
        BY <1>3, <2>1
    <3> QED BY <1>2, <1>3, <1>6, <2>7, <2>8, <3>1 DEF FlowTypes
  <2>12. ExecOK'
      BY <2>8 DEF FlowInv, ExecOK
  <2>13. RowsOK'
    <3>1. Order[1] \in Nodes(Graph) /\ Order[1] \in Places
        BY <1>1
    <3>2. rows'[Order[1]] # "none"
      <4>1. CASE t.done = 0
          BY <1>4, <2>10, <3>1, <4>1 DEF Marks
      <4>2. CASE t.done > 0
        <5>1. rows[Order[1]] # "none"
            BY <1>1, <1>4, <2>3, <4>2 DEF OwnRows
        <5> QED BY <2>10, <3>1, <5>1 DEF Marks
      <4> QED BY <1>4, <4>1, <4>2
    <3>3. ASSUME NEW m \in Nodes(Graph), Kind(Graph, m) # "start"
          PROVE  calls'[m] <= 1 /\ (rows'[m] = "none" => calls'[m] = 0)
      <4>1. calls[m] <= 1 /\ (rows[m] = "none" => calls[m] = 0)
          BY <3>3 DEF FlowInv, RowsOK
      <4>2. CASE m = n
        <5>1. calls[n] = 0 /\ calls'[n] <= 0 + 1 /\ rows'[n] = outcome
            BY <1>4, <1>6, <2>2, <2>10, <4>1, <4>2
        <5> QED BY <4>2, <5>1 DEF Marks
      <4>3. CASE m # n
        <5>1. calls'[m] = calls[m] /\ rows'[m] = rows[m]
            BY <1>1, <1>6, <2>10, <4>3
        <5> QED BY <4>1, <5>1
      <4> QED BY <4>2, <4>3
    <3> QED BY <2>8, <3>2, <3>3 DEF RowsOK
  <2>14. RowsFollowRoutes'
    <3>1. \A m \in Nodes(Graph) : rows'[m] # "none" =>
              (rows'[m] \notin {"none", "skipped"} <=>
                  \/ Kind(Graph, m) = "start"
                  \/ \E e \in Incoming(Graph, m) :
                        rows'[e.source] \notin {"none", "skipped"}
                        /\ e \in Activated(Graph, e.source, rows'[e.source]))
        BY <1>2, <1>3, <1>7, <1>8, <2>1, <2>2, <2>3, RouteGoesOn DEF t
    <3>2. exec.status # "passed"
        BY <1>4, <2>2 DEF FlowInv, RowsFollowRoutes
    <3> HIDE DEF Activated, Incoming
    <3> QED BY <2>8, <3>1, <3>2 DEF RowsFollowRoutes, Ran
  <2> QED BY <2>9, <2>11, <2>12, <2>13, <2>14 DEF FlowInv
<1>9. CASE ~CanInsert(n) /\ UNCHANGED rows /\ Fail(r)
  <2>1. t.done = 0
    <3>1. SUFFICES ASSUME t.done > 0 PROVE FALSE
        BY <1>4
    <3>2. OwnRows(t, rows, Graph, Order)
        BY <1>2, <3>1 DEF FlowInv, WalkersOK, Leads
    <3>3. rows[n] # "none"
        BY <1>9 DEF CanInsert
    <3> QED BY <1>4, <3>2, <3>3 DEF OwnRows
  <2>2. Kind(Graph, n) = "start"
      BY <1>1, <1>4, <2>1 DEF IsWalk
  <2> DEFINE u == [t EXCEPT !.state = "ended"]
             s == IF exec.status \in Terminal THEN exec.status ELSE "failed"
  <2>3. task' = [task EXCEPT ![r] = u] /\ exec' = [exec EXCEPT !.status = s]
      BY <1>3, <1>9 DEF Fail
  <2>4. u \in Tasks /\ u.state = "ended"
      BY <1>3 DEF Tasks
  <2>5. s \in {"passed", "failed"} /\ (s = "passed" => exec.status = "passed")
      BY DEF Terminal
  <2>6. exec' \in Execs /\ Graph' = Graph /\ Order' = Order /\ exec'.status = s
    <3>1. exec' = [exec EXCEPT !.status = s, !.deleted = exec.deleted] /\ exec.deleted \in BOOLEAN
        BY <1>3, <2>3 DEF Execs
    <3> HIDE DEF s
    <3> QED BY <1>3, <2>5, <3>1, ExecFields
  <2> HIDE DEF s, u, t
  <2>7. task' \in [Requests -> Tasks] /\ WalkersOK'
      BY <1>9, <2>3, <2>4, <2>6, OtherTask
  <2>8. FlowTypes'
      BY <1>2, <1>3, <1>6, <1>9, <2>6, <2>7 DEF FlowTypes
  <2>9. ExecOK'
      BY <2>5, <2>6 DEF FlowInv, ExecOK
  <2>10. RowsOK'
    <3>1. ASSUME NEW m \in Nodes(Graph), Kind(Graph, m) # "start"
          PROVE  calls'[m] <= 1 /\ (rows[m] = "none" => calls'[m] = 0)
      <4>1. m # n /\ m \in Places
          BY <1>1, <2>2, <3>1
      <4> QED BY <1>6, <3>1, <4>1 DEF FlowInv, RowsOK
    <3> QED BY <1>9, <2>6, <3>1 DEF FlowInv, RowsOK
  <2>11. RowsFollowRoutes'
      BY <1>9, <2>5, <2>6 DEF FlowInv, RowsFollowRoutes, Ran
  <2> QED BY <2>7, <2>8, <2>9, <2>10, <2>11 DEF FlowInv
<1> QED BY <1>8, <1>9 DEF WalkNode

(* The end of an execution: every node of the order has its row. *)
LEMMA FinishExecutionKept ==
    ASSUME FlowInv, exec.status # "none", NEW r \in Requests, FinishExecution(r)
    PROVE  FlowInv'
<1> DEFINE t == task[r]
           u == [t EXCEPT !.state = "ended"]
           s == Verdict(r)
<1>1. /\ IsWalk(Graph, Order) /\ Len(Order) \in Nat /\ Len(Order) > 0
      /\ \A i \in 1 .. Len(Order) : Order[i] \in Nodes(Graph)
    BY Walked
<1>2. /\ t \in Tasks /\ exec \in Execs /\ flow \in Seq(Definitions)
      /\ rows \in [Places -> Marks \cup {"none"}] /\ calls \in [Places -> Nat]
    BY DEF FlowInv, FlowTypes
<1>3. /\ t.state = "walking" /\ ~(t.done < Len(Order)) /\ exec' = [exec EXCEPT !.status = s]
      /\ task' = [task EXCEPT ![r].state = "ended"] /\ UNCHANGED <<flow, rows, calls>>
    BY DEF FinishExecution, Unwalked
<1>4. task' = [task EXCEPT ![r] = u]
    BY <1>2, <1>3 DEF FlowInv, FlowTypes
<1>5. u \in Tasks /\ u.state = "ended" /\ s \in {"passed", "failed"}
    BY <1>2 DEF Tasks, Verdict
<1>6. OwnRows(t, rows, Graph, Order) /\ t.done \in Nat
  <2>1. t.done \in Nat
      BY <1>2 DEF Tasks
  <2>2. Leads(t)
      BY <1>1, <1>3, <2>1 DEF Leads
  <2> QED BY <2>1, <2>2 DEF FlowInv, WalkersOK
<1>7. s = "passed" => \A n \in Nodes(Graph) : rows[n] # "none" /\ ~IsFatal(Graph.nodes[n], rows[n])
  <2>1. ASSUME NEW n \in Nodes(Graph) PROVE rows[n] # "none"
    <3>1. PICK i \in 1 .. Len(Order) : Order[i] = n
        BY <1>1, WalkFacts
    <3>2. i <= t.done
        BY <1>1, <1>3, <1>6
    <3> QED BY <1>6, <3>1, <3>2 DEF OwnRows
  <2>2. s = "passed" => ~t.fatal
      BY DEF Verdict
  <2> QED BY <1>6, <2>1, <2>2 DEF OwnRows
<1>8. exec' \in Execs /\ Graph' = Graph /\ Order' = Order /\ exec'.status = s
  <2>1. exec' = [exec EXCEPT !.status = s, !.deleted = exec.deleted] /\ exec.deleted \in BOOLEAN
      BY <1>2, <1>3 DEF Execs
  <2> HIDE DEF s
  <2> QED BY <1>2, <1>5, <2>1, ExecFields
<1> HIDE DEF s, u, t
<1>9. task' \in [Requests -> Tasks] /\ WalkersOK'
    BY <1>3, <1>4, <1>5, <1>8, OtherTask
<1>10. ExecOK' /\ RowsOK' /\ RowsFollowRoutes'
    BY <1>3, <1>5, <1>7, <1>8, RowsUntouched
<1>11. FlowTypes'
    BY <1>2, <1>3, <1>8, <1>9 DEF FlowTypes
<1> QED BY <1>9, <1>10, <1>11 DEF FlowInv

(* A task that is taken, starts or fails before it walks.                    *)
LEMMA TaskMoves ==
    ASSUME FlowInv, exec.status # "none", NEW r \in Requests, NEW t \in Tasks,
           task' = [task EXCEPT ![r] = t],
           t.state # "walking" \/ t = [NoTask EXCEPT !.state = "walking"],
           NEW s \in {"queued", "running", "passed", "failed"}, exec' = [exec EXCEPT !.status = s],
           s = "passed" => exec.status = "passed",
           UNCHANGED <<flow, rows, calls>>
    PROVE  FlowInv'
<1>1. /\ exec \in Execs /\ flow \in Seq(Definitions)
      /\ rows \in [Places -> Marks \cup {"none"}] /\ calls \in [Places -> Nat]
    BY DEF FlowInv, FlowTypes
<1>2. exec' \in Execs /\ Graph' = Graph /\ Order' = Order /\ exec'.status = s
  <2>1. exec' = [exec EXCEPT !.status = s, !.deleted = exec.deleted] /\ exec.deleted \in BOOLEAN
      BY <1>1 DEF Execs
  <2> QED BY <1>1, <2>1, ExecFields
<1>3. task' \in [Requests -> Tasks] /\ WalkersOK'
    BY <1>2, OtherTask
<1>4. s = "passed" => \A n \in Nodes(Graph) : rows[n] # "none" /\ ~IsFatal(Graph.nodes[n], rows[n])
    BY DEF FlowInv, RowsFollowRoutes
<1>5. ExecOK' /\ RowsOK' /\ RowsFollowRoutes'
    BY <1>2, <1>4, RowsUntouched
<1>6. FlowTypes'
    BY <1>1, <1>2, <1>3 DEF FlowTypes
<1> QED BY <1>3, <1>5, <1>6 DEF FlowInv

(* An unchanged execution is one whose status is set to what it was. *)
LEMMA StatusStays ==
    ASSUME exec \in Execs, UNCHANGED exec PROVE exec' = [exec EXCEPT !.status = exec.status]
BY DEF Execs

(* A task keeps its type when it moves on. *)
LEMMA TaskState ==
    ASSUME FlowInv, NEW r \in Requests,
           NEW s \in {"none", "queued", "refused", "taken", "walking", "ended"},
           task' = [task EXCEPT ![r].state = s]
    PROVE  \E t \in Tasks : t.state = s /\ task' = [task EXCEPT ![r] = t]
<1> DEFINE t == [task[r] EXCEPT !.state = s]
<1>1. task \in [Requests -> Tasks] /\ task[r] \in Tasks
    BY DEF FlowInv, FlowTypes
<1>2. t \in Tasks /\ t.state = s /\ task' = [task EXCEPT ![r] = t]
    BY <1>1 DEF Tasks
<1> QED BY <1>2

(* No step of a task breaks FlowInv. *)
LEMMA TaskStepKept ==
    ASSUME FlowInv, NEW r \in Requests, TaskStep(r)
    PROVE  FlowInv'
<1>1. exec.status # "none"
  <2>1. task[r].state # "none"
      BY DEF TaskStep, TakeTask, StartExecution, FailValidation, FinishExecution, WalkNode
  <2> QED BY <2>1 DEF FlowInv, ExecOK
<1>2. exec \in Execs /\ exec.status \in {"queued", "running", "passed", "failed"}
    BY <1>1 DEF FlowInv, FlowTypes, Execs
<1>3. CASE TakeTask(r)
  <2>1. PICK state \in {"taken", "ended"} : task' = [task EXCEPT ![r].state = state]
      BY <1>3 DEF TakeTask
  <2>2. PICK t \in Tasks : t.state = state /\ task' = [task EXCEPT ![r] = t]
    <3>1. state \in {"none", "queued", "refused", "taken", "walking", "ended"}
        OBVIOUS
    <3> QED BY <2>1, <3>1, TaskState
  <2>3. UNCHANGED exec \/ exec' = [exec EXCEPT !.status = "failed"]
      BY <1>3 DEF TakeTask
  <2>4. UNCHANGED <<flow, rows, calls>>
      BY <1>3 DEF TakeTask
  <2> QED BY <1>1, <1>2, <2>1, <2>2, <2>3, <2>4, StatusStays, TaskMoves
<1>4. CASE StartExecution(r)
  <2> DEFINE t == [NoTask EXCEPT !.state = "walking"]
  <2>1. t \in Tasks
      BY DEF NoTask, Tasks
  <2>2. /\ task' = [task EXCEPT ![r] = t] /\ exec' = [exec EXCEPT !.status = "running"]
        /\ UNCHANGED <<flow, rows, calls>>
      BY <1>4 DEF StartExecution
  <2> HIDE DEF t
  <2>3. t = [NoTask EXCEPT !.state = "walking"]
      BY DEF t
  <2> QED BY <1>1, <2>1, <2>2, <2>3, TaskMoves
<1>5. CASE FailValidation(r)
  <2>1. task' = [task EXCEPT ![r].state = "ended"]
      BY <1>5 DEF FailValidation, Fail
  <2>2. PICK t \in Tasks : t.state = "ended" /\ task' = [task EXCEPT ![r] = t]
      BY <2>1, TaskState
  <2> DEFINE s == IF exec.status \in Terminal THEN exec.status ELSE "failed"
  <2>3. exec' = [exec EXCEPT !.status = s] /\ UNCHANGED <<flow, rows, calls>>
      BY <1>5 DEF FailValidation, Fail
  <2>4. s \in {"queued", "running", "passed", "failed"} /\ (s = "passed" => exec.status = "passed")
      BY DEF Terminal
  <2> HIDE DEF s
  <2> QED BY <1>1, <2>2, <2>3, <2>4, TaskMoves
<1>6. CASE FinishExecution(r)
    BY <1>1, <1>6, FinishExecutionKept
<1>7. ASSUME NEW outcome \in {"passed", "failed", "error", "true", "false", "skipped"}, WalkNode(r, outcome)
      PROVE  FlowInv'
  <2>1. outcome \in Marks
      BY DEF Marks
  <2> QED BY <1>1, <1>7, <2>1, WalkNodeKept
<1> QED BY <1>3, <1>4, <1>5, <1>6, <1>7 DEF TaskStep

(* A request for an execution that exists, or that makes it.                 *)
LEMMA ExecuteSavedFlowKept ==
    ASSUME FlowInv, NEW r \in Requests, ExecuteSavedFlow(r)
    PROVE  FlowInv'
<1>1. PICK state \in {"queued", "refused"} : task' = [task EXCEPT ![r].state = state]
    BY DEF ExecuteSavedFlow, Accept
<1>2. PICK t \in Tasks : t.state = state /\ task' = [task EXCEPT ![r] = t]
  <2>1. state \in {"none", "queued", "refused", "taken", "walking", "ended"}
      OBVIOUS
  <2> QED BY <1>1, <2>1, TaskState
<1>3. UNCHANGED <<flow, rows, calls>>
    BY DEF ExecuteSavedFlow
<1>4. /\ exec \in Execs /\ flow \in Seq(Definitions) /\ task \in [Requests -> Tasks]
      /\ rows \in [Places -> Marks \cup {"none"}] /\ calls \in [Places -> Nat]
    BY DEF FlowInv, FlowTypes
<1>5. CASE exec.status # "none" /\ UNCHANGED exec
  <2>1. exec.status \in {"queued", "running", "passed", "failed"}
      BY <1>4, <1>5 DEF Execs
  <2> QED BY <1>1, <1>2, <1>3, <1>4, <1>5, <2>1, StatusStays, TaskMoves
<1>6. CASE /\ exec.status = "none" /\ Current > 0
           /\ exec' = [status |-> "queued", graph |-> flow[Current],
                       order |-> TopologicalOrder(flow[Current]), deleted |-> FALSE]
  <2> DEFINE g == flow[Current]
  <2>1. g \in Definitions
      BY <1>4, <1>6 DEF Current
  <2> HIDE DEF g
  <2>2. exec' = [status |-> "queued", graph |-> g, order |-> TopologicalOrder(g), deleted |-> FALSE]
      BY <1>6 DEF g
  <2>3. exec' \in Execs
      BY <2>1, <2>2 DEF Execs
  <2>4. exec'.status = "queued" /\ Graph' = g /\ Order' = TopologicalOrder(g)
      BY <2>2 DEF Graph, Order
  <2>5. \A n \in Places : rows[n] = "none" /\ calls[n] = 0
      BY <1>6 DEF FlowInv, ExecOK
  <2>6. Nodes(g) \subseteq Places
      BY <2>1, FlowAssumption
  <2>7. task' \in [Requests -> Tasks] /\ \A q \in Requests : task'[q].state # "walking"
      BY <1>1, <1>2, <1>4, <1>6 DEF FlowInv, ExecOK
  <2>8. FlowTypes'
      BY <1>3, <1>4, <2>3, <2>7 DEF FlowTypes
  <2>9. ExecOK'
      BY <2>1, <2>4 DEF ExecOK
  <2>10. WalkersOK'
      BY <2>7 DEF WalkersOK, Leads
  <2>11. RowsOK'
      BY <1>3, <2>4, <2>5, <2>6 DEF RowsOK
  <2>12. RowsFollowRoutes'
      BY <1>3, <2>4, <2>5, <2>6 DEF RowsFollowRoutes
  <2> QED BY <2>8, <2>9, <2>10, <2>11, <2>12 DEF FlowInv
<1> QED BY <1>5, <1>6 DEF ExecuteSavedFlow

(* Editing and deleting the flow leave the execution its definition.         *)
LEMMA EditsKept ==
    ASSUME FlowInv, UNCHANGED <<rows, calls, task>>, flow' \in Seq(Definitions),
           \/ UNCHANGED exec
           \/ exec' = [exec EXCEPT !.deleted = exec.status # "none"]
    PROVE  FlowInv'
<1>1. exec \in Execs
    BY DEF FlowInv, FlowTypes
<1>2. exec' \in Execs /\ exec'.status = exec.status /\ Graph' = Graph /\ Order' = Order
    BY <1>1 DEF Execs, Graph, Order
<1>3. FlowTypes'
    BY <1>2 DEF FlowInv, FlowTypes
<1>4. ExecOK'
    BY <1>2 DEF FlowInv, ExecOK
<1>5. WalkersOK'
    BY <1>2 DEF FlowInv, WalkersOK
<1>6. RowsOK'
    BY <1>2 DEF FlowInv, RowsOK
<1>7. RowsFollowRoutes'
    BY <1>2 DEF FlowInv, RowsFollowRoutes, Ran
<1> QED BY <1>3, <1>4, <1>5, <1>6, <1>7 DEF FlowInv

(* No step of a flow breaks FlowInv. *)
LEMMA NextFlowInv == ASSUME FlowInv, [Next]_vars PROVE FlowInv'
<1>1. flow \in Seq(Definitions)
    BY DEF FlowInv, FlowTypes
<1>2. CASE UNCHANGED vars
    BY <1>1, <1>2, EditsKept DEF vars
<1>3. CASE LoadFlow
    BY <1>1, <1>3, EditsKept DEF LoadFlow
<1>4. ASSUME NEW g \in Definitions, UpdateFlow(g) PROVE FlowInv'
  <2>1. flow' \in Seq(Definitions)
      BY <1>1, <1>4 DEF UpdateFlow
  <2> QED BY <1>4, <2>1, EditsKept DEF UpdateFlow
<1>5. CASE DeleteFlow
  <2>1. flow' \in Seq(Definitions)
      BY <1>5 DEF DeleteFlow
  <2> QED BY <1>5, <2>1, EditsKept DEF DeleteFlow
<1>6. ASSUME NEW r \in Requests, ExecuteSavedFlow(r) \/ TaskStep(r) PROVE FlowInv'
    BY <1>6, ExecuteSavedFlowKept, TaskStepKept
<1> QED BY <1>2, <1>3, <1>4, <1>5, <1>6 DEF Next

(* The initial states satisfy FlowInv. *)
LEMMA InitFlowInv == Init => FlowInv
<1> SUFFICES ASSUME Init PROVE FlowInv
    OBVIOUS
<1>1. exec \in Execs /\ exec.status = "none"
    BY DEF Init, Execs
<1>2. flow \in Seq(Definitions) /\ rows \in [Places -> Marks \cup {"none"}] /\ calls \in [Places -> Nat]
    BY DEF Init
<1>3. NoTask \in Tasks /\ NoTask.state = "none"
    BY DEF NoTask, Tasks
<1>4. task \in [Requests -> Tasks] /\ \A r \in Requests : task[r].state = "none"
    BY <1>3 DEF Init
<1>5. ExecOK
    BY <1>1, <1>4 DEF Init, ExecOK
<1>6. WalkersOK /\ RowsOK /\ RowsFollowRoutes
    BY <1>1, <1>4 DEF WalkersOK, RowsOK, RowsFollowRoutes, Leads
<1> QED BY <1>1, <1>2, <1>4, <1>5, <1>6 DEF FlowInv, FlowTypes

(* Whatever the definitions are, however many requests repeat the key and    *)
(* whatever is edited or deleted meanwhile.                                  *)
THEOREM FlowInvariance == Spec => []FlowInv
<1>1. Init => FlowInv
    BY InitFlowInv
<1>2. FlowInv /\ [Next]_vars => FlowInv'
    BY NextFlowInv
<1> QED BY <1>1, <1>2, PTL DEF Spec

(* No node past the start is executed twice.                                 *)
THEOREM NodesOnce == Spec => []NodeCalledOnce
<1>1. FlowInv => NodeCalledOnce
    BY DEF FlowInv, RowsOK, NodeCalledOnce
<1> QED BY <1>1, FlowInvariance, PTL

(* The rows of an execution tell one walk along the routes it took.          *)
THEOREM RoutesFollowed == Spec => []RowsFollowRoutes
<1>1. FlowInv => RowsFollowRoutes
    BY DEF FlowInv
<1> QED BY <1>1, FlowInvariance, PTL
=============================================================================
