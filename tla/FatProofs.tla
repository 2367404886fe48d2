----------------------------- MODULE FatProofs -----------------------------
(***************************************************************************)
(* Proofs about Fat, FatDir and FatNames.  FatInv sees the directory as     *)
(* `Items': for every entry the name, start and size its file has now,      *)
(* which a writer keeps in its file_t until close.  In the table every      *)
(* named item starts a chain of its own: nothing points at its start, and   *)
(* no two clusters point at the same one (Trees); every part below a size   *)
(* has a cluster that was written as that part (Parts); every open file is  *)
(* at the cluster of its position (Fits).                                   *)
(***************************************************************************)
EXTENDS FatDir, FatNames, FiniteSetTheorems, WellFoundedInduction, TLAPS

-----------------------------------------------------------------------------
(* Numbers.                                                                 *)

(* A set of naturals that is not empty has a least element.                 *)
LEMMA MinExists ==
  ASSUME NEW S, S \subseteq Nat, S # {}
  PROVE  Min(S) \in S /\ \A y \in S : Min(S) <= y
<1> DEFINE less == OpToRel(<, Nat)
<1>1. PICK x \in S : \A y \in S : ~ (<<y, x>> \in less)
  BY WFMin, NatLessThanWellFounded
<1>2. \A y \in Nat, z \in Nat : y < z => <<y, z>> \in less
  BY DEF OpToRel
<1> HIDE DEF less
<1>3. ASSUME NEW y \in S
      PROVE  x <= y
  <2>1. y \in Nat /\ x \in Nat /\ ~ (y < x)
    BY <1>1, <1>2
  <2> QED  BY <2>1
<1> QED  BY <1>3 DEF Min

(* A bounded set of naturals that is not empty has a greatest element.      *)
LEMMA MaxExists ==
  ASSUME NEW S, S \subseteq Nat, S # {}, NEW b \in Nat, \A y \in S : y <= b
  PROVE  Max(S) \in S /\ \A y \in S : y <= Max(S)
<1> DEFINE U == {u \in Nat : \A y \in S : y <= u}
<1>1. Min(U) \in U /\ \A u \in U : Min(U) <= u
  BY MinExists
<1>2. PICK m \in Nat : (\A y \in S : y <= m) /\ \A u \in Nat : (\A y \in S : y <= u) => m <= u
  BY <1>1
<1>3. m \in S
  <2> SUFFICES ASSUME m \notin S PROVE FALSE
    OBVIOUS
  <2>1. \A y \in S : y <= m - 1 /\ y \in Nat
    BY <1>2
  <2>2. m - 1 \in Nat
    <3>1. PICK y \in S : y <= m - 1 /\ y \in Nat
      BY <2>1
    <3> QED  BY <3>1
  <2> QED  BY <1>2, <2>1, <2>2
<1>4. m \in S /\ \A y \in S : m >= y
  BY <1>2, <1>3
<1>5. Max(S) \in S /\ \A y \in S : Max(S) >= y
  BY <1>4 DEF Max
<1> QED  BY <1>5

(* A set that has 0, and with every number the next, has all numbers.  It   *)
(* stands for induction, which the provers have only over predicates.       *)
LEMMA SetInduction ==
  ASSUME NEW S, 0 \in S, \A k \in Nat : k \in S => k + 1 \in S
  PROVE  Nat \subseteq S
<1> DEFINE T == Nat \ S
<1>1. SUFFICES ASSUME T # {} PROVE FALSE
  OBVIOUS
<1>2. Min(T) \in T /\ \A y \in T : Min(T) <= y
  BY <1>1, MinExists
<1>3. PICK k \in Nat : k \notin S /\ \A y \in T : k <= y
  BY <1>2
<1>4. k # 0
  BY <1>3
<1>5. k - 1 \in Nat /\ (k - 1) + 1 = k
  BY <1>3, <1>4
<1>6. k - 1 \notin T
  BY <1>3, <1>5
<1> QED  BY <1>3, <1>5, <1>6

-----------------------------------------------------------------------------
(* Chains.                                                                  *)

(* The recursive function in ChainAt exists: its restrictions do, and they  *)
(* agree.                                                                   *)
IsRun(g, nx, c, n) == g = [k \in 0 .. n |-> IF k = 0 THEN c ELSE GetNext(nx, g[k - 1])]

(* What a run is, element by element.                                       *)
LEMMA RunElements ==
  ASSUME NEW g, NEW nx, NEW c, NEW n \in Nat, IsRun(g, nx, c, n)
  PROVE  g[0] = c /\ \A k \in 1 .. n : g[k] = GetNext(nx, g[k - 1])
<1>1. \A k \in 0 .. n : g[k] = IF k = 0 THEN c ELSE GetNext(nx, g[k - 1])
  BY DEF IsRun
<1>2. 0 \in 0 .. n /\ \A k \in 1 .. n : k \in 0 .. n /\ k # 0
  OBVIOUS
<1> QED  BY <1>1, <1>2

(* A chain can be followed for any number of steps.                         *)
LEMMA RunExists ==
  ASSUME NEW nx, NEW c, NEW n \in Nat
  PROVE  \E g : IsRun(g, nx, c, n)
<1> DEFINE S == {k \in Nat : \E g : IsRun(g, nx, c, k)}
<1>1. 0 \in S
  <2> DEFINE g == [k \in 0 .. 0 |-> c]
  <2>1. IsRun(g, nx, c, 0)
    <3>1. \A k \in 0 .. 0 : k = 0
      OBVIOUS
    <3> QED  BY <3>1 DEF IsRun
  <2> QED  BY <2>1
<1>2. ASSUME NEW k \in Nat, k \in S
      PROVE  k + 1 \in S
  <2>1. PICK g : IsRun(g, nx, c, k)
    BY <1>2
  <2>2. g[0] = c /\ \A l \in 1 .. k : g[l] = GetNext(nx, g[l - 1])
    BY <2>1, RunElements
  <2> DEFINE e == GetNext(nx, g[k])
             h == [l \in 0 .. k + 1 |-> IF l = k + 1 THEN e ELSE g[l]]
             o == [l \in 0 .. k + 1 |-> IF l = 0 THEN c ELSE GetNext(nx, h[l - 1])]
  <2>3. \A l \in 0 .. k : h[l] = g[l]
    OBVIOUS
  <2>4. h[k + 1] = e
    OBVIOUS
  <2>5. ASSUME NEW l \in 0 .. k + 1
        PROVE  h[l] = o[l]
    <3>1. o[l] = IF l = 0 THEN c ELSE GetNext(nx, h[l - 1])
      OBVIOUS
    <3> HIDE DEF h, o
    <3>2. CASE l = k + 1
      <4>1. l # 0 /\ l - 1 = k /\ k \in 0 .. k
        BY <3>2
      <4>2. h[l - 1] = g[k]
        BY <2>3, <4>1
      <4> QED  BY <2>4, <3>1, <3>2, <4>1, <4>2
    <3>3. CASE l # k + 1
      <4>1. l \in 0 .. k /\ (l # 0 => l \in 1 .. k /\ l - 1 \in 0 .. k)
        BY <3>3
      <4>2. h[l] = g[l] /\ (l # 0 => h[l - 1] = g[l - 1])
        BY <2>3, <4>1
      <4> QED  BY <2>2, <3>1, <4>1, <4>2
    <3> QED  BY <3>2, <3>3
  <2>6. h = o
    <3>1. h = [l \in 0 .. k + 1 |-> h[l]] /\ o = [l \in 0 .. k + 1 |-> o[l]]
      OBVIOUS
    <3> HIDE DEF h, o
    <3> QED  BY <2>5, <3>1
  <2>7. IsRun(h, nx, c, k + 1)
    <3>1. h = [l \in 0 .. k + 1 |-> IF l = 0 THEN c ELSE GetNext(nx, h[l - 1])]
      BY <2>6
    <3> HIDE DEF h
    <3> QED  BY <3>1 DEF IsRun
  <2> HIDE DEF h
  <2> QED  BY <2>7
<1> HIDE DEF S
<1>3. Nat \subseteq S
  BY <1>1, <1>2, SetInduction
<1>4. n \in S
  BY <1>3
<1> QED  BY <1>4 DEF S

(* A longer run begins with the shorter one.                                *)
LEMMA RunsAgree ==
  ASSUME NEW nx, NEW c, NEW n \in Nat, NEW m \in Nat, n <= m, NEW g, NEW h,
         IsRun(g, nx, c, n), IsRun(h, nx, c, m)
  PROVE  g[n] = h[n]
<1> DEFINE S == {k \in Nat : k <= n => g[k] = h[k]}
<1>1. /\ g[0] = c /\ \A k \in 1 .. n : g[k] = GetNext(nx, g[k - 1])
      /\ h[0] = c /\ \A k \in 1 .. m : h[k] = GetNext(nx, h[k - 1])
  BY RunElements
<1>2. 0 \in S
  BY <1>1
<1>3. ASSUME NEW k \in Nat, k \in S
      PROVE  k + 1 \in S
  <2> SUFFICES ASSUME k + 1 <= n PROVE g[k + 1] = h[k + 1]
    OBVIOUS
  <2>1. k + 1 \in 1 .. n /\ k + 1 \in 1 .. m /\ (k + 1) - 1 = k
    OBVIOUS
  <2>2. g[k] = h[k]
    BY <1>3
  <2>3. g[k + 1] = GetNext(nx, g[k]) /\ h[k + 1] = GetNext(nx, h[k])
    BY <1>1, <2>1
  <2> QED  BY <2>2, <2>3
<1> HIDE DEF S
<1>4. Nat \subseteq S
  BY <1>2, <1>3, SetInduction
<1>5. n \in S
  BY <1>4
<1> QED  BY <1>5 DEF S

(* The first cluster of a chain is its start; the one after a cluster is    *)
(* what the table says (cluster_get_next).                                  *)
LEMMA ChainSteps ==
  ASSUME NEW nx, NEW c
  PROVE  /\ ChainAt(nx, c, 0) = c
         /\ \A k \in Nat : ChainAt(nx, c, k + 1) = GetNext(nx, ChainAt(nx, c, k))
<1> DEFINE run(k) == CHOOSE g : IsRun(g, nx, c, k)
           whole == [k \in Nat |-> run(k)[k]]
           step(f) == [j \in Nat |-> IF j = 0 THEN c ELSE GetNext(nx, f[j - 1])]
           at == CHOOSE f : f = step(f)
<1>1. \A k \in Nat : IsRun(run(k), nx, c, k)
  BY RunExists
<1>2. \A k \in Nat : whole[k] = run(k)[k]
  OBVIOUS
<1>3. ASSUME NEW k \in Nat
      PROVE  whole[k] = IF k = 0 THEN c ELSE GetNext(nx, whole[k - 1])
  <2> HIDE DEF whole, run
  <2>1. /\ run(k)[0] = c
        /\ \A l \in 1 .. k : run(k)[l] = GetNext(nx, run(k)[l - 1])
    BY <1>1, RunElements
  <2>2. CASE k = 0
    BY <1>2, <2>1, <2>2
  <2>3. CASE k # 0
    <3>1. k \in 1 .. k /\ k - 1 \in Nat /\ k - 1 <= k
      BY <2>3
    <3>2. run(k - 1)[k - 1] = run(k)[k - 1]
      BY <1>1, <3>1, RunsAgree
    <3>3. whole[k - 1] = run(k)[k - 1] /\ whole[k] = run(k)[k]
      BY <1>2, <3>1, <3>2
    <3> QED  BY <2>1, <2>3, <3>1, <3>3
  <2> QED  BY <2>2, <2>3
<1>4. whole = step(whole)
  <2>1. whole = [k \in Nat |-> whole[k]]
    OBVIOUS
  <2> HIDE DEF whole
  <2> QED  BY <1>3, <2>1
<1> HIDE DEF whole
<1>5. at = step(at)
  BY <1>4
<1>6. \A k : ChainAt(nx, c, k) = at[k]
  BY DEF ChainAt
<1> HIDE DEF at
<1>7. \A k \in Nat : at[k] = IF k = 0 THEN c ELSE GetNext(nx, at[k - 1])
  BY <1>5
<1>8. at[0] = c
  BY <1>7
<1>9. \A k \in Nat : k + 1 \in Nat /\ k + 1 # 0 /\ (k + 1) - 1 = k
  OBVIOUS
<1> QED  BY <1>6, <1>7, <1>8, <1>9

(* A table in which no two clusters have the same successor and no          *)
(* successor is free; a start no cluster leads to.                          *)
Link == Cluster \cup {FREE, INVALID}
IsTable(nx) ==
  /\ nx \in [Cluster -> Link]
  /\ \A c, d \in Cluster : nx[c] \in Cluster /\ nx[c] = nx[d] => c = d
  /\ \A c \in Cluster : nx[c] \in Cluster => nx[nx[c]] # FREE
Root(nx, c) == c \in Cluster /\ nx[c] # FREE /\ \A d \in Cluster : nx[d] # c
Rooted(nx, c) == c = INVALID \/ Root(nx, c)

(* Clusters are numbered from 2, the markers are not clusters.              *)
LEMMA Clusters ==
  /\ Cluster \subseteq Nat /\ \A c \in Cluster : c <= NCluster + 1
  /\ FREE \notin Cluster /\ INVALID \notin Cluster /\ FREE # INVALID
  /\ NCluster \in Nat /\ NCluster + 1 \in Nat
  /\ IsFiniteSet(Cluster) /\ Cardinality(Cluster) = NCluster
<1>1. NCluster \in Nat \ {0}
  BY FatAssumption
<1>2. IsFiniteSet(2 .. NCluster + 1) /\ Cardinality(2 .. NCluster + 1) = NCluster
  <2>1. 2 \in Int /\ NCluster + 1 \in Int /\ ~ 2 > NCluster + 1 /\ (NCluster + 1) - 2 + 1 = NCluster
    BY <1>1
  <2> QED  BY <2>1, FS_Interval
<1> QED  BY <1>1, <1>2 DEF Cluster, FREE, INVALID

(* A chain that has ended goes on nowhere.                                  *)
LEMMA NextOf ==
  ASSUME NEW nx, IsTable(nx), NEW c
  PROVE  /\ GetNext(nx, c) \in Link
         /\ c \in Cluster => GetNext(nx, c) = nx[c]
         /\ c \notin Cluster => GetNext(nx, c) = INVALID
         /\ GetNext(nx, c) \in Cluster => c \in Cluster /\ nx[c] = GetNext(nx, c)
BY Clusters DEF GetNext, IsTable, Link

(* A chain from a start no cluster leads to has clusters in use, then ends. *)
LEMMA ChainType ==
  ASSUME NEW nx, IsTable(nx), NEW c, Rooted(nx, c)
  PROVE  \A k \in Nat : /\ ChainAt(nx, c, k) \in Cluster \cup {INVALID}
                        /\ ChainAt(nx, c, k) \in Cluster => nx[ChainAt(nx, c, k)] # FREE
<1> DEFINE good(d) == d \in Cluster \cup {INVALID} /\ (d \in Cluster => nx[d] # FREE)
           S == {k \in Nat : good(ChainAt(nx, c, k))}
<1>1. 0 \in S
  <2>1. good(c)
    BY Clusters DEF Rooted, Root
  <2> QED  BY <2>1, ChainSteps
<1>2. ASSUME NEW k \in Nat, k \in S
      PROVE  k + 1 \in S
  <2>1. good(ChainAt(nx, c, k)) /\ ChainAt(nx, c, k + 1) = GetNext(nx, ChainAt(nx, c, k))
    BY <1>2, ChainSteps
  <2> DEFINE d == ChainAt(nx, c, k)
  <2> HIDE DEF d
  <2>2. ASSUME good(d)
        PROVE  good(GetNext(nx, d))
    BY <2>2, NextOf, Clusters DEF IsTable, Link
  <2>3. good(ChainAt(nx, c, k + 1))
    BY <2>1, <2>2 DEF d
  <2> HIDE DEF good
  <2> QED  BY <2>3
<1> HIDE DEF S
<1>3. Nat \subseteq S
  BY <1>1, <1>2, SetInduction
<1> QED  BY <1>3 DEF S

(* Chains from two such starts never meet, and one never meets itself.      *)
LEMMA ChainsMeet ==
  ASSUME NEW nx, IsTable(nx), NEW c, NEW d, Rooted(nx, c), Rooted(nx, d),
         NEW i \in Nat, NEW j \in Nat,
         ChainAt(nx, c, i) \in Cluster, ChainAt(nx, c, i) = ChainAt(nx, d, j)
  PROVE  i = j /\ c = d
<1> DEFINE meet(k, l) == ChainAt(nx, c, k) \in Cluster /\ ChainAt(nx, c, k) = ChainAt(nx, d, l)
           S == {k \in Nat : \A l \in Nat : meet(k, l) => k = l /\ c = d}
<1>0. /\ ChainAt(nx, c, 0) = c /\ ChainAt(nx, d, 0) = d
      /\ \A k \in Nat : ChainAt(nx, c, k + 1) = GetNext(nx, ChainAt(nx, c, k))
      /\ \A k \in Nat : ChainAt(nx, d, k + 1) = GetNext(nx, ChainAt(nx, d, k))
  BY ChainSteps
<1>a. \A l \in Nat : l # 0 => l - 1 \in Nat /\ (l - 1) + 1 = l
  OBVIOUS
<1>1. 0 \in S
  <2> SUFFICES ASSUME NEW l \in Nat, meet(0, l) PROVE 0 = l /\ c = d
    OBVIOUS
  <2>1. CASE l = 0
    BY <1>0, <2>1
  <2>2. CASE l # 0
    <3>1. c \in Cluster /\ c = GetNext(nx, ChainAt(nx, d, l - 1))
      BY <1>0, <1>a, <2>2
    <3>2. ChainAt(nx, d, l - 1) \in Cluster /\ nx[ChainAt(nx, d, l - 1)] = c
      BY <3>1, NextOf
    <3> QED  BY <3>1, <3>2, Clusters DEF Rooted, Root
  <2> QED  BY <2>1, <2>2
<1>2. ASSUME NEW k \in Nat, k \in S
      PROVE  k + 1 \in S
  <2> SUFFICES ASSUME NEW l \in Nat, meet(k + 1, l) PROVE k + 1 = l /\ c = d
    OBVIOUS
  <2>1. /\ GetNext(nx, ChainAt(nx, c, k)) \in Cluster
        /\ ChainAt(nx, c, k + 1) = GetNext(nx, ChainAt(nx, c, k))
    BY <1>0
  <2>2. ChainAt(nx, c, k) \in Cluster /\ nx[ChainAt(nx, c, k)] = ChainAt(nx, c, k + 1)
    BY <2>1, NextOf
  <2>3. CASE l = 0
    BY <1>0, <2>1, <2>2, <2>3, Clusters DEF Rooted, Root
  <2>4. CASE l # 0
    <3>1. ChainAt(nx, d, l) = GetNext(nx, ChainAt(nx, d, l - 1)) /\ l - 1 \in Nat
      BY <1>0, <1>a, <2>4
    <3>2. ChainAt(nx, d, l - 1) \in Cluster /\ nx[ChainAt(nx, d, l - 1)] = ChainAt(nx, c, k + 1)
      BY <3>1, <2>1, NextOf
    <3>3. ChainAt(nx, d, l - 1) = ChainAt(nx, c, k)
      BY <2>1, <2>2, <3>2 DEF IsTable
    <3>4. k = l - 1 /\ c = d
      BY <1>2, <2>2, <3>1, <3>3
    <3> QED  BY <3>4
  <2> QED  BY <2>3, <2>4
<1> HIDE DEF S
<1>3. Nat \subseteq S
  BY <1>1, <1>2, SetInduction
<1>4. i \in S
  BY <1>3
<1> QED  BY <1>4 DEF S

(* Before a cluster of a chain there are only clusters.                     *)
LEMMA ChainPrefix ==
  ASSUME NEW nx, NEW c, NEW k \in Nat, ChainAt(nx, c, k) \in Cluster,
         NEW j \in Nat, j <= k
  PROVE  ChainAt(nx, c, j) \in Cluster
<1> DEFINE S == {n \in Nat : ChainAt(nx, c, n) \in Cluster =>
                               \A l \in 0 .. n : ChainAt(nx, c, l) \in Cluster}
<1>1. 0 \in S
  <2>1. \A l \in 0 .. 0 : l = 0
    OBVIOUS
  <2> QED  BY <2>1
<1>2. ASSUME NEW n \in Nat, n \in S
      PROVE  n + 1 \in S
  <2> SUFFICES ASSUME ChainAt(nx, c, n + 1) \in Cluster, NEW l \in 0 .. n + 1
               PROVE  ChainAt(nx, c, l) \in Cluster
    OBVIOUS
  <2>1. ChainAt(nx, c, n) \in Cluster
    BY ChainSteps, Clusters DEF GetNext
  <2>2. l \in 0 .. n \/ l = n + 1
    OBVIOUS
  <2> QED  BY <1>2, <2>1, <2>2
<1> HIDE DEF S
<1>3. Nat \subseteq S
  BY <1>1, <1>2, SetInduction
<1>4. k \in S /\ j \in 0 .. k
  BY <1>3
<1> QED  BY <1>4 DEF S

(* A chain is as long as it has clusters: clusters up to its length, its    *)
(* end from there on.                                                       *)
LEMMA ChainShort ==
  ASSUME NEW nx, IsTable(nx), NEW c, Rooted(nx, c)
  PROVE  \E n \in 0 .. NCluster :
           /\ \A k \in 0 .. n - 1 : ChainAt(nx, c, k) \in Cluster
           /\ \A k \in Nat : k >= n => ChainAt(nx, c, k) = INVALID
<1> DEFINE E == {k \in Nat : ChainAt(nx, c, k) \notin Cluster}
           f == [k \in 0 .. NCluster |-> ChainAt(nx, c, k)]
<1>1. \E k \in 0 .. NCluster : ChainAt(nx, c, k) \notin Cluster
  <2> SUFFICES ASSUME \A k \in 0 .. NCluster : ChainAt(nx, c, k) \in Cluster PROVE FALSE
    OBVIOUS
  <2>1. f \in [0 .. NCluster -> Cluster]
    OBVIOUS
  <2>2. IsFiniteSet(0 .. NCluster) /\ Cardinality(0 .. NCluster) = NCluster + 1
    <3>1. 0 \in Int /\ NCluster \in Int /\ ~ 0 > NCluster /\ NCluster - 0 + 1 = NCluster + 1
      BY Clusters
    <3> QED  BY <3>1, FS_Interval
  <2>3. IsFiniteSet(Cluster) /\ Cardinality(Cluster) < Cardinality(0 .. NCluster)
    BY <2>2, Clusters
  <2> DEFINE T == Cluster
             D == 0 .. NCluster
  <2>4. \E x, y \in D : x # y /\ f[x] = f[y]
    <3>1. f \in [D -> T] /\ IsFiniteSet(D) /\ IsFiniteSet(T) /\ Cardinality(T) < Cardinality(D)
      BY <2>1, <2>2, <2>3
    <3> HIDE DEF f, T, D
    <3> QED  BY <3>1, FS_PigeonHole
  <2>5. PICK x \in 0 .. NCluster, y \in 0 .. NCluster : x # y /\ f[x] = f[y]
    BY <2>4
  <2>6. x \in Nat /\ y \in Nat /\ ChainAt(nx, c, x) = ChainAt(nx, c, y) /\ ChainAt(nx, c, x) \in Cluster
    BY <2>5
  <2> QED  BY <2>5, <2>6, ChainsMeet
<1>2. PICK b \in 0 .. NCluster : ChainAt(nx, c, b) \notin Cluster
  BY <1>1
<1>3. Min(E) \in E /\ \A y \in E : Min(E) <= y
  <2>1. E \subseteq Nat /\ b \in E
    BY <1>2
  <2> QED  BY <2>1, MinExists
<1>4. PICK n \in Nat : ChainAt(nx, c, n) \notin Cluster /\ \A y \in Nat : ChainAt(nx, c, y) \notin Cluster => n <= y
  BY <1>3
<1>5. n \in 0 .. NCluster
  <2>1. n <= b /\ b \in Nat /\ b <= NCluster
    BY <1>2, <1>4
  <2> QED  BY <2>1, <1>4, Clusters
<1>6. ASSUME NEW k \in 0 .. n - 1
      PROVE  ChainAt(nx, c, k) \in Cluster
  <2>1. k \in Nat /\ ~ n <= k
    BY <1>4
  <2> QED  BY <2>1, <1>4
<1>7. ASSUME NEW k \in Nat, k >= n
      PROVE  ChainAt(nx, c, k) = INVALID
  <2>1. ChainAt(nx, c, k) \notin Cluster
    BY <1>4, <1>7, ChainPrefix
  <2> QED  BY <2>1, ChainType
<1> QED  BY <1>5, <1>6, <1>7

(* Every cluster of a chain is in its set of clusters.                      *)
LEMMA InChainSet ==
  ASSUME NEW nx, IsTable(nx), NEW c, Rooted(nx, c)
  PROVE  \A d : d \in ChainSet(nx, c) <=> d \in Cluster /\ \E k \in Nat : ChainAt(nx, c, k) = d
<1>1. PICK n \in 0 .. NCluster : \A k \in Nat : k >= n => ChainAt(nx, c, k) = INVALID
  BY ChainShort
<1>2. ASSUME NEW k \in Nat, ChainAt(nx, c, k) \in Cluster
      PROVE  k \in 0 .. NCluster
  <2>1. ~ k >= n
    BY <1>1, <1>2, Clusters
  <2> QED  BY <2>1, Clusters
<1>3. \A k \in 0 .. NCluster : k \in Nat
  OBVIOUS
<1> QED  BY <1>2, <1>3 DEF ChainSet

(* The table kept the successors of the first n clusters of a chain. *)
Kept(nx, mx, c, n) ==
  \A k \in Nat : k < n /\ ChainAt(nx, c, k) \in Cluster =>
                   mx[ChainAt(nx, c, k)] = nx[ChainAt(nx, c, k)]

(* Changing the table behind the k-th cluster of a chain changes nothing up *)
(* to there.                                                                *)
LEMMA ChainFrame ==
  ASSUME NEW nx, NEW mx, NEW c, NEW n \in Nat, Kept(nx, mx, c, n)
  PROVE  \A k \in Nat : k <= n => ChainAt(mx, c, k) = ChainAt(nx, c, k)
<1> DEFINE S == {k \in Nat : k <= n => ChainAt(mx, c, k) = ChainAt(nx, c, k)}
<1>1. 0 \in S
  BY ChainSteps
<1>2. ASSUME NEW k \in Nat, k \in S
      PROVE  k + 1 \in S
  <2> SUFFICES ASSUME k + 1 <= n PROVE ChainAt(mx, c, k + 1) = ChainAt(nx, c, k + 1)
    OBVIOUS
  <2>1. ChainAt(mx, c, k) = ChainAt(nx, c, k) /\ k < n
    BY <1>2
  <2>2. /\ ChainAt(mx, c, k + 1) = GetNext(mx, ChainAt(mx, c, k))
        /\ ChainAt(nx, c, k + 1) = GetNext(nx, ChainAt(nx, c, k))
    BY ChainSteps
  <2>3. GetNext(mx, ChainAt(nx, c, k)) = GetNext(nx, ChainAt(nx, c, k))
    BY <2>1 DEF GetNext, Kept
  <2> QED  BY <2>1, <2>2, <2>3
<1> HIDE DEF S
<1>3. Nat \subseteq S
  BY <1>1, <1>2, SetInduction
<1> QED  BY <1>3 DEF S

(* The table kept the successors of a whole chain. *)
AllKept(nx, mx, c) ==
  \A k \in Nat : ChainAt(nx, c, k) \in Cluster => mx[ChainAt(nx, c, k)] = nx[ChainAt(nx, c, k)]

(* A chain the table still has is the same chain.                           *)
LEMMA SameChain ==
  ASSUME NEW nx, NEW mx, NEW c, AllKept(nx, mx, c)
  PROVE  \A k \in Nat : ChainAt(mx, c, k) = ChainAt(nx, c, k)
<1> SUFFICES ASSUME NEW k \in Nat PROVE ChainAt(mx, c, k) = ChainAt(nx, c, k)
  OBVIOUS
<1>0. Kept(nx, mx, c, k)
  BY DEF Kept, AllKept
<1>1. \A l \in Nat : l <= k => ChainAt(mx, c, l) = ChainAt(nx, c, l)
  BY <1>0, ChainFrame
<1> QED  BY <1>1

(* cluster_free_chain frees one chain, and takes nothing from the others.   *)
LEMMA FreeChainFacts ==
  ASSUME NEW nx, IsTable(nx), NEW s, Rooted(nx, s)
  PROVE  LET mx == FreeChain(nx, s)
         IN  /\ IsTable(mx)
             /\ \A c \in Cluster : mx[c] = IF c \in ChainSet(nx, s) THEN FREE ELSE nx[c]
             /\ \A c : Root(nx, c) /\ c # s => Root(mx, c)
             /\ \A c : Rooted(nx, c) /\ c # s =>
                  \A k \in Nat : ChainAt(mx, c, k) = ChainAt(nx, c, k)
<1> DEFINE mx == FreeChain(nx, s)
           F == ChainSet(nx, s)
<1>1. \A c \in Cluster : mx[c] = IF c \in F THEN FREE ELSE nx[c]
  BY DEF FreeChain
<1>2. mx \in [Cluster -> Link]
  BY DEF FreeChain, IsTable, Link
<1>3. F \subseteq Cluster /\ \A d : d \in F <=> d \in Cluster /\ \E k \in Nat : ChainAt(nx, s, k) = d
  BY InChainSet DEF ChainSet
<1>4. ASSUME NEW c \in Cluster, nx[c] \in F
      PROVE  c \in F
  <2>1. PICK k \in Nat : ChainAt(nx, s, k) = nx[c] /\ nx[c] \in Cluster
    BY <1>3, <1>4
  <2>2. CASE k = 0
    <3>1. nx[c] = s
      BY <2>1, <2>2, ChainSteps
    <3> QED  BY <3>1, <2>1, Clusters DEF Rooted, Root
  <2>3. CASE k # 0
    <3>1. k - 1 \in Nat /\ (k - 1) + 1 = k
      BY <2>3
    <3>2. GetNext(nx, ChainAt(nx, s, k - 1)) = nx[c]
      <4>1. ChainAt(nx, s, (k - 1) + 1) = GetNext(nx, ChainAt(nx, s, k - 1))
        BY <3>1, ChainSteps
      <4> QED  BY <2>1, <3>1, <4>1
    <3>3. ChainAt(nx, s, k - 1) \in Cluster /\ nx[ChainAt(nx, s, k - 1)] = nx[c]
      BY <2>1, <3>2, NextOf
    <3>4. ChainAt(nx, s, k - 1) = c
      BY <2>1, <3>3 DEF IsTable
    <3> QED  BY <1>3, <3>1, <3>4
  <2> QED  BY <2>2, <2>3
<1> HIDE DEF mx, F
<1>5. IsTable(mx)
  <2>1. ASSUME NEW c \in Cluster, mx[c] \in Cluster
        PROVE  c \notin F /\ mx[c] = nx[c] /\ mx[mx[c]] # FREE
    <3>1. c \notin F /\ mx[c] = nx[c]
      BY <1>1, <2>1, Clusters
    <3>2. nx[c] \notin F /\ nx[nx[c]] # FREE
      BY <1>4, <2>1, <3>1 DEF IsTable
    <3> QED  BY <1>1, <2>1, <3>1, <3>2
  <2>2. ASSUME NEW c \in Cluster, NEW d \in Cluster, mx[c] \in Cluster, mx[c] = mx[d]
        PROVE  c = d
    BY <2>1, <2>2 DEF IsTable
  <2> QED  BY <1>2, <2>1, <2>2 DEF IsTable
<1>6. ASSUME NEW c, Rooted(nx, c), c # s
      PROVE  \A k \in Nat : ChainAt(nx, c, k) \notin F
  <2> SUFFICES ASSUME NEW k \in Nat, ChainAt(nx, c, k) \in F PROVE FALSE
    OBVIOUS
  <2>1. PICK l \in Nat : ChainAt(nx, s, l) = ChainAt(nx, c, k) /\ ChainAt(nx, c, k) \in Cluster
    BY <1>3
  <2> QED  BY <1>6, <2>1, ChainsMeet
<1>7. ASSUME NEW c, Root(nx, c), c # s
      PROVE  Root(mx, c)
  <2>1. c \in Cluster /\ ChainAt(nx, c, 0) \notin F /\ ChainAt(nx, c, 0) = c
    BY <1>6, <1>7, ChainSteps DEF Rooted, Root
  <2>2. mx[c] # FREE
    BY <1>1, <1>7, <2>1 DEF Root
  <2>3. \A d \in Cluster : mx[d] # c
    BY <1>1, <1>7, <2>1, Clusters DEF Root
  <2> QED  BY <2>1, <2>2, <2>3 DEF Root
<1>8. ASSUME NEW c, Rooted(nx, c), c # s
      PROVE  \A k \in Nat : ChainAt(mx, c, k) = ChainAt(nx, c, k)
  <2>1. \A k \in Nat : ChainAt(nx, c, k) \in Cluster => mx[ChainAt(nx, c, k)] = nx[ChainAt(nx, c, k)]
    BY <1>1, <1>6, <1>8
  <2> QED  BY <2>1, SameChain DEF AllKept
<1> QED  BY <1>1, <1>5, <1>7, <1>8 DEF mx, F

(* What cluster_alloc_free returns: a chain of its own, made of clusters    *)
(* that were free.                                                          *)
Allocated(nx, a) ==
  /\ IsTable(a.next)
  /\ Root(a.next, a.start) /\ nx[a.start] = FREE
  /\ \A c \in Cluster : nx[c] # FREE => a.next[c] = nx[c]
  /\ \A c \in Cluster : nx[c] = FREE /\ a.next[c] \in Cluster => nx[a.next[c]] = FREE
  /\ \A c \in Cluster : nx[c] = FREE /\ a.next[c] # FREE =>
                          \E k \in Nat : ChainAt(a.next, a.start, k) = c

(* The least element of a set is the one that is.                           *)
LEMMA MinIs ==
  ASSUME NEW S, S \subseteq Nat, NEW m \in S, \A y \in S : m <= y
  PROVE  Min(S) = m
<1>1. Min(S) \in S /\ \A y \in S : Min(S) <= y
  BY MinExists
<1>2. Min(S) <= m /\ m <= Min(S) /\ Min(S) \in Nat /\ m \in Nat
  BY <1>1
<1> QED  BY <1>2

(* There is a first free cluster to take.                                   *)
LEMMA SomeFree ==
  ASSUME NEW nx, NEW n \in Nat, CanAlloc(nx, n)
  PROVE  FirstFree(nx, n) # {}
<1> DEFINE F == FreeClusters(nx)
<1>1. F \subseteq Cluster
  BY DEF FreeClusters
<1>2. F # {}
  <2>1. n > 0 /\ Cardinality(F) >= n
    BY DEF CanAlloc
  <2>2. Cardinality({}) = 0
    BY FS_EmptySet
  <2> QED  BY <2>1, <2>2
<1>3. Min(F) \in F /\ \A y \in F : Min(F) <= y
  <2>1. F \subseteq Nat
    BY <1>1, Clusters
  <2> HIDE DEF F
  <2> QED  BY <1>2, <2>1, MinExists
<1>4. {d \in F : d < Min(F)} = {}
  <2>1. \A d \in F : d \in Nat /\ Min(F) \in Nat /\ Min(F) <= d
    BY <1>1, <1>3, Clusters
  <2> QED  BY <2>1
<1>5. Cardinality({d \in F : d < Min(F)}) = 0 /\ 0 < n
  BY <1>4, FS_EmptySet DEF CanAlloc
<1>6. Min(F) \in FirstFree(nx, n)
  <2>1. FirstFree(nx, n) = {c \in F : Cardinality({d \in F : d < c}) < n}
    BY DEF FirstFree
  <2> HIDE DEF F
  <2> QED  BY <1>3, <1>5, <2>1
<1> QED  BY <1>6

(* The clusters taken, linked from the lowest up.                           *)
LEMMA AllocFacts ==
  ASSUME NEW nx, IsTable(nx), NEW n \in Nat, CanAlloc(nx, n)
  PROVE  Allocated(nx, Alloc(nx, n))
<1> DEFINE got == FirstFree(nx, n)
           after(c) == {d \in got : c < d}
           mx == Alloc(nx, n).next
           s == Alloc(nx, n).start
<1>1. got \subseteq Cluster /\ got \subseteq Nat /\ got # {} /\ \A c \in got : nx[c] = FREE
  BY SomeFree, Clusters DEF FirstFree, FreeClusters
<1>2. s = Min(got)
  BY DEF Alloc
<1>3. mx = [c \in Cluster |-> IF c \notin got THEN nx[c]
                              ELSE IF c = Max(got) THEN INVALID ELSE Min(after(c))]
  BY DEF Alloc
<1>4. \A c \in Cluster : mx[c] = IF c \notin got THEN nx[c]
                                 ELSE IF c = Max(got) THEN INVALID ELSE Min(after(c))
  BY <1>3
<1>5. s \in got /\ \A y \in got : s <= y
  BY <1>1, <1>2, MinExists
<1>6. Max(got) \in got /\ \A y \in got : y <= Max(got)
  <2>1. NCluster + 1 \in Nat /\ \A y \in got : y <= NCluster + 1
    BY <1>1, Clusters
  <2> HIDE DEF got
  <2> QED  BY <1>1, <2>1, MaxExists
<1>7. ASSUME NEW c \in got, c # Max(got)
      PROVE  mx[c] \in got /\ c < mx[c] /\ \A d \in got : c < d => mx[c] <= d
  <2>1. Max(got) \in after(c) /\ after(c) \subseteq Nat
    BY <1>1, <1>6, <1>7
  <2>2. Min(after(c)) \in after(c) /\ \A y \in after(c) : Min(after(c)) <= y
    <3> HIDE DEF after
    <3> QED  BY <2>1, MinExists
  <2>3. mx[c] = Min(after(c))
    BY <1>1, <1>4, <1>7
  <2> HIDE DEF mx
  <2> QED  BY <2>2, <2>3
<1>8. ASSUME NEW c \in got, mx[c] \in Cluster
      PROVE  mx[c] \in got /\ c < mx[c] /\ \A d \in got : c < d => mx[c] <= d
  <2>1. c # Max(got)
    BY <1>1, <1>4, <1>8, Clusters
  <2> QED  BY <1>7, <2>1
<1>9. \A c \in got : mx[c] # FREE /\ mx[c] \in Link
  <2> SUFFICES ASSUME NEW c \in got PROVE mx[c] # FREE /\ mx[c] \in Link
    OBVIOUS
  <2>1. CASE c = Max(got)
    BY <1>1, <1>4, <2>1, Clusters DEF Link
  <2>2. CASE c # Max(got)
    <3>1. mx[c] \in got
      BY <1>7, <2>2
    <3> QED  BY <1>1, <3>1, Clusters DEF Link
  <2> QED  BY <2>1, <2>2
<1>10. \A c \in Cluster : c \notin got => mx[c] = nx[c]
  BY <1>4
<1>11. mx \in [Cluster -> Link]
  <2>1. \A c \in Cluster : mx[c] \in Link
    BY <1>9, <1>10 DEF IsTable
  <2>2. mx = [c \in Cluster |-> mx[c]]
    BY <1>3
  <2> HIDE DEF mx
  <2> QED  BY <2>1, <2>2
<1> HIDE DEF got, mx, s
<1>12. ASSUME NEW c \in Cluster, c \notin got, mx[c] \in Cluster
       PROVE  mx[c] = nx[c] /\ nx[mx[c]] # FREE /\ mx[c] \notin got
  BY <1>1, <1>10, <1>12 DEF IsTable
<1>13. IsTable(mx)
  <2>1. ASSUME NEW c \in Cluster, mx[c] \in Cluster
        PROVE  mx[mx[c]] # FREE
    <3>1. CASE c \in got
      BY <1>8, <1>9, <2>1, <3>1
    <3>2. CASE c \notin got
      BY <1>10, <1>12, <2>1, <3>2
    <3> QED  BY <3>1, <3>2
  <2>2. ASSUME NEW c \in Cluster, NEW d \in Cluster, mx[c] \in Cluster, mx[c] = mx[d]
        PROVE  c = d
    <3>1. CASE c \in got /\ d \in got
      <4>1. /\ c < mx[c] /\ mx[c] \in got /\ (c < d => mx[c] <= d)
            /\ d < mx[c] /\ (d < c => mx[c] <= c)
        BY <1>8, <2>2, <3>1
      <4>2. c \in Nat /\ d \in Nat /\ mx[c] \in Nat
        BY <1>1, <3>1, <4>1
      <4> QED  BY <4>1, <4>2
    <3>2. CASE c \notin got /\ d \notin got
      BY <1>10, <2>2, <3>2 DEF IsTable
    <3>3. CASE c \in got /\ d \notin got
      BY <1>8, <1>12, <2>2, <3>3
    <3>4. CASE c \notin got /\ d \in got
      BY <1>8, <1>12, <2>2, <3>4
    <3> QED  BY <3>1, <3>2, <3>3, <3>4
  <2> QED  BY <1>11, <2>1, <2>2 DEF IsTable
<1>14. Root(mx, s) /\ nx[s] = FREE
  <2>1. s \in Cluster /\ nx[s] = FREE /\ mx[s] # FREE
    BY <1>1, <1>5, <1>9
  <2>2. ASSUME NEW d \in Cluster, mx[d] = s
        PROVE  FALSE
    <3>1. CASE d \in got
      <4>1. d < s /\ s <= d /\ d \in Nat /\ s \in Nat
        BY <1>1, <1>5, <1>8, <2>1, <2>2, <3>1
      <4> QED  BY <4>1
    <3>2. CASE d \notin got
      BY <1>5, <1>12, <2>1, <2>2, <3>2
    <3> QED  BY <3>1, <3>2
  <2> QED  BY <2>1, <2>2 DEF Root
<1>15. \A c \in Cluster : nx[c] # FREE => mx[c] = nx[c]
  BY <1>1, <1>10
<1>16. ASSUME NEW c \in Cluster, nx[c] = FREE, mx[c] \in Cluster
       PROVE  nx[mx[c]] = FREE
  <2>1. c \in got
    BY <1>10, <1>16, Clusters
  <2> QED  BY <1>1, <1>8, <1>16, <2>1
<1>17. ASSUME NEW c \in got
       PROVE  \E k \in Nat : ChainAt(mx, s, k) = c
  <2> DEFINE U == {d \in got : ~ \E k \in Nat : ChainAt(mx, s, k) = d}
  <2> SUFFICES ASSUME U # {} PROVE FALSE
    BY <1>17
  <2>1. Min(U) \in U /\ \A y \in U : Min(U) <= y
    <3>1. U \subseteq Nat
      BY <1>1
    <3> HIDE DEF U
    <3> QED  BY <3>1, MinExists
  <2>2. PICK m \in got : /\ ~ \E k \in Nat : ChainAt(mx, s, k) = m
                         /\ \A y \in U : m <= y
    BY <2>1
  <2>3. s < m
    <3>1. m # s
      BY <2>2, ChainSteps
    <3>2. s <= m /\ s \in Nat /\ m \in Nat
      BY <1>1, <1>5
    <3> QED  BY <3>1, <3>2
  <2> DEFINE P == {d \in got : d < m}
  <2>4. Max(P) \in P /\ \A y \in P : y <= Max(P)
    <3>0. s \in Nat /\ m \in Nat /\ \A y \in got : y \in Nat
      BY <1>1, <1>5
    <3>1. P \subseteq Nat
      BY <3>0
    <3>2. s \in P
      BY <1>5, <2>3
    <3>3. m \in Nat /\ \A y \in P : y <= m
      BY <3>0
    <3> HIDE DEF P
    <3> QED  BY <3>1, <3>2, <3>3, MaxExists
  <2>5. PICK p \in got : p < m /\ \A y \in got : y < m => y <= p
    BY <2>4
  <2>6. p \in Nat /\ m \in Nat /\ \A d \in got : d \in Nat
    BY <1>1
  <2>7. p \notin U
    BY <2>2, <2>5, <2>6
  <2>8. PICK k \in Nat : ChainAt(mx, s, k) = p
    BY <2>7
  <2>9. p # Max(got)
    <3>1. m <= Max(got) /\ Max(got) \in Nat
      BY <1>6, <2>6
    <3> QED  BY <2>5, <2>6, <3>1
  <2>10. mx[p] \in got /\ p < mx[p] /\ mx[p] <= m
    BY <1>7, <2>5, <2>9
  <2>11. mx[p] = m
    <3>1. mx[p] \in Nat /\ (mx[p] < m => mx[p] <= p)
      BY <2>5, <2>6, <2>10
    <3> QED  BY <2>6, <2>10, <3>1
  <2>12. ChainAt(mx, s, k + 1) = m /\ k + 1 \in Nat
    <3>1. ChainAt(mx, s, k + 1) = GetNext(mx, p)
      BY <2>8, ChainSteps
    <3> QED  BY <1>1, <2>11, <3>1 DEF GetNext
  <2> QED  BY <2>2, <2>12
<1>18. ASSUME NEW c \in Cluster, nx[c] = FREE, mx[c] # FREE
       PROVE  \E k \in Nat : ChainAt(mx, s, k) = c
  BY <1>10, <1>17, <1>18
<1> QED  BY <1>13, <1>14, <1>15, <1>16, <1>18 DEF Allocated, mx, s

(* A file without a cluster has none anywhere.                              *)
LEMMA NoChain ==
  ASSUME NEW nx
  PROVE  \A k \in Nat : ChainAt(nx, INVALID, k) = INVALID
<1> DEFINE S == {k \in Nat : ChainAt(nx, INVALID, k) = INVALID}
<1>1. 0 \in S
  BY ChainSteps
<1>2. ASSUME NEW k \in Nat, k \in S
      PROVE  k + 1 \in S
  <2>1. ChainAt(nx, INVALID, k) = INVALID
    BY <1>2
  <2>2. ChainAt(nx, INVALID, k + 1) = GetNext(nx, INVALID)
    <3>1. ChainAt(nx, INVALID, k + 1) = GetNext(nx, ChainAt(nx, INVALID, k))
      BY ChainSteps
    <3> QED  BY <2>1, <3>1
  <2>3. GetNext(nx, INVALID) = INVALID
    BY Clusters DEF GetNext
  <2> QED  BY <2>2, <2>3
<1> HIDE DEF S
<1>3. Nat \subseteq S
  BY <1>1, <1>2, SetInduction
<1> QED  BY <1>3 DEF S

(* A chain goes on from its k-th cluster like the chain that starts there.  *)
LEMMA ChainSum ==
  ASSUME NEW nx, NEW c, NEW i \in Nat
  PROVE  \A k \in Nat : ChainAt(nx, c, i + k) = ChainAt(nx, ChainAt(nx, c, i), k)
<1> DEFINE d == ChainAt(nx, c, i)
           S == {k \in Nat : ChainAt(nx, c, i + k) = ChainAt(nx, d, k)}
<1>1. 0 \in S
  <2>1. i + 0 = i /\ ChainAt(nx, d, 0) = d
    BY ChainSteps
  <2> QED  BY <2>1
<1>2. ASSUME NEW k \in Nat, k \in S
      PROVE  k + 1 \in S
  <2> HIDE DEF d
  <2>1. ChainAt(nx, c, i + k) = ChainAt(nx, d, k)
    BY <1>2
  <2>2. i + k \in Nat /\ i + (k + 1) = (i + k) + 1
    OBVIOUS
  <2>3. ChainAt(nx, c, (i + k) + 1) = GetNext(nx, ChainAt(nx, c, i + k))
    BY <2>2, ChainSteps
  <2>4. ChainAt(nx, d, k + 1) = GetNext(nx, ChainAt(nx, d, k))
    BY ChainSteps
  <2>5. ChainAt(nx, c, i + (k + 1)) = ChainAt(nx, d, k + 1)
    BY <2>1, <2>2, <2>3, <2>4
  <2> QED  BY <2>5
<1> HIDE DEF S
<1>3. Nat \subseteq S
  BY <1>1, <1>2, SetInduction
<1> QED  BY <1>3 DEF S, d

(* The chain cluster_alloc_free returns has only clusters that were free.   *)
LEMMA FreshChain ==
  ASSUME NEW nx, NEW a, Allocated(nx, a)
  PROVE  \A k \in Nat : ChainAt(a.next, a.start, k) \in Cluster =>
                          nx[ChainAt(a.next, a.start, k)] = FREE
<1> DEFINE at(k) == ChainAt(a.next, a.start, k)
           S == {k \in Nat : at(k) \in Cluster => nx[at(k)] = FREE}
<1>1. 0 \in S
  BY ChainSteps DEF Allocated
<1>2. ASSUME NEW k \in Nat, k \in S
      PROVE  k + 1 \in S
  <2>1. (at(k) \in Cluster => nx[at(k)] = FREE) /\ at(k + 1) = GetNext(a.next, at(k))
    BY <1>2, ChainSteps
  <2> DEFINE d == at(k)
             e == at(k + 1)
  <2>2. (d \in Cluster => nx[d] = FREE) /\ e = GetNext(a.next, d)
    BY <2>1
  <2> HIDE DEF d, e
  <2>3. e \in Cluster => d \in Cluster /\ a.next[d] = e
    BY <2>2, NextOf DEF Allocated
  <2>4. e \in Cluster => nx[e] = FREE
    BY <2>2, <2>3 DEF Allocated
  <2>5. at(k + 1) \in Cluster => nx[at(k + 1)] = FREE
    BY <2>4 DEF e
  <2> HIDE DEF at
  <2> QED  BY <2>5
<1> HIDE DEF S
<1>3. Nat \subseteq S
  BY <1>1, <1>2, SetInduction
<1> QED  BY <1>3 DEF S

(* What taking clusters leaves alone: starts stay starts, and no cluster in *)
(* use becomes free.                                                        *)
Grown(nx, mx) ==
  /\ IsTable(mx)
  /\ \A c : Root(nx, c) => Root(mx, c)
  /\ \A c \in Cluster : nx[c] # FREE => mx[c] # FREE

(* The new chain, while nothing leads to it.                                *)
LEMMA AllocGrows ==
  ASSUME NEW nx, IsTable(nx), NEW a, Allocated(nx, a)
  PROVE  /\ Grown(nx, a.next)
         /\ \A c : Rooted(nx, c) => \A k \in Nat : ChainAt(a.next, c, k) = ChainAt(nx, c, k)
<1>1. ASSUME NEW c, Root(nx, c)
      PROVE  Root(a.next, c)
  <2>1. c \in Cluster /\ a.next[c] # FREE
    BY <1>1 DEF Root, Allocated
  <2>2. ASSUME NEW d \in Cluster, a.next[d] = c
        PROVE  FALSE
    <3>1. CASE nx[d] = FREE
      <4>1. nx[a.next[d]] = FREE
        BY <2>1, <2>2, <3>1 DEF Allocated
      <4> QED  BY <1>1, <2>2, <4>1 DEF Root
    <3>2. CASE nx[d] # FREE
      BY <1>1, <2>2, <3>2 DEF Root, Allocated
    <3> QED  BY <3>1, <3>2
  <2> QED  BY <2>1, <2>2 DEF Root
<1>2. ASSUME NEW c, Rooted(nx, c)
      PROVE  \A k \in Nat : ChainAt(a.next, c, k) = ChainAt(nx, c, k)
  <2>1. \A k \in Nat : ChainAt(nx, c, k) \in Cluster => nx[ChainAt(nx, c, k)] # FREE
    BY <1>2, ChainType
  <2>2. \A k \in Nat : ChainAt(nx, c, k) \in Cluster =>
                         a.next[ChainAt(nx, c, k)] = nx[ChainAt(nx, c, k)]
    BY <2>1 DEF Allocated
  <2> QED  BY <2>2, SameChain DEF AllKept
<1> QED  BY <1>1, <1>2 DEF Grown, Allocated

(* The table with the chain a linked after the cluster b. *)
Linked(a, b) == [a.next EXCEPT ![b] = a.start]

(* The new chain, linked after a cluster in use: whatever that led to is    *)
(* cut off, the chains it is not part of stay.                              *)
LEMMA LinkGrows ==
  ASSUME NEW nx, IsTable(nx), NEW a, Allocated(nx, a), NEW b \in Cluster, nx[b] # FREE,
         NEW mx, mx = Linked(a, b)
  PROVE  /\ Grown(nx, mx)
         /\ mx[b] = a.start
         /\ \A c \in Cluster : c # b => mx[c] = a.next[c]
         /\ \A c \in Cluster : nx[c] # FREE /\ c # b => mx[c] = nx[c]
         /\ \A k \in Nat : ChainAt(mx, a.start, k) = ChainAt(a.next, a.start, k)
<1>1. a.next \in [Cluster -> Link] /\ IsTable(a.next) /\ a.start \in Cluster /\ a.start \in Link
  BY DEF Allocated, IsTable, Root, Link
<1>2. mx[b] = a.start /\ \A c \in Cluster : c # b => mx[c] = a.next[c]
  BY <1>1 DEF Linked
<1>3. mx \in [Cluster -> Link]
  BY <1>1 DEF Linked
<1>4. b # a.start /\ a.next[a.start] # FREE /\ a.start # FREE
  BY <1>1, Clusters DEF Allocated, Root
<1>5. \A d \in Cluster : a.next[d] # a.start
  BY DEF Allocated, Root
<1>6. IsTable(mx)
  <2>1. ASSUME NEW c \in Cluster, mx[c] \in Cluster
        PROVE  mx[mx[c]] # FREE
    <3>1. CASE c = b
      BY <1>1, <1>2, <1>4, <3>1
    <3>2. CASE c # b
      <4>1. mx[c] = a.next[c] /\ a.next[a.next[c]] # FREE
        BY <1>1, <1>2, <2>1, <3>2 DEF IsTable
      <4> QED  BY <1>2, <1>4, <2>1, <4>1
    <3> QED  BY <3>1, <3>2
  <2>2. ASSUME NEW c \in Cluster, NEW d \in Cluster, mx[c] \in Cluster, mx[c] = mx[d]
        PROVE  c = d
    <3>1. CASE c # b /\ d # b
      <4>1. a.next[c] \in Cluster /\ a.next[c] = a.next[d]
        BY <1>2, <2>2, <3>1
      <4> QED  BY <1>1, <4>1 DEF IsTable
    <3>2. CASE c = b /\ d # b
      BY <1>2, <1>5, <2>2, <3>2
    <3>3. CASE c # b /\ d = b
      BY <1>2, <1>5, <2>2, <3>3
    <3> QED  BY <3>1, <3>2, <3>3
  <2> QED  BY <1>3, <2>1, <2>2 DEF IsTable
<1>7. \A c \in Cluster : nx[c] # FREE => mx[c] # FREE
  BY <1>2, <1>4 DEF Allocated
<1>8. ASSUME NEW c, Root(nx, c)
      PROVE  Root(mx, c)
  <2>1. Root(a.next, c) /\ c \in Cluster /\ nx[c] # FREE
    BY <1>8, AllocGrows DEF Grown, Root
  <2>2. c # a.start
    BY <2>1 DEF Allocated
  <2>3. \A d \in Cluster : mx[d] # c
    BY <1>2, <2>1, <2>2 DEF Root
  <2> QED  BY <1>7, <2>1, <2>3 DEF Root
<1>9. \A k \in Nat : ChainAt(mx, a.start, k) = ChainAt(a.next, a.start, k)
  <2>1. AllKept(a.next, mx, a.start)
    BY <1>2, FreshChain DEF AllKept
  <2>2. \A k \in Nat : ChainAt(mx, a.start, k) = ChainAt(a.next, a.start, k)
    <3> HIDE DEF AllKept
    <3> QED  BY <2>1, SameChain
  <2> QED  BY <2>2
<1>10. \A c \in Cluster : nx[c] # FREE /\ c # b => mx[c] = nx[c]
  BY <1>2 DEF Allocated
<1> QED  BY <1>2, <1>6, <1>7, <1>8, <1>9, <1>10 DEF Grown

-----------------------------------------------------------------------------
(* expand_file.                                                             *)

(* What it does: nothing, or a new chain as the file's first clusters or    *)
(* after its current one.                                                   *)
Expanded(nx, f, inc, x) ==
  \/ Spare(f) > inc /\ x = [ok |-> TRUE, next |-> nx, f |-> f]
  \/ x = [ok |-> FALSE, next |-> nx, f |-> f]
  \/ /\ f.sblk \notin Cluster
     /\ \E a : /\ Allocated(nx, a)
               /\ x = [ok |-> TRUE, next |-> a.next,
                       f |-> [f EXCEPT !.sblk = a.start, !.cblk = a.start]]
  \/ /\ f.sblk \in Cluster
     /\ \E a : /\ Allocated(nx, a)
               /\ x = [ok |-> TRUE, next |-> Linked(a, f.cblk), f |-> f]

(* Sizes are counted in clusters of at least one unit.                      *)
LEMMA Sizes ==
  /\ ClusterSize \in Nat \ {0} /\ MaxSize \in Nat \ {0} /\ MaxChunk \in Nat \ {0}
  /\ NEntry \in Nat \ {0}
BY FatAssumption

(* The number of clusters expand_file asks for is a number.                 *)
LEMMA ClusterCount ==
  ASSUME NEW f, f.size \in Nat, NEW inc \in Nat
  PROVE  /\ Spare(f) \in 0 .. ClusterSize - 1
         /\ f.size % ClusterSize = 0 <=> Spare(f) = 0
         /\ ~ Spare(f) > inc => ClustersFor(f, inc) \in Nat
<1> DEFINE z == ClusterSize - (f.size % ClusterSize)
<1>1. ClusterSize \in Nat /\ ClusterSize > 0
  BY Sizes
<1>2. f.size % ClusterSize \in 0 .. ClusterSize - 1
  BY <1>1
<1>3. z \in 1 .. ClusterSize /\ (z = ClusterSize <=> f.size % ClusterSize = 0)
  BY <1>1, <1>2
<1>4. Spare(f) = z % ClusterSize
  BY DEF Spare
<1> HIDE DEF z
<1>5. z = ClusterSize => z % ClusterSize = 0
  BY <1>1
<1>6. z # ClusterSize => z % ClusterSize = z
  BY <1>1, <1>3
<1>7. Spare(f) \in 0 .. ClusterSize - 1 /\ (Spare(f) = 0 <=> z = ClusterSize)
  BY <1>1, <1>3, <1>4, <1>5, <1>6
<1>8. ASSUME NEW b \in Nat
      PROVE  CeilDiv(b, ClusterSize) \in Nat
  <2>1. b + ClusterSize - 1 \in Nat
    BY <1>1
  <2> DEFINE y == b + ClusterSize - 1
  <2>2. y \in Nat
    BY <2>1
  <2>3. CeilDiv(b, ClusterSize) = y \div ClusterSize
    BY DEF CeilDiv
  <2> HIDE DEF y
  <2>4. y \div ClusterSize \in Nat
    BY <1>1, <2>2
  <2> QED  BY <2>3, <2>4
<1>9. ASSUME ~ Spare(f) > inc
      PROVE  ClustersFor(f, inc) \in Nat
  <2>1. inc - Spare(f) \in Nat
    BY <1>1, <1>7, <1>9
  <2>2. CeilDiv(inc, ClusterSize) \in Nat /\ CeilDiv(inc - Spare(f), ClusterSize) \in Nat
    BY <1>8, <2>1
  <2> QED  BY <2>2 DEF ClustersFor
<1> QED  BY <1>3, <1>7, <1>9

(* It does no more than that, for a file that knows its current cluster.    *)
LEMMA ExpandCases ==
  ASSUME NEW nx, IsTable(nx), NEW f, f.size \in Nat, NEW inc \in Nat,
         f.sblk \in Cluster => f.cblk \in Cluster
  PROVE  Expanded(nx, f, inc, Expand(nx, f, inc))
<1> DEFINE n == ClustersFor(f, inc)
           a == Alloc(nx, n)
<1>1. CASE Spare(f) > inc
  BY <1>1 DEF Expand, Expanded
<1>2. CASE ~ Spare(f) > inc /\ ~ CanAlloc(nx, n)
  BY <1>2 DEF Expand, Expanded
<1>3. CASE ~ Spare(f) > inc /\ CanAlloc(nx, n)
  <2>1. Allocated(nx, a)
    <3>1. n \in Nat
      BY <1>3, ClusterCount
    <3> HIDE DEF n
    <3> QED  BY <1>3, <3>1, AllocFacts
  <2>2. CASE f.sblk \notin Cluster
    <3>1. Expand(nx, f, inc) = [ok |-> TRUE, next |-> a.next,
                                f |-> [f EXCEPT !.sblk = a.start, !.cblk = a.start]]
      BY <1>3, <2>2 DEF Expand
    <3> HIDE DEF a
    <3> QED  BY <2>1, <2>2, <3>1 DEF Expanded
  <2>3. CASE f.sblk \in Cluster
    <3>1. Expand(nx, f, inc) = [ok |-> TRUE, next |-> Linked(a, f.cblk), f |-> f]
      BY <1>3, <2>3 DEF Expand, Linked
    <3> HIDE DEF a
    <3> QED  BY <2>1, <2>3, <3>1 DEF Expanded
  <2> QED  BY <2>2, <2>3
<1> QED  BY <1>1, <1>2, <1>3

-----------------------------------------------------------------------------
(* Files.  `it' gives every directory entry the name, the start and the     *)
(* size its file has now, which a writer keeps from the entry until close.  *)
Named(it) == {e \in Entry : it[e].name \in Name}

(* Every file is a chain of its own.                                        *)
Trees(nx, it) ==
  /\ IsTable(nx)
  /\ \A e \in Named(it) : Rooted(nx, it[e].start)
  /\ \A d, e \in Named(it) : d # e /\ it[d].start \in Cluster => it[d].start # it[e].start

(* Every part below the size has a cluster that was written as that part.   *)
Parts(nx, it, dt) ==
  \A e \in Named(it), k \in Nat :
    k * ClusterSize < it[e].size =>
      /\ ChainAt(nx, it[e].start, k) \in Cluster
      /\ dt[ChainAt(nx, it[e].start, k)] = <<it[e].name, k>>

(* The chains of all files but that of e are the same.                      *)
OthersKept(nx, mx, it, e) ==
  \A d \in Named(it) : d # e => \A k \in Nat : ChainAt(mx, it[d].start, k) = ChainAt(nx, it[d].start, k)

(* it and jt agree about every file but that of e.                          *)
Differ(it, jt, e) == \A d \in Entry : d # e => jt[d] = it[d]

(* A file is removed or truncated.                                          *)
LEMMA TreesFree ==
  ASSUME NEW nx, NEW it, NEW jt, NEW e \in Named(it), Trees(nx, it), Differ(it, jt, e),
         e \in Named(jt) => jt[e].start = INVALID
  PROVE  /\ Trees(FreeChain(nx, it[e].start), jt)
         /\ OthersKept(nx, FreeChain(nx, it[e].start), it, e)
<1> DEFINE s == it[e].start
           mx == FreeChain(nx, s)
<1>1. IsTable(nx) /\ Rooted(nx, s)
  BY DEF Trees
<1>2. /\ IsTable(mx)
      /\ \A c : Root(nx, c) /\ c # s => Root(mx, c)
      /\ \A c : Rooted(nx, c) /\ c # s => \A k \in Nat : ChainAt(mx, c, k) = ChainAt(nx, c, k)
  BY <1>1, FreeChainFacts
<1> HIDE DEF mx
<1>3. \A d \in Named(it) : d # e /\ it[d].start # INVALID => it[d].start # s /\ Root(nx, it[d].start)
  BY DEF Trees, Rooted, Root
<1>4. \A d \in Named(jt) : d # e => d \in Named(it) /\ jt[d] = it[d]
  BY DEF Differ, Named
<1>5. \A d \in Named(jt) : Rooted(mx, jt[d].start)
  BY <1>2, <1>3, <1>4 DEF Rooted
<1>6. ASSUME NEW c \in Named(jt), NEW d \in Named(jt), c # d, jt[c].start \in Cluster
      PROVE  jt[c].start # jt[d].start
  <2>1. c # e
    BY <1>6, Clusters
  <2>2. d = e => jt[d].start \notin Cluster
    BY Clusters
  <2>3. d # e => it[c].start # it[d].start
    BY <1>4, <1>6, <2>1 DEF Trees
  <2> QED  BY <1>4, <1>6, <2>1, <2>2, <2>3
<1>7. ASSUME NEW d \in Named(it), d # e
      PROVE  \A k \in Nat : ChainAt(mx, it[d].start, k) = ChainAt(nx, it[d].start, k)
  <2>1. CASE it[d].start = INVALID
    BY <2>1, NoChain
  <2>2. CASE it[d].start # INVALID
    BY <1>2, <1>3, <1>7, <2>2 DEF Rooted
  <2> QED  BY <2>1, <2>2
<1> QED  BY <1>2, <1>5, <1>6, <1>7 DEF Trees, OthersKept, mx

(* A file is created, or its clusters stay as they are.                     *)
LEMMA TreesSame ==
  ASSUME NEW nx, NEW it, NEW jt, NEW e \in Entry, Trees(nx, it), Differ(it, jt, e),
         e \in Named(jt) => jt[e].start = INVALID \/ (e \in Named(it) /\ jt[e].start = it[e].start)
  PROVE  Trees(nx, jt)
<1>1. \A d \in Named(jt) : d # e => d \in Named(it) /\ jt[d] = it[d]
  BY DEF Differ, Named
<1>2. \A d \in Named(jt) : jt[d].start = INVALID \/ (d \in Named(it) /\ jt[d].start = it[d].start)
  BY <1>1
<1>3. INVALID \notin Cluster
  BY Clusters
<1> QED  BY <1>2, <1>3 DEF Trees, Rooted

(* file_t, of any size. *)
FileRec == [mode : {"closed", "read", "write"}, pos : Nat, size : Nat,
            sblk : Link, cblk : Link, p_index : Nat]

(* The current cluster of a file that has clusters is its own.              *)
Private(nx, it, e, f) ==
  f.sblk \in Cluster =>
    /\ f.cblk \in Cluster /\ nx[f.cblk] # FREE
    /\ \A d \in Named(it) : d # e => \A k \in Nat : ChainAt(nx, it[d].start, k) # f.cblk

(* A file grows.                                                            *)
LEMMA TreesExpand ==
  ASSUME NEW nx, NEW it, NEW jt, NEW e \in Named(it), Trees(nx, it), Differ(it, jt, e),
         NEW f \in FileRec, f.sblk = it[e].start, NEW inc, NEW x, Expanded(nx, f, inc, x),
         Private(nx, it, e, f), jt[e].start = x.f.sblk
  PROVE  Trees(x.next, jt) /\ Grown(nx, x.next) /\ OthersKept(nx, x.next, it, e)
<1>0. IsTable(nx) /\ (\A d \in Named(it) : Rooted(nx, it[d].start))
  BY DEF Trees
<1>1. \A d \in Named(jt) : d # e => d \in Named(it) /\ jt[d] = it[d]
  BY DEF Differ, Named
<1>2. CASE x.next = nx /\ x.f = f
  <2>1. Trees(nx, jt)
    BY <1>2, TreesSame DEF Named
  <2> QED  BY <1>0, <1>2, <2>1 DEF Grown, OthersKept
<1>3. ASSUME f.sblk \notin Cluster, NEW a, Allocated(nx, a), x.next = a.next,
             x.f = [f EXCEPT !.sblk = a.start, !.cblk = a.start], x.f.sblk = a.start
      PROVE  Trees(x.next, jt) /\ Grown(nx, x.next) /\ OthersKept(nx, x.next, it, e)
  <2>1. Grown(nx, a.next) /\ \A c : Rooted(nx, c) => \A k \in Nat : ChainAt(a.next, c, k) = ChainAt(nx, c, k)
    BY <1>0, <1>3, AllocGrows
  <2>2. OthersKept(nx, a.next, it, e)
    BY <1>0, <2>1 DEF OthersKept
  <2>3. Root(a.next, a.start) /\ nx[a.start] = FREE
    BY <1>3 DEF Allocated
  <2>4. \A d \in Named(it) : it[d].start # a.start \/ it[d].start = INVALID
    BY <1>0, <2>3 DEF Rooted, Root
  <2>5. \A d \in Named(jt) : Rooted(a.next, jt[d].start)
    BY <1>0, <1>1, <1>3, <2>1, <2>3 DEF Rooted, Grown
  <2>6. ASSUME NEW c \in Named(jt), NEW d \in Named(jt), c # d, jt[c].start \in Cluster
        PROVE  jt[c].start # jt[d].start
    <3>1. CASE c # e /\ d # e
      BY <1>1, <2>6, <3>1 DEF Trees
    <3>2. CASE c = e
      BY <1>1, <1>3, <2>4, <2>6, <3>2, Clusters
    <3>3. CASE d = e
      BY <1>1, <1>3, <2>4, <2>6, <3>3, Clusters
    <3> QED  BY <3>1, <3>2, <3>3
  <2> QED  BY <1>3, <2>1, <2>2, <2>5, <2>6 DEF Trees, Grown
<1>4. ASSUME f.sblk \in Cluster, NEW a, Allocated(nx, a), x.f = f,
             x.next = Linked(a, f.cblk)
      PROVE  Trees(x.next, jt) /\ Grown(nx, x.next) /\ OthersKept(nx, x.next, it, e)
  <2>0. /\ f.cblk \in Cluster /\ nx[f.cblk] # FREE
        /\ \A d \in Named(it) : d # e => \A k \in Nat : ChainAt(nx, it[d].start, k) # f.cblk
    BY <1>4 DEF Private
  <2>1. /\ Grown(nx, x.next)
        /\ \A c \in Cluster : nx[c] # FREE /\ c # f.cblk => x.next[c] = nx[c]
    BY <1>0, <1>4, <2>0, LinkGrows
  <2>2. ASSUME NEW d \in Named(it), d # e
        PROVE  \A k \in Nat : ChainAt(x.next, it[d].start, k) = ChainAt(nx, it[d].start, k)
    <3>1. \A k \in Nat : ChainAt(nx, it[d].start, k) \in Cluster => nx[ChainAt(nx, it[d].start, k)] # FREE
      BY <1>0, ChainType
    <3>2. \A k \in Nat : ChainAt(nx, it[d].start, k) \in Cluster =>
                           x.next[ChainAt(nx, it[d].start, k)] = nx[ChainAt(nx, it[d].start, k)]
      BY <2>0, <2>1, <2>2, <3>1
    <3> QED  BY <3>2, SameChain DEF AllKept
  <2>3. \A d \in Named(jt) : d \in Named(it) /\ jt[d].start = it[d].start
    BY <1>1, <1>4
  <2>4. \A d \in Named(jt) : Rooted(x.next, jt[d].start)
    BY <1>0, <2>1, <2>3 DEF Rooted, Grown
  <2>5. \A c, d \in Named(jt) : c # d /\ jt[c].start \in Cluster => jt[c].start # jt[d].start
    BY <2>3 DEF Trees
  <2> QED  BY <2>1, <2>2, <2>4, <2>5 DEF Trees, Grown, OthersKept
<1>5. CASE \/ Spare(f) > inc /\ x = [ok |-> TRUE, next |-> nx, f |-> f]
           \/ x = [ok |-> FALSE, next |-> nx, f |-> f]
  BY <1>2, <1>5
<1>6. ASSUME f.sblk \notin Cluster, NEW a, Allocated(nx, a),
             x = [ok |-> TRUE, next |-> a.next, f |-> [f EXCEPT !.sblk = a.start, !.cblk = a.start]]
      PROVE  Trees(x.next, jt) /\ Grown(nx, x.next) /\ OthersKept(nx, x.next, it, e)
  <2>1. x.next = a.next /\ x.f = [f EXCEPT !.sblk = a.start, !.cblk = a.start]
    BY <1>6
  <2>2. x.f.sblk = a.start
    BY <2>1 DEF FileRec
  <2> QED  BY <1>3, <1>6, <2>1, <2>2
<1>7. ASSUME f.sblk \in Cluster, NEW a, Allocated(nx, a),
             x = [ok |-> TRUE, next |-> Linked(a, f.cblk), f |-> f]
      PROVE  Trees(x.next, jt) /\ Grown(nx, x.next) /\ OthersKept(nx, x.next, it, e)
  <2>1. x.next = Linked(a, f.cblk) /\ x.f = f
    BY <1>7
  <2> QED  BY <1>4, <1>7, <2>1
<1> QED  BY <1>5, <1>6, <1>7 DEF Expanded

(* The file that grows keeps its chain up to its current cluster, and has a *)
(* cluster after it when new ones were linked.                              *)
LEMMA OwnChain ==
  ASSUME NEW nx, IsTable(nx), NEW f \in FileRec, Root(nx, f.sblk), NEW i \in Nat,
         f.cblk = ChainAt(nx, f.sblk, i), f.cblk \in Cluster,
         NEW inc, NEW x, Expanded(nx, f, inc, x)
  PROVE  /\ x.f = f
         /\ \A k \in Nat : k <= i => ChainAt(x.next, f.sblk, k) = ChainAt(nx, f.sblk, k)
         /\ x.ok /\ ~ Spare(f) > inc => x.next[f.cblk] \in Cluster
         /\ x.ok \in BOOLEAN
<1>1. f.sblk \in Cluster /\ Rooted(nx, f.sblk)
  BY DEF Root, Rooted
<1>2. CASE Spare(f) > inc /\ x = [ok |-> TRUE, next |-> nx, f |-> f]
  BY <1>2
<1>3. CASE x = [ok |-> FALSE, next |-> nx, f |-> f]
  BY <1>3
<1>4. ASSUME NEW a, Allocated(nx, a), x = [ok |-> TRUE, next |-> Linked(a, f.cblk), f |-> f]
      PROVE  /\ x.f = f
             /\ \A k \in Nat : k <= i => ChainAt(x.next, f.sblk, k) = ChainAt(nx, f.sblk, k)
             /\ x.next[f.cblk] \in Cluster
             /\ x.ok \in BOOLEAN
  <2>1. x.f = f /\ x.ok \in BOOLEAN /\ x.next = Linked(a, f.cblk)
    BY <1>4
  <2>2. nx[f.cblk] # FREE
    BY <1>1, ChainType
  <2>3. /\ x.next[f.cblk] = a.start
        /\ \A c \in Cluster : nx[c] # FREE /\ c # f.cblk => x.next[c] = nx[c]
    <3> DEFINE mx == x.next
               b == f.cblk
    <3>1. mx = Linked(a, b) /\ b \in Cluster /\ nx[b] # FREE
      BY <2>1, <2>2
    <3>2. IsTable(nx) /\ Allocated(nx, a)
      BY <1>4
    <3> HIDE DEF mx, b
    <3>3. /\ Grown(nx, mx)
          /\ mx[b] = a.start
          /\ \A c \in Cluster : nx[c] # FREE /\ c # b => mx[c] = nx[c]
      BY <3>1, <3>2, LinkGrows
    <3> QED  BY <3>3 DEF mx, b
  <2>4. a.start \in Cluster
    BY <1>4 DEF Allocated, Root
  <2>5. ASSUME NEW k \in Nat, k < i, ChainAt(nx, f.sblk, k) \in Cluster
        PROVE  x.next[ChainAt(nx, f.sblk, k)] = nx[ChainAt(nx, f.sblk, k)]
    <3>1. nx[ChainAt(nx, f.sblk, k)] # FREE
      BY <1>1, <2>5, ChainType
    <3>2. ChainAt(nx, f.sblk, k) # f.cblk
      <4> SUFFICES ASSUME ChainAt(nx, f.sblk, k) = ChainAt(nx, f.sblk, i) PROVE FALSE
        OBVIOUS
      <4>1. k = i
        BY <1>1, <2>5, ChainsMeet
      <4> QED  BY <2>5, <4>1
    <3> QED  BY <2>3, <2>5, <3>1, <3>2
  <2>6. Kept(nx, x.next, f.sblk, i)
    BY <2>5 DEF Kept
  <2>7. \A k \in Nat : k <= i => ChainAt(x.next, f.sblk, k) = ChainAt(nx, f.sblk, k)
    BY <2>6, ChainFrame
  <2> QED  BY <2>1, <2>3, <2>4, <2>7
<1> QED  BY <1>1, <1>2, <1>3, <1>4 DEF Expanded

(* The parts of all files, from what a step does to the chain and the data  *)
(* of one.                                                                  *)
LEMMA PartsAfter ==
  ASSUME NEW nx, NEW mx, NEW it, NEW jt, NEW dt, NEW et, NEW e \in Entry,
         Parts(nx, it, dt), Differ(it, jt, e), OthersKept(nx, mx, it, e),
         \A d \in Named(it), k \in Nat :
           d # e /\ ChainAt(nx, it[d].start, k) \in Cluster =>
             et[ChainAt(nx, it[d].start, k)] = dt[ChainAt(nx, it[d].start, k)],
         e \in Named(jt) => \A k \in Nat :
           k * ClusterSize < jt[e].size =>
             /\ ChainAt(mx, jt[e].start, k) \in Cluster
             /\ et[ChainAt(mx, jt[e].start, k)] = <<jt[e].name, k>>
  PROVE  Parts(mx, jt, et)
<1> SUFFICES ASSUME NEW d \in Named(jt), NEW k \in Nat, k * ClusterSize < jt[d].size
             PROVE  /\ ChainAt(mx, jt[d].start, k) \in Cluster
                    /\ et[ChainAt(mx, jt[d].start, k)] = <<jt[d].name, k>>
  BY DEF Parts
<1>1. CASE d = e
  BY <1>1
<1>2. CASE d # e
  <2>1. d \in Named(it) /\ jt[d] = it[d]
    BY <1>2 DEF Named, Differ
  <2>2. ChainAt(mx, it[d].start, k) = ChainAt(nx, it[d].start, k)
    BY <1>2, <2>1 DEF OthersKept
  <2>3. /\ ChainAt(nx, it[d].start, k) \in Cluster
        /\ dt[ChainAt(nx, it[d].start, k)] = <<it[d].name, k>>
    BY <2>1 DEF Parts
  <2> QED  BY <1>2, <2>1, <2>2, <2>3
<1> QED  BY <1>1, <1>2

-----------------------------------------------------------------------------
(* Clusters some file has, and steps that lose none: what is neither free   *)
(* nor a file's afterwards was so before.                                   *)
Reached(nx, it) == {c \in Cluster : \E e \in Named(it), k \in Nat : ChainAt(nx, it[e].start, k) = c}
NoLoss(nx, mx, it, jt) ==
  \A c \in Cluster : mx[c] # FREE /\ c \notin Reached(mx, jt) => nx[c] # FREE /\ c \notin Reached(nx, it)

(* The cluster after one. *)
LEMMA NextAt ==
  ASSUME NEW nx, NEW c, NEW i \in Nat, NEW d, ChainAt(nx, c, i) = d
  PROVE  ChainAt(nx, c, i + 1) = GetNext(nx, d)
BY ChainSteps

(* Nothing is lost when the table and the start of every file stay.         *)
LEMMA NoLossSame ==
  ASSUME NEW nx, NEW it, NEW jt, NEW e, Differ(it, jt, e),
         e \in Named(it) => e \in Named(jt) /\ jt[e].start = it[e].start
  PROVE  NoLoss(nx, nx, it, jt)
<1>1. \A d \in Named(it) : d \in Named(jt) /\ jt[d].start = it[d].start
  BY DEF Differ, Named
<1>2. Reached(nx, it) \subseteq Reached(nx, jt)
  BY <1>1 DEF Reached
<1> QED  BY <1>2 DEF NoLoss

(* Freeing the chain of a file loses nothing.                               *)
LEMMA NoLossFree ==
  ASSUME NEW nx, NEW it, NEW jt, NEW e \in Named(it), Trees(nx, it), Differ(it, jt, e),
         NEW mx, mx = FreeChain(nx, it[e].start), OthersKept(nx, mx, it, e)
  PROVE  NoLoss(nx, mx, it, jt)
<1> SUFFICES ASSUME NEW c \in Cluster, mx[c] # FREE, c \notin Reached(mx, jt)
             PROVE  nx[c] # FREE /\ c \notin Reached(nx, it)
  BY DEF NoLoss
<1> DEFINE s == it[e].start
<1>1. IsTable(nx) /\ Rooted(nx, s)
  BY DEF Trees
<1>2. mx[c] = IF c \in ChainSet(nx, s) THEN FREE ELSE nx[c]
  BY DEF FreeChain
<1>3. c \notin ChainSet(nx, s) /\ nx[c] # FREE
  BY <1>2
<1>4. \A k \in Nat : ChainAt(nx, s, k) # c
  <2> HIDE DEF s
  <2> QED  BY <1>1, <1>3, InChainSet
<1>5. ASSUME NEW d \in Named(it), d # e, NEW k \in Nat, ChainAt(nx, it[d].start, k) = c
      PROVE  FALSE
  <2>1. d \in Named(jt) /\ jt[d] = it[d]
    BY <1>5 DEF Differ, Named
  <2>2. ChainAt(mx, it[d].start, k) = c
    BY <1>5 DEF OthersKept
  <2> QED  BY <2>1, <2>2 DEF Reached
<1> QED  BY <1>3, <1>4, <1>5 DEF Reached

(* Growing a file loses nothing, unless the new clusters are linked after a *)
(* cluster that had another next.                                           *)
LEMMA NoLossGrow ==
  ASSUME NEW nx, NEW it, NEW jt, NEW e \in Named(it), Trees(nx, it), Differ(it, jt, e), e \in Named(jt),
         NEW f \in FileRec, f.sblk = it[e].start, NEW i \in Nat, f.cblk = ChainAt(nx, f.sblk, i),
         NEW inc, NEW x, Expanded(nx, f, inc, x), Private(nx, it, e, f),
         jt[e].start = x.f.sblk, OthersKept(nx, x.next, it, e)
  PROVE  \/ NoLoss(nx, x.next, it, jt)
         \/ f.cblk \in Cluster /\ x.ok /\ nx[f.cblk] \in Cluster /\ x.next[f.cblk] # nx[f.cblk]
<1> DEFINE s == it[e].start
           b == f.cblk
<1>1. IsTable(nx) /\ Rooted(nx, s)
  BY DEF Trees
<1>2. \A d \in Named(it) : d # e => d \in Named(jt) /\ jt[d] = it[d]
  BY DEF Differ, Named
<1>3. CASE x.next = nx /\ x.f = f
  BY <1>3, NoLossSame
<1>4. ASSUME NEW mx, x.next = mx, NEW c \in Cluster, nx[c] # FREE, c \notin Reached(mx, jt),
             c \in Reached(nx, it)
      PROVE  \E k \in Nat : ChainAt(nx, s, k) = c
  <2>1. PICK d \in Named(it) : \E k \in Nat : ChainAt(nx, it[d].start, k) = c
    BY <1>4 DEF Reached
  <2>2. PICK k \in Nat : ChainAt(nx, it[d].start, k) = c
    BY <2>1
  <2>3. ASSUME d # e PROVE FALSE
    <3>1. ChainAt(mx, jt[d].start, k) = c /\ d \in Named(jt)
      BY <1>2, <1>4, <2>2, <2>3 DEF OthersKept
    <3> QED  BY <1>4, <3>1 DEF Reached
  <2> QED  BY <2>2, <2>3
<1>5. ASSUME f.sblk \notin Cluster, NEW a, Allocated(nx, a), x.next = a.next, x.f.sblk = a.start
      PROVE  NoLoss(nx, x.next, it, jt)
  <2> SUFFICES ASSUME NEW c \in Cluster, a.next[c] # FREE, c \notin Reached(a.next, jt)
               PROVE  nx[c] # FREE /\ c \notin Reached(nx, it)
    BY <1>5 DEF NoLoss
  <2>1. nx[c] # FREE
    <3> SUFFICES ASSUME nx[c] = FREE PROVE FALSE
      OBVIOUS
    <3>1. PICK k \in Nat : ChainAt(a.next, a.start, k) = c
      BY <1>5 DEF Allocated
    <3> QED  BY <1>5, <3>1 DEF Reached
  <2>2. ASSUME c \in Reached(nx, it) PROVE FALSE
    <3>1. PICK k \in Nat : ChainAt(nx, s, k) = c
      BY <1>4, <1>5, <2>1, <2>2
    <3>2. s = INVALID
      BY <1>1, <1>5 DEF Rooted, Root
    <3> QED  BY <3>1, <3>2, NoChain, Clusters
  <2> QED  BY <2>1, <2>2
<1>6. ASSUME f.sblk \in Cluster, NEW a, Allocated(nx, a), x.next = Linked(a, b), x.f = f, x.ok
      PROVE  \/ NoLoss(nx, x.next, it, jt)
             \/ b \in Cluster /\ x.ok /\ nx[b] \in Cluster /\ x.next[b] # nx[b]
  <2> DEFINE mx == x.next
  <2>1. b \in Cluster /\ nx[b] # FREE
    BY <1>6 DEF Private
  <2>2. /\ mx[b] = a.start
        /\ \A c \in Cluster : c # b => mx[c] = a.next[c]
        /\ \A k \in Nat : ChainAt(mx, a.start, k) = ChainAt(a.next, a.start, k)
    <3>1. mx = Linked(a, b)
      BY <1>6
    <3> HIDE DEF mx, b
    <3> QED  BY <1>1, <1>6, <2>1, <3>1, LinkGrows
  <2>3. CASE nx[b] \in Cluster
    <3>1. nx[a.start] = FREE /\ nx[nx[b]] # FREE
      BY <1>1, <1>6, <2>1, <2>3 DEF Allocated, IsTable
    <3> QED  BY <1>6, <2>1, <2>2, <2>3, <3>1
  <2>4. CASE nx[b] \notin Cluster
    <3> SUFFICES ASSUME NEW c \in Cluster, mx[c] # FREE, c \notin Reached(mx, jt)
                 PROVE  nx[c] # FREE /\ c \notin Reached(nx, it)
      BY DEF NoLoss
    <3>1. Root(nx, f.sblk)
      BY <1>1, <1>6, Clusters DEF Rooted
    <3>2. \A k \in Nat : k <= i => ChainAt(mx, s, k) = ChainAt(nx, s, k)
      BY <1>1, <2>1, <3>1, OwnChain
    <3>3. jt[e].start = s
      BY <1>6
    <3>4. \A k \in Nat : ChainAt(mx, s, k) # c
      BY <3>3 DEF Reached
    <3>5. ChainAt(mx, s, i + 1) = a.start
      <4>1. ChainAt(mx, s, i) = b /\ GetNext(mx, b) = a.start
        <5>1. i <= i
          OBVIOUS
        <5> QED  BY <2>1, <2>2, <3>2, <5>1 DEF GetNext
      <4> HIDE DEF mx, s, b
      <4> QED  BY <4>1, NextAt
    <3>6. nx[c] # FREE
      <4> SUFFICES ASSUME nx[c] = FREE PROVE FALSE
        OBVIOUS
      <4>1. a.next[c] # FREE
        BY <2>1, <2>2
      <4>2. PICK k \in Nat : ChainAt(a.next, a.start, k) = c
        BY <1>6, <4>1 DEF Allocated
      <4>3. ChainAt(mx, a.start, k) = c
        BY <2>2, <4>2
      <4>4. ChainAt(mx, s, (i + 1) + k) = ChainAt(mx, ChainAt(mx, s, i + 1), k)
        <5> HIDE DEF mx, s
        <5>1. i + 1 \in Nat
          OBVIOUS
        <5> QED  BY <5>1, ChainSum
      <4>5. (i + 1) + k \in Nat
        OBVIOUS
      <4> QED  BY <3>4, <3>5, <4>3, <4>4, <4>5
    <3>7. ASSUME c \in Reached(nx, it) PROVE FALSE
      <4>1. PICK k \in Nat : ChainAt(nx, s, k) = c
        BY <1>4, <3>6, <3>7
      <4>2. CASE k <= i
        BY <3>2, <3>4, <4>1, <4>2
      <4>3. CASE k > i
        <5> HIDE DEF s, b
        <5>0. ChainAt(nx, s, i) = b
          BY DEF s, b
        <5>1. ChainAt(nx, s, i + 1) = GetNext(nx, b) /\ GetNext(nx, b) = nx[b]
          BY <2>1, <5>0, NextAt DEF GetNext
        <5>2. ChainAt(nx, s, k) \in Cluster /\ i + 1 \in Nat /\ i + 1 <= k
          BY <4>1, <4>3
        <5>3. ChainAt(nx, s, i + 1) \in Cluster
          BY <5>2, ChainPrefix
        <5> QED  BY <2>4, <5>1, <5>3
      <4> QED  BY <4>2, <4>3
    <3> QED  BY <3>6, <3>7
  <2> QED  BY <2>3, <2>4
<1>7. CASE x.next # nx \/ x.f # f
  <2>1. ASSUME f.sblk \notin Cluster, NEW a, Allocated(nx, a),
               x = [ok |-> TRUE, next |-> a.next, f |-> [f EXCEPT !.sblk = a.start, !.cblk = a.start]]
        PROVE  NoLoss(nx, x.next, it, jt)
    <3>1. x.next = a.next /\ x.f = [f EXCEPT !.sblk = a.start, !.cblk = a.start]
      BY <2>1
    <3>2. x.f.sblk = a.start
      BY <3>1 DEF FileRec
    <3> QED  BY <1>5, <2>1, <3>1, <3>2
  <2>2. ASSUME f.sblk \in Cluster, NEW a, Allocated(nx, a),
               x = [ok |-> TRUE, next |-> Linked(a, f.cblk), f |-> f]
        PROVE  \/ NoLoss(nx, x.next, it, jt)
               \/ b \in Cluster /\ x.ok /\ nx[b] \in Cluster /\ x.next[b] # nx[b]
    <3>1. x.next = Linked(a, b) /\ x.f = f /\ x.ok
      BY <2>2
    <3> QED  BY <1>6, <2>2, <3>1
  <2>3. CASE \/ Spare(f) > inc /\ x = [ok |-> TRUE, next |-> nx, f |-> f]
             \/ x = [ok |-> FALSE, next |-> nx, f |-> f]
    BY <1>7, <2>3
  <2> QED  BY <2>1, <2>2, <2>3 DEF Expanded
<1> QED  BY <1>3, <1>7

-----------------------------------------------------------------------------
(* The items: what a writer has, or else what the entry says.               *)
UsersIn(fl, e) == {h \in Handle : fl[h].mode # "closed" /\ fl[h].p_index = e}
WritersIn(fl, e) == {h \in Handle : fl[h].mode = "write" /\ fl[h].p_index = e}
ItemIn(fl, dr, e) ==
  IF WritersIn(fl, e) = {} THEN dr[e]
  ELSE LET h == CHOOSE h \in Handle : h \in WritersIn(fl, e)
       IN  [name |-> dr[e].name, start |-> fl[h].sblk, size |-> fl[h].size]
ItemsIn(fl, dr) == [e \in Entry |-> ItemIn(fl, dr, e)]

(* No file has another user beside a writer. *)
SoleIn(fl) ==
  \A g, h \in Handle :
    g # h /\ fl[g].mode # "closed" /\ fl[h].mode = "write" => fl[g].p_index # fl[h].p_index

Item == [name : Name \cup {None, "deleted", "label"}, start : Link, size : Nat]

(* An item has the name of its entry, and its start and size unless it is   *)
(* written.                                                                 *)
LEMMA ItemFacts ==
  ASSUME NEW fl, NEW dr, NEW e \in Entry
  PROVE  /\ ItemsIn(fl, dr)[e].name = dr[e].name
         /\ WritersIn(fl, e) = {} => ItemsIn(fl, dr)[e] = dr[e]
<1>1. ItemsIn(fl, dr)[e] = ItemIn(fl, dr, e)
  BY DEF ItemsIn
<1> QED  BY <1>1 DEF ItemIn

(* An item that is written is the writer's.                                 *)
LEMMA WrittenItem ==
  ASSUME NEW fl, SoleIn(fl), NEW dr, NEW h \in Handle, fl[h].mode = "write", fl[h].p_index \in Entry
  PROVE  ItemsIn(fl, dr)[fl[h].p_index] =
           [name |-> dr[fl[h].p_index].name, start |-> fl[h].sblk, size |-> fl[h].size]
<1> DEFINE e == fl[h].p_index
           w == CHOOSE g \in Handle : g \in WritersIn(fl, e)
<1>1. h \in WritersIn(fl, e)
  BY DEF WritersIn
<1>2. \A g \in Handle : g \in WritersIn(fl, e) => g = h
  BY DEF WritersIn, SoleIn
<1>3. w = h
  BY <1>1, <1>2
<1>4. ItemsIn(fl, dr)[e] = ItemIn(fl, dr, e)
  BY DEF ItemsIn
<1>5. ItemIn(fl, dr, e) = [name |-> dr[e].name, start |-> fl[w].sblk, size |-> fl[w].size]
  BY <1>1 DEF ItemIn
<1> QED  BY <1>3, <1>4, <1>5

(* A call changes one file and at most its entry: the other items stay.     *)
LEMMA ItemsAfter ==
  ASSUME NEW fl \in [Handle -> FileRec], NEW dr, NEW er, NEW h \in Handle, NEW g, NEW e,
         fl[h].mode = "write" => fl[h].p_index = e,
         g.mode = "write" => g.p_index = e,
         \A d \in Entry : d # e => er[d] = dr[d]
  PROVE  Differ(ItemsIn(fl, dr), ItemsIn([fl EXCEPT ![h] = g], er), e)
<1> DEFINE gl == [fl EXCEPT ![h] = g]
<1>1. gl[h] = g /\ \A j \in Handle : j # h => gl[j] = fl[j]
  OBVIOUS
<1> HIDE DEF gl
<1> SUFFICES ASSUME NEW d \in Entry, d # e
             PROVE  ItemsIn(gl, er)[d] = ItemsIn(fl, dr)[d]
  BY DEF Differ, gl
<1>2. WritersIn(gl, d) = WritersIn(fl, d) /\ h \notin WritersIn(fl, d)
  BY <1>1 DEF WritersIn
<1>3. er[d] = dr[d]
  OBVIOUS
<1>4. CASE WritersIn(fl, d) = {}
  <2>1. ItemsIn(gl, er)[d] = er[d] /\ ItemsIn(fl, dr)[d] = dr[d]
    BY <1>2, <1>4, ItemFacts
  <2> QED  BY <1>3, <2>1
<1>5. CASE WritersIn(fl, d) # {}
  <2> DEFINE w == CHOOSE j \in Handle : j \in WritersIn(fl, d)
  <2>1. w \in WritersIn(fl, d) /\ w \in Handle
    BY <1>5 DEF WritersIn
  <2>2. gl[w] = fl[w]
    BY <1>1, <1>2, <2>1
  <2>3. ItemsIn(gl, er)[d] = ItemIn(gl, er, d) /\ ItemsIn(fl, dr)[d] = ItemIn(fl, dr, d)
    BY DEF ItemsIn
  <2>4. ItemIn(fl, dr, d) = [name |-> dr[d].name, start |-> fl[w].sblk, size |-> fl[w].size]
    BY <1>5 DEF ItemIn
  <2>5. ItemIn(gl, er, d) = [name |-> er[d].name, start |-> gl[w].sblk, size |-> gl[w].size]
    BY <1>2, <1>5 DEF ItemIn
  <2> HIDE DEF w
  <2> QED  BY <1>3, <2>2, <2>3, <2>4, <2>5
<1> QED  BY <1>4, <1>5

-----------------------------------------------------------------------------
(* The inductive invariant of Fat.                                          *)

(* An open file has the start and the size of its item, and its current     *)
(* cluster is the one of its position.                                      *)
Fits(nx, it, f) ==
  /\ f.p_index \in Named(it)
  /\ f.sblk = it[f.p_index].start /\ f.size = it[f.p_index].size
  /\ f.cblk = ChainAt(nx, f.sblk, f.pos \div ClusterSize)
  /\ f.pos <= f.size /\ f.size <= MaxSize

(* A writer has a cluster unless the file is empty, and during a write call *)
(* in any case.                                                             *)
WriterFits(f, h, b) ==
  f.mode = "write" =>
    /\ f.sblk \in Cluster => f.cblk \in Cluster
    /\ f.sblk \notin Cluster => f.pos = 0 /\ f.size = 0 /\ b # h

(* A writer is at the end of its file.                                      *)
AtEnd(fl) == \A h \in Handle : fl[h].mode = "write" => fl[h].pos = fl[h].size

FilesFit(fl, nx, it, b) ==
  /\ fl \in [Handle -> FileRec]
  /\ \A h \in Handle : fl[h].mode = "closed" => fl[h] = Closed
  /\ SoleIn(fl)
  /\ \A h \in Handle : fl[h].mode # "closed" => Fits(nx, it, fl[h])
  /\ \A h \in Handle : WriterFits(fl[h], h, b)

(* What is left of a call stays inside the file, or below the bound. *)
CallFits(fl, b, n) ==
  b # None =>
    /\ b \in Handle /\ n \in 1 .. MaxChunk
    /\ fl[b].mode # "closed"
    /\ fl[b].mode = "read" => fl[b].pos + n <= fl[b].size
    /\ fl[b].mode = "write" => fl[b].size + n <= MaxSize

DirType == [Entry -> [name : Name \cup {None, "deleted", "label"}, start : Link, size : 0 .. MaxSize]]
Items == ItemsIn(file, dir)

FatInv ==
  /\ dir \in DirType
  /\ busy \in Handle \cup {None} /\ left \in 0 .. MaxChunk /\ noSpace \in BOOLEAN
  /\ Trees(next, Items)
  /\ FilesFit(file, next, Items, busy)
  /\ CallFits(file, busy, left)
  /\ ~ noSpace => AtEnd(file) /\ Parts(next, Items, data)

(* None is neither a handle nor a name.                                     *)
LEMMA NoneIsNoHandle == None \notin Handle /\ None \notin Name
BY FatAssumption

(* A step that loses no cluster, and the step that does: a write that links *)
(* new clusters after one that had a next.                                  *)
Keeps == NoLoss(next, next', Items, Items')
LossyLink(h) ==
  /\ busy' = h /\ file[h].mode = "write"
  /\ GetNext(next, file[h].cblk) \in Cluster
  /\ next'[file[h].cblk] # next[file[h].cblk]

(* The table and the items stay. *)
LEMMA SameKeeps ==
  ASSUME next' = next, Items' = Items
  PROVE  Keeps
BY DEF Keeps, NoLoss

(* A file that is as the invariant says.                                    *)
FileFits(nx, it, f, h, b) ==
  /\ f.mode = "closed" => f = Closed
  /\ f.mode # "closed" => Fits(nx, it, f)
  /\ WriterFits(f, h, b)

(* The other open files fit too, and g shares its entry only with readers.  *)
OthersFit(nx, it, fl, h) == \A j \in Handle : j # h /\ fl[j].mode # "closed" => Fits(nx, it, fl[j])
Shares(fl, h, g) ==
  \A j \in Handle : j # h /\ fl[j].mode # "closed" /\ g.mode # "closed" /\ (g.mode = "write" \/ fl[j].mode = "write")
                      => fl[j].p_index # g.p_index

(* One file is changed and no other uses its entry, or only reads it.       *)
LEMMA FilesAfter ==
  ASSUME NEW fl, NEW nx, NEW it, NEW b, FilesFit(fl, nx, it, b),
         NEW h \in Handle, NEW g \in FileRec, NEW mx, NEW jt, NEW c,
         FileFits(mx, jt, g, h, c), OthersFit(mx, jt, fl, h), Shares(fl, h, g),
         c = None \/ c = h,
         NEW gl, gl = [fl EXCEPT ![h] = g]
  PROVE  FilesFit(gl, mx, jt, c)
<1>1. fl \in [Handle -> FileRec]
  BY DEF FilesFit
<1>2. gl \in [Handle -> FileRec] /\ gl[h] = g /\ \A j \in Handle : j # h => gl[j] = fl[j]
  BY <1>1
<1>3. \A j \in Handle : gl[j].mode = "closed" => gl[j] = Closed
  BY <1>2 DEF FilesFit, FileFits
<1>4. SoleIn(gl)
  <2> SUFFICES ASSUME NEW i \in Handle, NEW j \in Handle, i # j, gl[i].mode # "closed", gl[j].mode = "write"
               PROVE  gl[i].p_index # gl[j].p_index
    BY DEF SoleIn
  <2>1. CASE i # h /\ j # h
    <3>1. SoleIn(fl)
      BY DEF FilesFit
    <3> QED  BY <1>2, <2>1, <3>1 DEF SoleIn
  <2>2. CASE i = h
    BY <1>2, <2>2 DEF Shares
  <2>3. CASE j = h
    BY <1>2, <2>3 DEF Shares
  <2> QED  BY <2>1, <2>2, <2>3
<1>5. \A j \in Handle : gl[j].mode # "closed" => Fits(mx, jt, gl[j])
  BY <1>2 DEF OthersFit, FileFits
<1>6. ASSUME NEW j \in Handle
      PROVE  WriterFits(gl[j], j, c)
  <2>1. CASE j = h
    BY <1>2, <2>1 DEF FileFits
  <2>2. CASE j # h
    <3>1. WriterFits(fl[j], j, b) /\ c # j
      BY <2>2, NoneIsNoHandle DEF FilesFit
    <3> QED  BY <1>2, <2>2, <3>1 DEF WriterFits
  <2> QED  BY <2>1, <2>2
<1> QED  BY <1>2, <1>3, <1>4, <1>5, <1>6 DEF FilesFit

(* The writers stay at the end when the one that changes is there.          *)
LEMMA AtEndAfter ==
  ASSUME NEW fl \in [Handle -> FileRec], AtEnd(fl), NEW h \in Handle, NEW g,
         g.mode = "write" => g.pos = g.size, NEW gl, gl = [fl EXCEPT ![h] = g]
  PROVE  AtEnd(gl)
BY DEF AtEnd

(* What happens to another file does not concern an open one.               *)
LEMMA FitsKept ==
  ASSUME NEW nx, NEW mx, NEW it, NEW jt, NEW e, NEW f, Fits(nx, it, f), f.pos \in Nat, f.p_index # e,
         Differ(it, jt, e), OthersKept(nx, mx, it, e)
  PROVE  Fits(mx, jt, f)
<1> DEFINE d == f.p_index
<1>1. d \in Named(it) /\ d # e /\ f.sblk = it[d].start
  BY DEF Fits
<1>2. jt[d] = it[d] /\ d \in Named(jt)
  BY <1>1 DEF Differ, Named
<1>3. f.pos \div ClusterSize \in Nat
  BY Sizes
<1>4. ChainAt(mx, f.sblk, f.pos \div ClusterSize) = ChainAt(nx, f.sblk, f.pos \div ClusterSize)
  BY <1>1, <1>3 DEF OthersKept
<1> QED  BY <1>1, <1>2, <1>4 DEF Fits

(* The items when a call changes no entry and no writer.                    *)
LEMMA ItemsSame ==
  ASSUME NEW fl \in [Handle -> FileRec], NEW dr, NEW h \in Handle, NEW g,
         fl[h].mode # "write", g.mode # "write"
  PROVE  ItemsIn([fl EXCEPT ![h] = g], dr) = ItemsIn(fl, dr)
<1> DEFINE it == ItemsIn(fl, dr)
           jt == ItemsIn([fl EXCEPT ![h] = g], dr)
<1>1. Differ(it, jt, 0)
  BY ItemsAfter
<1>2. \A d \in Entry : d # 0
  BY DEF Entry
<1>3. \A d \in Entry : jt[d] = it[d]
  BY <1>1, <1>2 DEF Differ
<1>4. it = [d \in Entry |-> it[d]] /\ jt = [d \in Entry |-> jt[d]]
  BY DEF ItemsIn
<1> HIDE DEF it, jt
<1>5. it = jt
  BY <1>3, <1>4
<1> QED  BY <1>5 DEF it, jt

(* Every chain of an item ends or goes on to a cluster in use.              *)
LEMMA ItemChains ==
  ASSUME NEW nx, NEW it, Trees(nx, it), NEW e \in Named(it)
  PROVE  /\ IsTable(nx) /\ Rooted(nx, it[e].start)
         /\ it[e].start \in Cluster \cup {INVALID}
         /\ \A k \in Nat : /\ ChainAt(nx, it[e].start, k) \in Cluster \cup {INVALID}
                           /\ ChainAt(nx, it[e].start, k) \in Cluster =>
                                nx[ChainAt(nx, it[e].start, k)] # FREE
<1>1. IsTable(nx) /\ Rooted(nx, it[e].start)
  BY DEF Trees
<1> QED  BY <1>1, ChainType DEF Rooted, Root

-----------------------------------------------------------------------------
(* The initial state, and the steps that change neither table nor entries.  *)

(* The users and writers of an entry.                                       *)
LEMMA WritersAre ==
  \A e : Users(e) = UsersIn(file, e) /\ Writers(e) = WritersIn(file, e)
BY DEF Users, Writers, UsersIn, WritersIn

(* What the invariant says of one open file.                                *)
LEMMA OpenFile ==
  ASSUME FatInv, NEW h \in Handle, file[h].mode # "closed"
  PROVE  /\ file[h] \in FileRec /\ Fits(next, Items, file[h]) /\ WriterFits(file[h], h, busy)
         /\ file[h].p_index \in Entry
         /\ dir[file[h].p_index].name \in Name
         /\ IsTable(next) /\ Rooted(next, file[h].sblk)
         /\ file[h].cblk \in Cluster \cup {INVALID}
         /\ file[h].cblk \in Cluster => next[file[h].cblk] # FREE
<1>1. file \in [Handle -> FileRec] /\ Fits(next, Items, file[h]) /\ WriterFits(file[h], h, busy)
  BY DEF FatInv, FilesFit
<1>2. file[h] \in FileRec
  BY <1>1
<1> DEFINE e == file[h].p_index
<1>3. e \in Named(Items) /\ file[h].sblk = Items[e].start
  BY <1>1 DEF Fits
<1>4. e \in Entry /\ Items[e].name \in Name /\ Items[e].name = dir[e].name
  BY <1>3, ItemFacts DEF Named, Items
<1>5. Trees(next, Items)
  BY DEF FatInv
<1>6. file[h].pos \div ClusterSize \in Nat
  <2>1. file[h].pos \in Nat
    BY <1>2 DEF FileRec
  <2> QED  BY <2>1, Sizes
<1>7. /\ IsTable(next) /\ Rooted(next, file[h].sblk)
      /\ ChainAt(next, file[h].sblk, file[h].pos \div ClusterSize) \in Cluster \cup {INVALID}
      /\ ChainAt(next, file[h].sblk, file[h].pos \div ClusterSize) \in Cluster =>
           next[ChainAt(next, file[h].sblk, file[h].pos \div ClusterSize)] # FREE
  <2> HIDE DEF e
  <2> QED  BY <1>3, <1>5, <1>6, ItemChains
<1>8. file[h].cblk = ChainAt(next, file[h].sblk, file[h].pos \div ClusterSize)
  BY <1>1 DEF Fits
<1> QED  BY <1>1, <1>2, <1>4, <1>7, <1>8

(* What a directory entry can be.                                           *)
LEMMA ItemOf ==
  ASSUME NEW n \in Name \cup {None, "deleted", "label"}, NEW s \in Link, NEW z \in 0 .. MaxSize
  PROVE  [name |-> n, start |-> s, size |-> z]
           \in [name : Name \cup {None, "deleted", "label"}, start : Link, size : 0 .. MaxSize]
OBVIOUS

(* At first there is no file.                                               *)
LEMMA FatInitInv == Init => FatInv
<1> SUFFICES ASSUME Init PROVE FatInv
  OBVIOUS
<1>1. \A e \in Entry : dir[e].name \in {None, "deleted", "label"} /\ dir[e].start = FREE /\ dir[e].size = 0
  <2> SUFFICES ASSUME NEW e \in Entry
               PROVE  dir[e].name \in {None, "deleted", "label"} /\ dir[e].start = FREE /\ dir[e].size = 0
    OBVIOUS
  <2>1. CASE e <= Len(Image)
    <3>1. Image \in Seq({"deleted", "label"}) /\ e \in 1 .. Len(Image)
      BY <2>1, FatAssumption DEF Entry
    <3>2. Image[e] \in {"deleted", "label"}
      BY <3>1
    <3>3. dir[e] = ImageItem(e)
      BY <2>1 DEF Init
    <3> QED  BY <3>2, <3>3 DEF ImageItem
  <2>2. CASE ~ e <= Len(Image)
    BY <2>2 DEF Init, EndItem
  <2> QED  BY <2>1, <2>2
<1>2. dir \in DirType
  <2>1. dir = [e \in Entry |-> IF e <= Len(Image) THEN ImageItem(e) ELSE EndItem]
    BY DEF Init
  <2>2. ASSUME NEW e \in Entry
        PROVE  dir[e] = [name |-> dir[e].name, start |-> dir[e].start, size |-> dir[e].size]
    BY <2>1 DEF ImageItem, EndItem
  <2>3. ASSUME NEW e \in Entry
        PROVE  dir[e] \in [name : Name \cup {None, "deleted", "label"}, start : Link, size : 0 .. MaxSize]
    <3>1. FREE \in Link
      BY DEF Link
    <3>2. 0 \in 0 .. MaxSize
      BY FatAssumption
    <3>3. dir[e].name \in Name \cup {None, "deleted", "label"} /\ dir[e].start \in Link /\ dir[e].size \in 0 .. MaxSize
      BY <1>1, <3>1, <3>2
    <3> DEFINE n == dir[e].name
               s == dir[e].start
               z == dir[e].size
               i == dir[e]
    <3>4. i = [name |-> n, start |-> s, size |-> z]
      BY <2>2
    <3>5. n \in Name \cup {None, "deleted", "label"} /\ s \in Link /\ z \in 0 .. MaxSize
      BY <3>3
    <3> HIDE DEF n, s, z, i
    <3>6. i \in [name : Name \cup {None, "deleted", "label"}, start : Link, size : 0 .. MaxSize]
      BY <3>4, <3>5, ItemOf
    <3> QED  BY <3>6 DEF i
  <2>4. dir = [e \in Entry |-> dir[e]]
    BY <2>1
  <2> QED  BY <2>3, <2>4 DEF DirType
<1>3. Closed \in FileRec /\ Closed.mode = "closed"
  BY DEF Closed, FileRec, Link, INVALID
<1>4. file = [h \in Handle |-> Closed] /\ \A h \in Handle : file[h] = Closed
  BY DEF Init
<1>5. Named(Items) = {}
  <2>1. \A e \in Entry : Items[e].name = dir[e].name
    BY ItemFacts DEF Items
  <2>2. \A e \in Entry : dir[e].name \notin Name
    BY <1>1, FatAssumption
  <2> QED  BY <2>1, <2>2 DEF Named
<1>6. IsTable(next)
  <2>1. next = [c \in Cluster |-> FREE]
    BY DEF Init
  <2> QED  BY <2>1, Clusters DEF IsTable, Link
<1>7. FilesFit(file, next, Items, busy)
  BY <1>3, <1>4 DEF FilesFit, SoleIn, WriterFits
<1>8. Trees(next, Items) /\ Parts(next, Items, data)
  BY <1>5, <1>6 DEF Trees, Parts
<1>9. busy = None /\ left \in 0 .. MaxChunk /\ noSpace \in BOOLEAN
  <2>1. 0 \in 0 .. MaxChunk
    BY FatAssumption
  <2> QED  BY <2>1 DEF Init
<1>10. AtEnd(file)
  BY <1>3, <1>4 DEF AtEnd
<1> QED  BY <1>2, <1>7, <1>8, <1>9, <1>10 DEF FatInv, CallFits

(* fopen "r".                                                               *)
LEMMA OpenReadInv ==
  ASSUME FatInv, NEW h \in Handle, NEW n \in Name, OpenRead(h, n)
  PROVE  FatInv' /\ Keeps
<1>1. PICK e \in Entry : /\ Visible(n, e) /\ Writers(e) = {}
                         /\ file' = [file EXCEPT ![h] = FromItem(dir[e], e, "read")]
  BY DEF OpenRead
<1> DEFINE g == FromItem(dir[e], e, "read")
<1>2. /\ next' = next /\ dir' = dir /\ data' = data /\ busy' = busy /\ left' = left /\ noSpace' = noSpace
      /\ busy = None /\ file[h].mode = "closed"
  BY DEF OpenRead
<1>3. file \in [Handle -> FileRec] /\ dir \in DirType /\ Trees(next, Items)
      /\ FilesFit(file, next, Items, busy)
  BY DEF FatInv, FilesFit
<1>4. dir[e].name = n /\ dir[e].start \in Link /\ dir[e].size \in 0 .. MaxSize
  BY <1>1, <1>3 DEF Visible, DirType
<1>5. g = [mode |-> "read", pos |-> 0, size |-> dir[e].size, sblk |-> dir[e].start, cblk |-> dir[e].start, p_index |-> e]
  BY DEF FromItem
<1>6. g \in FileRec /\ e \in Nat
  BY <1>4, <1>5 DEF FileRec, Entry
<1>7. Items' = Items
  <2>1. ItemsIn([file EXCEPT ![h] = g], dir) = ItemsIn(file, dir)
    <3>1. file[h].mode # "write" /\ g.mode # "write"
      BY <1>2, <1>5
    <3> HIDE DEF g
    <3> QED  BY <1>3, <3>1, ItemsSame
  <2> QED  BY <1>1, <1>2, <2>1 DEF Items
<1>8. WritersIn(file, e) = {} /\ Items[e] = dir[e] /\ e \in Named(Items)
  BY <1>1, <1>4, WritersAre, ItemFacts DEF Items, Named
<1>9. Fits(next, Items, g)
  <2>1. 0 \div ClusterSize = 0
    BY Sizes
  <2>2. ChainAt(next, dir[e].start, 0) = dir[e].start
    BY ChainSteps
  <2>3. 0 <= dir[e].size /\ dir[e].size <= MaxSize
    BY <1>4, Sizes
  <2> QED  BY <1>5, <1>8, <2>1, <2>2, <2>3 DEF Fits
<1>10. FilesFit(file', next, Items, busy)
  <2>1. g.mode = "read" /\ g.p_index = e
    BY <1>5
  <2>2. WriterFits(g, h, busy)
    BY <2>1 DEF WriterFits
  <2>3. \A j \in Handle : file[j].mode # "closed" => Fits(next, Items, file[j])
    BY <1>3 DEF FilesFit
  <2>4. busy = None
    BY <1>2
  <2>5. \A j \in Handle : file[j].mode = "write" => file[j].p_index # e
    BY <1>8 DEF WritersIn
  <2> HIDE DEF g
  <2>6. OthersFit(next, Items, file, h) /\ Shares(file, h, g)
    BY <2>1, <2>3, <2>5 DEF OthersFit, Shares
  <2>7. g \in FileRec /\ FileFits(next, Items, g, h, busy)
    BY <1>6, <1>9, <2>1, <2>2 DEF FileFits
  <2>8. FilesFit([file EXCEPT ![h] = g], next, Items, busy)
    BY <1>3, <2>4, <2>6, <2>7, FilesAfter
  <2> QED  BY <1>1, <2>8 DEF g
<1>11. CallFits(file', busy, left)
  BY <1>2 DEF CallFits
<1>12. AtEnd(file) => AtEnd(file')
  <2>1. g.mode = "write" => g.pos = g.size
    BY <1>5
  <2> HIDE DEF g
  <2> QED  BY <1>1, <1>3, <2>1, AtEndAfter DEF g
<1>13. FatInv'
  BY <1>2, <1>3, <1>7, <1>10, <1>11, <1>12 DEF FatInv
<1> QED  BY <1>2, <1>7, <1>13, SameKeeps

(* The steps that change one reader and nothing else but the call.          *)
LEMMA ReaderStep ==
  ASSUME FatInv, NEW h \in Handle, file[h].mode = "read", busy = None \/ busy = h,
         NEW g \in FileRec, file' = [file EXCEPT ![h] = g], g.mode = "read",
         g.p_index = file[h].p_index, Fits(next, Items, g),
         UNCHANGED <<next, dir, data, noSpace>>,
         busy' = None \/ busy' = h, left' \in 0 .. MaxChunk,
         busy' = h => left' > 0 /\ g.pos + left' <= g.size
  PROVE  FatInv' /\ Keeps
<1>1. /\ file \in [Handle -> FileRec] /\ dir \in DirType /\ Trees(next, Items)
      /\ FilesFit(file, next, Items, busy) /\ noSpace \in BOOLEAN
      /\ ~ noSpace => AtEnd(file) /\ Parts(next, Items, data)
  BY DEF FatInv, FilesFit
<1>2. Items' = Items
  <2>1. ItemsIn([file EXCEPT ![h] = g], dir) = ItemsIn(file, dir)
    BY <1>1, ItemsSame
  <2> QED  BY <2>1 DEF Items
<1>3. FilesFit(file', next, Items, busy')
  <2>1. WriterFits(g, h, busy')
    BY DEF WriterFits
  <2>3. OthersFit(next, Items, file, h)
    BY <1>1 DEF FilesFit, OthersFit
  <2>4. Shares(file, h, g)
    BY <1>1 DEF FilesFit, SoleIn, Shares
  <2>5. g \in FileRec /\ FileFits(next, Items, g, h, busy')
    BY <2>1 DEF FileFits
  <2> QED  BY <1>1, <2>3, <2>4, <2>5, FilesAfter
<1>4. CallFits(file', busy', left')
  <2>1. file'[h] = g
    BY <1>1
  <2>2. busy' = h => left' \in 1 .. MaxChunk
    BY FatAssumption
  <2> QED  BY <2>1, <2>2 DEF CallFits
<1>5. busy' \in Handle \cup {None}
  OBVIOUS
<1>6. AtEnd(file) => AtEnd(file')
  BY <1>1, AtEndAfter
<1>7. FatInv'
  BY <1>1, <1>2, <1>3, <1>4, <1>5, <1>6 DEF FatInv
<1>8. next' = next
  OBVIOUS
<1> QED  BY <1>2, <1>7, <1>8, SameKeeps

(* Numbers of units and of clusters.                                        *)
LEMMA Quotient ==
  ASSUME NEW b \in Nat \ {0}, NEW a \in Int
  PROVE  /\ a \div b \in Int /\ a % b \in 0 .. b - 1
         /\ a = b * (a \div b) + (a % b)
OBVIOUS

(* And only they are.                                                       *)
LEMMA Division ==
  ASSUME NEW b \in Nat \ {0}, NEW q \in Int, NEW r \in 0 .. b - 1
  PROVE  (b * q + r) \div b = q /\ (b * q + r) % b = r
OBVIOUS

(* A move within a cluster, or to the start of the next.                    *)
LEMMA MoveArith ==
  ASSUME NEW p \in Nat, NEW n \in Nat, n <= ClusterSize - (p % ClusterSize)
  PROVE  /\ p \div ClusterSize \in Nat
         /\ (p % ClusterSize) + n < ClusterSize => (p + n) \div ClusterSize = p \div ClusterSize
         /\ (p % ClusterSize) + n >= ClusterSize => (p + n) \div ClusterSize = (p \div ClusterSize) + 1
<1> DEFINE b == ClusterSize
           q == p \div b
           r == p % b
<1>1. b \in Nat \ {0}
  BY Sizes
<1>2. q \in Int /\ r \in 0 .. b - 1 /\ p = b * q + r
  BY <1>1, Quotient
<1>3. q \in Nat
  BY <1>1
<1>4. r + n < b => (b * q + (r + n)) \div b = q
  <2>1. r + n < b => r + n \in 0 .. b - 1
    BY <1>1, <1>2
  <2> HIDE DEF b, q, r
  <2> QED  BY <1>1, <1>2, <2>1, Division
<1>5. (b * (q + 1) + 0) \div b = q + 1
  <2>1. q + 1 \in Int /\ 0 \in 0 .. b - 1
    BY <1>1, <1>2
  <2> HIDE DEF b, q, r
  <2> QED  BY <1>1, <2>1, Division
<1>6. b * (q + 1) + 0 = b * q + b /\ b * q \in Int
  BY <1>1, <1>2
<1>7. n <= b - r
  OBVIOUS
<1> HIDE DEF b, q, r
<1>8. r + n >= b => p + n = b * (q + 1) + 0
  BY <1>1, <1>2, <1>6, <1>7
<1>9. p + n = b * q + (r + n)
  BY <1>1, <1>2, <1>6
<1> QED  BY <1>3, <1>4, <1>5, <1>8, <1>9 DEF b, q, r

(* The clusters below a position: those before its own, and its own.        *)
LEMMA PartBelow ==
  ASSUME NEW p \in Nat, NEW k \in Nat
  PROVE  /\ k * ClusterSize < p => k <= p \div ClusterSize
         /\ k < p \div ClusterSize => k * ClusterSize < p
         /\ p \div ClusterSize \in Nat
<1> DEFINE b == ClusterSize
           q == p \div b
           r == p % b
<1>1. b \in Nat \ {0}
  BY Sizes
<1>2. q \in Int /\ r \in 0 .. b - 1 /\ p = b * q + r
  BY <1>1, Quotient
<1>3. q \in Nat
  BY <1>1
<1> HIDE DEF b, q, r
<1>4. ASSUME k * b < p PROVE k <= q
  <2> SUFFICES ASSUME k > q PROVE FALSE
    BY <1>3
  <2>1. PICK d \in Nat : k = q + 1 + d
    <3>1. k - q - 1 \in Nat /\ k = q + 1 + (k - q - 1)
      BY <1>3
    <3> QED  BY <3>1
  <2>2. k * b = q * b + b + d * b /\ d * b \in Nat /\ b * q = q * b /\ q * b \in Nat
    BY <1>1, <1>3, <2>1
  <2>3. p < q * b + b
    BY <1>1, <1>2, <2>2
  <2> QED  BY <1>1, <1>4, <2>2, <2>3
<1>5. ASSUME k < q PROVE k * b < p
  <2>1. PICK d \in Nat : q = k + 1 + d
    <3>1. q - k - 1 \in Nat /\ q = k + 1 + (q - k - 1)
      BY <1>3, <1>5
    <3> QED  BY <3>1
  <2>2. b * q = k * b + b + d * b /\ d * b \in Nat /\ k * b \in Nat
    BY <1>1, <1>3, <2>1
  <2> QED  BY <1>1, <1>2, <2>2
<1> QED  BY <1>3, <1>4, <1>5 DEF b, q

(* A read begins.                                                           *)
LEMMA ReadCallInv ==
  ASSUME FatInv, NEW h \in Handle, NEW n \in 1 .. MaxChunk, ReadCall(h, n)
  PROVE  FatInv' /\ Keeps
<1> DEFINE f == file[h]
<1>1. /\ busy = None /\ f.mode = "read" /\ f.pos < f.size /\ busy' = h
      /\ left' = Small(n, f.size - f.pos) /\ file' = file
      /\ UNCHANGED <<next, dir, data, noSpace>>
  BY DEF ReadCall
<1>2. f \in FileRec /\ Fits(next, Items, f)
  BY <1>1, OpenFile
<1>3. f.pos \in Nat /\ f.size \in Nat
  BY <1>2 DEF FileRec
<1>4. left' \in 0 .. MaxChunk /\ left' > 0 /\ f.pos + left' <= f.size
  <2>1. PICK p \in Nat, z \in Nat : p = f.pos /\ z = f.size
    BY <1>3
  <2>2. p < z /\ left' = IF n < z - p THEN n ELSE z - p
    BY <1>1, <2>1 DEF Small
  <2>3. MaxChunk \in Nat /\ n \in 1 .. MaxChunk
    BY Sizes
  <2> HIDE DEF f
  <2>4. left' \in 0 .. MaxChunk /\ left' > 0 /\ p + left' <= z
    BY <2>2, <2>3
  <2> QED  BY <2>1, <2>4
<1>5. file' = [file EXCEPT ![h] = f]
  BY <1>1 DEF FatInv, FilesFit
<1> QED  BY <1>1, <1>2, <1>4, <1>5, ReaderStep

(* A round of a read: one cluster further at most.                          *)
LEMMA ReadRoundInv ==
  ASSUME FatInv, NEW h \in Handle, ReadRound(h)
  PROVE  FatInv' /\ Keeps
<1> DEFINE f == file[h]
           n == InCluster(f)
           g == MovePos(next, f, n, FALSE).f
           i == f.pos \div ClusterSize
<1>1. /\ busy = h /\ f.mode = "read" /\ left > 0
      /\ file' = [file EXCEPT ![h] = g]
      /\ left' = left - n /\ busy' = IF left > n THEN h ELSE None
      /\ UNCHANGED <<next, dir, data, noSpace>>
  BY DEF ReadRound
<1>2. f \in FileRec /\ Fits(next, Items, f)
  BY <1>1, OpenFile
<1>3. f.pos \in Nat /\ f.size \in Nat
  BY <1>2 DEF FileRec
<1>4. left \in 1 .. MaxChunk /\ f.pos + left <= f.size
  <2>1. busy # None
    BY <1>1, NoneIsNoHandle
  <2> QED  BY <1>1, <2>1 DEF FatInv, CallFits
<1>5. n \in Nat /\ n > 0 /\ n <= left /\ n <= ClusterSize - (f.pos % ClusterSize)
  <2>1. f.pos % ClusterSize \in 0 .. ClusterSize - 1 /\ ClusterSize \in Nat
    BY <1>3, Sizes, Quotient
  <2> QED  BY <1>4, <2>1, Sizes DEF InCluster, Small
<1>6. i \in Nat /\ IsTable(next)
  <2>1. i \in Nat
    BY <1>3, <1>5, MoveArith
  <2> QED  BY <1>1, <2>1, OpenFile
<1>7. /\ ~ Crosses(f, n) => g = [f EXCEPT !.pos = f.pos + n] /\ (f.pos + n) \div ClusterSize = i
      /\ Crosses(f, n) => g = [f EXCEPT !.cblk = GetNext(next, f.cblk), !.pos = f.pos + n]
                          /\ (f.pos + n) \div ClusterSize = i + 1
  <2>1. f.pos % ClusterSize \in Nat /\ ClusterSize \in Nat
    BY <1>3, Sizes, Quotient
  <2>2. /\ ~ Crosses(f, n) => (f.pos + n) \div ClusterSize = i
        /\ Crosses(f, n) => (f.pos + n) \div ClusterSize = i + 1
    <3> DEFINE p == f.pos
    <3>1. Crosses(f, n) <=> (p % ClusterSize) + n >= ClusterSize
      BY DEF Crosses
    <3>2. p \in Nat /\ n \in Nat /\ n <= ClusterSize - (p % ClusterSize) /\ p % ClusterSize \in Nat
      BY <1>3, <1>5, <2>1
    <3>3. (p + n) \div ClusterSize = (f.pos + n) \div ClusterSize /\ p \div ClusterSize = i
      OBVIOUS
    <3> HIDE DEF n, p, i
    <3>4. /\ (p % ClusterSize) + n < ClusterSize => (p + n) \div ClusterSize = p \div ClusterSize
          /\ (p % ClusterSize) + n >= ClusterSize => (p + n) \div ClusterSize = (p \div ClusterSize) + 1
      BY <3>2, MoveArith
    <3> QED  BY <2>1, <3>1, <3>2, <3>3, <3>4
  <2>3. ~ Crosses(f, n) => g = [f EXCEPT !.pos = f.pos + n]
    BY DEF MovePos
  <2>4. Crosses(f, n) => g = [f EXCEPT !.cblk = GetNext(next, f.cblk), !.pos = f.pos + n]
    BY DEF MovePos
  <2> QED  BY <2>2, <2>3, <2>4
<1>8. f.cblk = ChainAt(next, f.sblk, i) /\ GetNext(next, f.cblk) = ChainAt(next, f.sblk, i + 1)
  <2>1. f.cblk = ChainAt(next, f.sblk, i)
    BY <1>2 DEF Fits
  <2> DEFINE s == f.sblk
  <2> HIDE DEF i, s
  <2>2. ChainAt(next, s, i + 1) = GetNext(next, ChainAt(next, s, i))
    BY <1>6, ChainSteps
  <2> QED  BY <2>1, <2>2 DEF s
<1> HIDE DEF n, g, i
<1>9. GetNext(next, f.cblk) \in Link
  BY <1>6, NextOf
<1>10. /\ g \in FileRec /\ g.mode = "read" /\ g.p_index = f.p_index /\ g.sblk = f.sblk
       /\ g.size = f.size /\ g.pos = f.pos + n
       /\ g.cblk = ChainAt(next, f.sblk, (f.pos + n) \div ClusterSize)
  <2>1. f.pos + n \in Nat
    BY <1>3, <1>5
  <2>2. CASE Crosses(f, n)
    BY <1>1, <1>2, <1>7, <1>8, <1>9, <2>1, <2>2 DEF FileRec
  <2>3. CASE ~ Crosses(f, n)
    BY <1>1, <1>2, <1>7, <1>8, <2>1, <2>3 DEF FileRec
  <2> QED  BY <2>2, <2>3
<1>11. Fits(next, Items, g)
  <2>1. f.pos + n <= f.size
    BY <1>3, <1>4, <1>5
  <2> QED  BY <1>2, <1>10, <2>1 DEF Fits
<1>12. /\ left' \in 0 .. MaxChunk /\ (busy' = None \/ busy' = h)
       /\ busy' = h => left' > 0 /\ g.pos + left' <= g.size
  <2>1. busy' = h => left > n
    BY <1>1, NoneIsNoHandle
  <2> QED  BY <1>1, <1>3, <1>4, <1>5, <1>10, <2>1, FatAssumption
<1> QED  BY <1>1, <1>10, <1>11, <1>12, ReaderStep DEF g

(* fseek of a reader: to the cluster of the new position, or nowhere.       *)
LEMMA SeekInv ==
  ASSUME FatInv, NEW h \in Handle, NEW off \in 0 .. MaxSize, Seek(h, off)
  PROVE  FatInv' /\ Keeps
<1> DEFINE f == file[h]
           c == ChainAt(next, f.sblk, off \div ClusterSize)
           g == [f EXCEPT !.pos = off, !.cblk = c]
<1>1. /\ busy = None /\ f.mode = "read" /\ off <= f.size
      /\ UNCHANGED <<next, dir, data, busy, left, noSpace>>
      /\ file' = [file EXCEPT ![h].pos = off, ![h].cblk = c]
  BY DEF Seek
<1>2. f \in FileRec /\ Fits(next, Items, f) /\ IsTable(next) /\ Rooted(next, f.sblk)
  BY <1>1, OpenFile
<1>3. file \in [Handle -> FileRec]
  BY DEF FatInv, FilesFit
<1>4. file' = [file EXCEPT ![h] = g]
  BY <1>1, <1>3
<1>5. off \in Nat /\ off \div ClusterSize \in Nat
  BY FatAssumption
<1>6. c \in Link
  BY <1>2, <1>5, ChainType DEF Link
<1>7. g \in FileRec /\ g.mode = "read" /\ g.p_index = f.p_index /\ g.sblk = f.sblk /\ g.size = f.size
      /\ g.pos = off /\ g.cblk = c
  BY <1>1, <1>2, <1>5, <1>6 DEF FileRec
<1> HIDE DEF g
<1>8. Fits(next, Items, g)
  BY <1>1, <1>2, <1>7 DEF Fits
<1>9. /\ left' \in 0 .. MaxChunk /\ busy' = None /\ busy' # h
  BY <1>1, NoneIsNoHandle DEF FatInv
<1> QED  BY <1>1, <1>4, <1>7, <1>8, <1>9, ReaderStep

(* close: what a writer has becomes what the entry says.                    *)
LEMMA CloseInv ==
  ASSUME FatInv, NEW h \in Handle, Close(h)
  PROVE  FatInv' /\ Keeps
<1> DEFINE f == file[h]
           e == f.p_index
<1>1. /\ busy = None /\ f.mode # "closed" /\ file' = [file EXCEPT ![h] = Closed]
      /\ dir' = IF f.mode = "read" THEN dir
                ELSE [dir EXCEPT ![e] = [name |-> @.name, start |-> f.sblk, size |-> f.size]]
      /\ UNCHANGED <<next, data, busy, left, noSpace>>
  BY DEF Close
<1>2. /\ file \in [Handle -> FileRec] /\ dir \in DirType /\ Trees(next, Items)
      /\ FilesFit(file, next, Items, busy) /\ noSpace \in BOOLEAN
      /\ ~ noSpace => AtEnd(file) /\ Parts(next, Items, data)
      /\ left \in 0 .. MaxChunk
  BY DEF FatInv, FilesFit
<1>3. /\ f \in FileRec /\ Fits(next, Items, f) /\ e \in Entry
  BY <1>1, OpenFile
<1>4. Closed \in FileRec /\ Closed.mode = "closed"
  BY DEF Closed, FileRec, Link, INVALID
<1>5. Items' = Items /\ dir' \in DirType
  <2>1. CASE f.mode = "read"
    <3>1. ItemsIn([file EXCEPT ![h] = Closed], dir) = ItemsIn(file, dir)
      BY <1>2, <1>4, <2>1, ItemsSame
    <3> QED  BY <1>1, <1>2, <2>1, <3>1 DEF Items
  <2>2. CASE f.mode = "write"
    <3>0. dir[e].name \in Name \cup {None, "deleted", "label"}
      BY <1>2, <1>3 DEF DirType
    <3>1. f.sblk \in Link /\ f.size \in 0 .. MaxSize
      BY <1>3, FatAssumption DEF Fits, FileRec
    <3> DEFINE i == [name |-> dir[e].name, start |-> f.sblk, size |-> f.size]
    <3>2. i \in [name : Name \cup {None, "deleted", "label"}, start : Link, size : 0 .. MaxSize]
      BY <3>0, <3>1, ItemOf
    <3>3. dir' = [dir EXCEPT ![e] = i]
      BY <1>1, <2>2
    <3>4. dir' \in DirType
      <4> HIDE DEF i
      <4> QED  BY <1>2, <3>2, <3>3 DEF DirType
    <3>5. dir'[e] = i /\ \A d \in Entry : d # e => dir'[d] = dir[d]
      BY <1>2, <1>3, <3>3 DEF DirType
    <3>6. Items[e] = i
      <4>1. SoleIn(file)
        BY <1>2 DEF FilesFit
      <4> QED  BY <1>3, <2>2, <4>1, WrittenItem DEF Items
    <3> HIDE DEF i
    <3>7. Differ(Items, Items', e)
      <4>1. Differ(ItemsIn(file, dir), ItemsIn([file EXCEPT ![h] = Closed], dir'), e)
        <5>1. Closed.mode = "write" => Closed.p_index = e
          BY <1>4
        <5>2. file[h].mode = "write" => file[h].p_index = e
          OBVIOUS
        <5> HIDE DEF e
        <5> QED  BY <1>2, <3>5, <5>1, <5>2, ItemsAfter
      <4> QED  BY <1>1, <4>1 DEF Items
    <3>8. Items'[e] = i
      <4>1. WritersIn(file', e) = {}
        <5>1. \A j \in Handle : j # h /\ file[j].mode = "write" => file[j].p_index # e
          <6>1. SoleIn(file)
            BY <1>2 DEF FilesFit
          <6> QED  BY <1>1, <2>2, <6>1 DEF SoleIn
        <5>2. file'[h].mode = "closed" /\ \A j \in Handle : j # h => file'[j] = file[j]
          BY <1>1, <1>2, <1>4
        <5> QED  BY <5>1, <5>2 DEF WritersIn
      <4>2. Items'[e] = dir'[e]
        <5>1. ItemsIn(file', dir')[e] = dir'[e]
          BY <1>3, <4>1, ItemFacts
        <5> QED  BY <5>1 DEF Items
      <4> QED  BY <3>5, <4>2
    <3>9. \A d \in Entry : Items'[d] = Items[d]
      BY <3>6, <3>7, <3>8 DEF Differ
    <3>10. Items = [d \in Entry |-> Items[d]] /\ Items' = [d \in Entry |-> Items'[d]]
      BY DEF Items, ItemsIn
    <3> QED  BY <3>4, <3>9, <3>10
  <2> QED  BY <1>1, <1>3, <2>1, <2>2 DEF FileRec
<1>6. FilesFit(file', next, Items, busy)
  <2>1. FileFits(next, Items, Closed, h, busy) /\ Shares(file, h, Closed)
    BY <1>4 DEF WriterFits, FileFits, Shares
  <2>3. OthersFit(next, Items, file, h)
    BY <1>2 DEF FilesFit, OthersFit
  <2> QED  BY <1>1, <1>2, <1>4, <2>1, <2>3, FilesAfter
<1>7. AtEnd(file) => AtEnd(file')
  BY <1>1, <1>2, <1>4, AtEndAfter
<1>8. FatInv'
  BY <1>1, <1>2, <1>5, <1>6, <1>7 DEF FatInv, CallFits
<1>9. next' = next
  BY <1>1
<1> QED  BY <1>5, <1>8, <1>9, SameKeeps

-----------------------------------------------------------------------------
(* The steps that create, empty or remove a file.                           *)

(* What is in the clusters that are not free stays.                         *)
KeepsData(nx, dt, et) == \A c \in Cluster : nx[c] # FREE => et[c] = dt[c]

(* A step that changes the data of one file's clusters and of free ones     *)
(* leaves what is in the other files.                                       *)
LEMMA OthersData ==
  ASSUME NEW nx, NEW mx, NEW it, NEW jt, NEW e, NEW dt, NEW et, Trees(mx, jt), Differ(it, jt, e),
         OthersKept(nx, mx, it, e), KeepsData(mx, dt, et)
  PROVE  \A d \in Named(it), k \in Nat :
           d # e /\ ChainAt(nx, it[d].start, k) \in Cluster =>
             et[ChainAt(nx, it[d].start, k)] = dt[ChainAt(nx, it[d].start, k)]
<1> SUFFICES ASSUME NEW d \in Named(it), NEW k \in Nat, d # e, ChainAt(nx, it[d].start, k) \in Cluster
             PROVE  et[ChainAt(nx, it[d].start, k)] = dt[ChainAt(nx, it[d].start, k)]
  OBVIOUS
<1> DEFINE c == ChainAt(nx, it[d].start, k)
<1>1. d \in Named(jt) /\ jt[d] = it[d]
  BY DEF Differ, Named
<1>2. ChainAt(mx, it[d].start, k) = c
  BY DEF OthersKept
<1>3. mx[ChainAt(mx, jt[d].start, k)] # FREE
  <2>1. ChainAt(mx, jt[d].start, k) \in Cluster
    BY <1>1, <1>2
  <2> QED  BY <1>1, <2>1, ItemChains
<1>4. mx[c] # FREE
  BY <1>1, <1>2, <1>3
<1> QED  BY <1>4 DEF KeepsData

(* A file nobody uses is opened to be written, and empty.                   *)
LEMMA OpenedItem ==
  ASSUME FatInv, NEW h \in Handle, NEW e \in Entry, file[h].mode = "closed", Users(e) = {},
         NEW g \in FileRec, g.mode = "write", g.p_index = e, g.sblk = INVALID, g.size = 0,
         file' = [file EXCEPT ![h] = g], \A d \in Entry : d # e => dir'[d] = dir[d]
  PROVE  /\ Items'[e].name = dir'[e].name /\ Items'[e].start = INVALID /\ Items'[e].size = 0
         /\ Items[e] = dir[e]
         /\ Differ(Items, Items', e)
<1>1. file \in [Handle -> FileRec] /\ SoleIn(file)
  BY DEF FatInv, FilesFit
<1>2. file'[h] = g /\ \A j \in Handle : j # h => file'[j] = file[j]
  BY <1>1
<1>3. \A j \in Handle : file[j].mode # "closed" => file[j].p_index # e
  BY DEF Users
<1>4. SoleIn(file')
  BY <1>1, <1>2, <1>3 DEF SoleIn
<1>5. ItemsIn(file', dir')[e] = [name |-> dir'[e].name, start |-> INVALID, size |-> 0]
  <2>1. file'[h].mode = "write" /\ file'[h].p_index = e /\ file'[h].sblk = INVALID /\ file'[h].size = 0
    BY <1>2
  <2> DEFINE fl == file'
             er == dir'
  <2>2. SoleIn(fl) /\ fl[h].mode = "write" /\ fl[h].p_index \in Entry
    BY <1>4, <2>1
  <2> HIDE DEF fl, er
  <2>3. ItemsIn(fl, er)[fl[h].p_index] =
           [name |-> er[fl[h].p_index].name, start |-> fl[h].sblk, size |-> fl[h].size]
    BY <2>2, WrittenItem
  <2> QED  BY <2>1, <2>3 DEF fl, er
<1>6. Items[e] = dir[e]
  <2>1. WritersIn(file, e) = {}
    BY <1>3 DEF WritersIn
  <2> QED  BY <2>1, ItemFacts DEF Items
<1>7. Differ(ItemsIn(file, dir), ItemsIn([file EXCEPT ![h] = g], dir'), e)
  BY <1>1, ItemsAfter
<1> QED  BY <1>5, <1>6, <1>7 DEF Items

(* fatfs_open for writing: the handle gets an empty file.                   *)
LEMMA OpenWriterInv ==
  ASSUME FatInv, NEW h \in Handle, NEW e \in Entry, file[h].mode = "closed", Users(e) = {}, busy = None,
         NEW g \in FileRec, g.mode = "write", g.p_index = e, g.sblk = INVALID, g.cblk = INVALID,
         g.size = 0, g.pos = 0, file' = [file EXCEPT ![h] = g],
         \A d \in Entry : d # e => dir'[d] = dir[d], dir' \in DirType, dir'[e].name \in Name,
         UNCHANGED <<busy, left, noSpace>>,
         Trees(next', Items'), OthersKept(next, next', Items, e), KeepsData(next', data, data')
  PROVE  FatInv'
<1>1. /\ Items'[e].name = dir'[e].name /\ Items'[e].start = INVALID /\ Items'[e].size = 0
      /\ Differ(Items, Items', e)
  BY OpenedItem
<1>2. /\ file \in [Handle -> FileRec] /\ FilesFit(file, next, Items, busy) /\ noSpace \in BOOLEAN
      /\ ~ noSpace => AtEnd(file) /\ Parts(next, Items, data)
      /\ left \in 0 .. MaxChunk
  BY DEF FatInv, FilesFit
<1>3. \A j \in Handle : file[j].mode # "closed" => file[j].p_index # e
  BY DEF Users
<1>4. Fits(next', Items', g)
  <2>1. 0 \div ClusterSize = 0 /\ 0 <= MaxSize
    BY Sizes
  <2>2. ChainAt(next', INVALID, 0) = INVALID
    BY ChainSteps
  <2>3. e \in Named(Items')
    BY <1>1 DEF Named
  <2> QED  BY <1>1, <2>1, <2>2, <2>3 DEF Fits
<1>5. OthersFit(next', Items', file, h)
  <2> SUFFICES ASSUME NEW j \in Handle, j # h, file[j].mode # "closed"
               PROVE  Fits(next', Items', file[j])
    BY DEF OthersFit
  <2>1. Fits(next, Items, file[j]) /\ file[j].p_index # e /\ file[j].pos \in Nat
    BY <1>2, <1>3 DEF FilesFit, FileRec
  <2> QED  BY <1>1, <2>1, FitsKept
<1>6. FilesFit(file', next', Items', busy)
  <2>1. WriterFits(g, h, busy)
    BY NoneIsNoHandle, Clusters DEF WriterFits
  <2>2. Shares(file, h, g)
    BY <1>3 DEF Shares
  <2> DEFINE mx == next'
             jt == Items'
  <2>3. OthersFit(mx, jt, file, h) /\ FileFits(mx, jt, g, h, busy)
    BY <1>4, <1>5, <2>1 DEF FileFits
  <2> HIDE DEF mx, jt
  <2>4. FilesFit([file EXCEPT ![h] = g], mx, jt, busy)
    <3> DEFINE gl == [file EXCEPT ![h] = g]
    <3>1. gl = [file EXCEPT ![h] = g]
      OBVIOUS
    <3> HIDE DEF gl
    <3>2. FilesFit(gl, mx, jt, busy)
      BY <1>2, <2>2, <2>3, <3>1, FilesAfter
    <3> QED  BY <3>2 DEF gl
  <2> QED  BY <2>4 DEF mx, jt
<1>7. ASSUME ~ noSpace
      PROVE  AtEnd(file') /\ Parts(next', Items', data')
  <2>1. Parts(next, Items, data)
    BY <1>2, <1>7
  <2>2. \A d \in Named(Items), k \in Nat :
           d # e /\ ChainAt(next, Items[d].start, k) \in Cluster =>
             data'[ChainAt(next, Items[d].start, k)] = data[ChainAt(next, Items[d].start, k)]
    BY <1>1, OthersData
  <2>3. \A k \in Nat : ~ k * ClusterSize < Items'[e].size
    <3>1. \A k \in Nat : k * ClusterSize \in Nat
      BY Sizes
    <3> QED  BY <1>1, <3>1
  <2>4. Parts(next', Items', data')
    BY <1>1, <2>1, <2>2, <2>3, PartsAfter
  <2>5. AtEnd(file')
    BY <1>2, <1>7, AtEndAfter
  <2> QED  BY <2>4, <2>5
<1> QED  BY <1>2, <1>6, <1>7 DEF FatInv, CallFits

(* fopen "w" of a file that exists.                                         *)
LEMMA OpenTruncInv ==
  ASSUME FatInv, NEW h \in Handle, NEW n \in Name, OpenTrunc(h, n)
  PROVE  FatInv' /\ Keeps
<1>1. PICK e \in Entry :
        /\ Visible(n, e) /\ Users(e) = {}
        /\ next' = FreeChain(next, dir[e].start)
        /\ data' = Forget(next')
        /\ file' = [file EXCEPT ![h] =
                      [FromItem(dir[e], e, "write") EXCEPT !.size = 0, !.sblk = INVALID, !.cblk = INVALID]]
  BY DEF OpenTrunc
<1>2. busy = None /\ file[h].mode = "closed" /\ UNCHANGED <<dir, busy, left, noSpace>>
  BY DEF OpenTrunc
<1> DEFINE r == FromItem(dir[e], e, "write")
           g == [r EXCEPT !.size = 0, !.sblk = INVALID, !.cblk = INVALID]
<1>3. dir \in DirType /\ dir[e].name = n /\ dir[e].start \in Link /\ dir[e].size \in 0 .. MaxSize
  BY <1>1 DEF FatInv, Visible, DirType
<1>4. r \in FileRec /\ r.mode = "write" /\ r.pos = 0 /\ r.p_index = e
  BY <1>3 DEF FromItem, FileRec, Entry
<1>5. g \in FileRec /\ g.mode = "write" /\ g.p_index = e /\ g.sblk = INVALID /\ g.cblk = INVALID
      /\ g.size = 0 /\ g.pos = 0
  <2> HIDE DEF r
  <2>1. INVALID \in Link /\ 0 \in Nat
    BY DEF Link
  <2> QED  BY <1>4, <2>1 DEF FileRec
<1> HIDE DEF g
<1>6. file' = [file EXCEPT ![h] = g]
  BY <1>1 DEF g
<1>7. \A d \in Entry : d # e => dir'[d] = dir[d]
  BY <1>2
<1>8. /\ Items'[e].start = INVALID /\ Items[e] = dir[e] /\ Differ(Items, Items', e)
  <2>1. file[h].mode = "closed" /\ Users(e) = {}
    BY <1>1, <1>2
  <2> QED  BY <1>5, <1>6, <1>7, <2>1, OpenedItem
<1>9. e \in Named(Items) /\ Trees(next, Items) /\ dir[e].start = Items[e].start
  BY <1>3, <1>8 DEF Named, FatInv
<1>10. Trees(next', Items') /\ OthersKept(next, next', Items, e)
  <2>1. Trees(FreeChain(next, Items[e].start), Items') /\ OthersKept(next, FreeChain(next, Items[e].start), Items, e)
    BY <1>8, <1>9, TreesFree
  <2> QED  BY <1>1, <1>9, <2>1
<1>11. KeepsData(next', data, data')
  BY <1>1 DEF KeepsData, Forget
<1>12. dir' \in DirType /\ dir'[e].name \in Name
  BY <1>2, <1>3
<1>13. Keeps
  <2> DEFINE mx == next'
             jt == Items'
  <2>1. mx = FreeChain(next, Items[e].start) /\ OthersKept(next, mx, Items, e) /\ Differ(Items, jt, e)
    BY <1>1, <1>8, <1>9, <1>10
  <2> HIDE DEF mx, jt
  <2>2. NoLoss(next, mx, Items, jt)
    BY <1>9, <2>1, NoLossFree
  <2> QED  BY <2>2 DEF Keeps, mx, jt
<1>14. FatInv'
  BY <1>1, <1>2, <1>5, <1>6, <1>7, <1>10, <1>11, <1>12, OpenWriterInv
<1> QED  BY <1>13, <1>14

(* fopen "w" of a new file.                                                 *)
LEMMA OpenNewInv ==
  ASSUME FatInv, NEW h \in Handle, NEW n \in Name, OpenNew(h, n)
  PROVE  FatInv' /\ Keeps
<1> DEFINE item == [name |-> n, start |-> INVALID, size |-> 0]
<1>1. PICK e \in Entry : /\ SlotFor(e)
                         /\ dir' = [dir EXCEPT ![e] = item]
                         /\ file' = [file EXCEPT ![h] = FromItem(item, e, "write")]
  BY DEF OpenNew
<1>2. busy = None /\ file[h].mode = "closed" /\ UNCHANGED <<next, data, busy, left, noSpace>>
  BY DEF OpenNew
<1> DEFINE g == FromItem(item, e, "write")
<1>3. dir \in DirType /\ Trees(next, Items)
  BY DEF FatInv
<1>4. dir[e].name \notin Name
  BY <1>1, FatAssumption DEF SlotFor, End
<1>5. e \notin Named(Items)
  BY <1>4, ItemFacts DEF Named, Items
<1>6. Users(e) = {}
  <2>1. \A j \in Handle : file[j].mode # "closed" => file[j].p_index \in Named(Items)
    BY DEF FatInv, FilesFit, Fits
  <2> QED  BY <1>5, <2>1 DEF Users
<1>7. g \in FileRec /\ g.mode = "write" /\ g.p_index = e /\ g.sblk = INVALID /\ g.cblk = INVALID
      /\ g.size = 0 /\ g.pos = 0
  <2>1. INVALID \in Link /\ e \in Nat
    BY DEF Link, Entry
  <2> QED  BY <2>1 DEF FromItem, FileRec
<1>8. item \in [name : Name \cup {None, "deleted", "label"}, start : Link, size : 0 .. MaxSize]
  <2>1. INVALID \in Link /\ 0 \in 0 .. MaxSize
    BY FatAssumption DEF Link
  <2> QED  BY <2>1, ItemOf
<1>9. dir' \in DirType /\ dir'[e] = item /\ item.name = n
  <2> HIDE DEF item
  <2>1. dir' \in DirType /\ dir'[e] = item
    BY <1>1, <1>3, <1>8 DEF DirType
  <2> QED  BY <2>1 DEF item
<1> HIDE DEF g, item
<1>10. \A d \in Entry : d # e => dir'[d] = dir[d]
  BY <1>1, <1>3 DEF DirType
<1>11. file' = [file EXCEPT ![h] = g]
  BY <1>1 DEF g
<1>12. Items'[e].start = INVALID /\ Differ(Items, Items', e)
  BY <1>2, <1>6, <1>7, <1>10, <1>11, OpenedItem
<1>13. Trees(next', Items')
  BY <1>2, <1>3, <1>12, TreesSame
<1>14. OthersKept(next, next', Items, e) /\ KeepsData(next', data, data')
  BY <1>2 DEF OthersKept, KeepsData
<1>15. dir'[e].name \in Name
  BY <1>9
<1>16. Keeps
  <2> DEFINE jt == Items'
  <2>1. Differ(Items, jt, e)
    BY <1>12
  <2> HIDE DEF jt
  <2>2. NoLoss(next, next, Items, jt)
    BY <1>5, <2>1, NoLossSame
  <2> QED  BY <1>2, <2>2 DEF Keeps, jt
<1>17. FatInv'
  BY <1>2, <1>6, <1>7, <1>9, <1>10, <1>11, <1>13, <1>14, <1>15, OpenWriterInv
<1> QED  BY <1>16, <1>17

(* remove of a file nobody has open.                                        *)
LEMMA UnlinkInv ==
  ASSUME FatInv, NEW n \in Name, Unlink(n)
  PROVE  FatInv' /\ Keeps
<1>1. PICK e \in Entry :
        /\ Visible(n, e) /\ Users(e) = {}
        /\ next' = FreeChain(next, dir[e].start)
        /\ data' = Forget(next')
        /\ dir' = [dir EXCEPT ![e] = EndItem]
  BY DEF Unlink
<1>2. busy = None /\ UNCHANGED <<file, busy, left, noSpace>>
  BY DEF Unlink
<1>3. /\ file \in [Handle -> FileRec] /\ FilesFit(file, next, Items, busy) /\ dir \in DirType
      /\ Trees(next, Items)
      /\ ~ noSpace => AtEnd(file) /\ Parts(next, Items, data)
  BY DEF FatInv, FilesFit
<1>4. \A j \in Handle : file[j].mode # "closed" => file[j].p_index # e
  BY <1>1 DEF Users
<1>5. WritersIn(file, e) = {}
  BY <1>4 DEF WritersIn
<1>6. Items[e] = dir[e] /\ e \in Named(Items)
  BY <1>1, <1>5, ItemFacts DEF Items, Named, Visible
<1>7. dir' \in DirType /\ dir'[e] = EndItem /\ \A d \in Entry : d # e => dir'[d] = dir[d]
  <2>1. EndItem \in [name : Name \cup {None, "deleted", "label"}, start : Link, size : 0 .. MaxSize]
    <3>1. FREE \in Link /\ 0 \in 0 .. MaxSize
      BY FatAssumption DEF Link
    <3> QED  BY <3>1, ItemOf DEF EndItem
  <2> QED  BY <1>1, <1>3, <2>1 DEF DirType
<1>8. e \notin Named(Items')
  <2>1. Items'[e].name = dir'[e].name
    BY <1>2, ItemFacts DEF Items
  <2>2. dir'[e].name = None
    BY <1>7 DEF EndItem
  <2> QED  BY <2>1, <2>2, NoneIsNoHandle DEF Named
<1>9. Differ(Items, Items', e)
  <2> SUFFICES ASSUME NEW d \in Entry, d # e
               PROVE  ItemIn(file, dir', d) = ItemIn(file, dir, d)
    BY <1>2 DEF Differ, Items, ItemsIn
  <2> QED  BY <1>7 DEF ItemIn
<1>10. Trees(next', Items') /\ OthersKept(next, next', Items, e)
  <2>1. Trees(FreeChain(next, Items[e].start), Items') /\ OthersKept(next, FreeChain(next, Items[e].start), Items, e)
    BY <1>3, <1>6, <1>8, <1>9, TreesFree
  <2> QED  BY <1>1, <1>6, <2>1
<1>11. FilesFit(file, next', Items', busy)
  <2>1. \A j \in Handle : file[j].mode # "closed" => Fits(next', Items', file[j])
    <3> SUFFICES ASSUME NEW j \in Handle, file[j].mode # "closed"
                 PROVE  Fits(next', Items', file[j])
      OBVIOUS
    <3>1. Fits(next, Items, file[j]) /\ file[j].p_index # e /\ file[j].pos \in Nat
      BY <1>3, <1>4 DEF FilesFit, FileRec
    <3> QED  BY <1>9, <1>10, <3>1, FitsKept
  <2> QED  BY <1>3, <2>1 DEF FilesFit
<1>12. ASSUME ~ noSpace
       PROVE  Parts(next', Items', data')
  <2>1. KeepsData(next', data, data')
    BY <1>1 DEF KeepsData, Forget
  <2>2. \A d \in Named(Items), k \in Nat :
           d # e /\ ChainAt(next, Items[d].start, k) \in Cluster =>
             data'[ChainAt(next, Items[d].start, k)] = data[ChainAt(next, Items[d].start, k)]
    BY <1>9, <1>10, <2>1, OthersData
  <2> QED  BY <1>3, <1>8, <1>9, <1>10, <1>12, <2>2, PartsAfter
<1>13. Keeps
  <2> DEFINE mx == next'
             jt == Items'
  <2>1. mx = FreeChain(next, Items[e].start) /\ OthersKept(next, mx, Items, e) /\ Differ(Items, jt, e)
    BY <1>1, <1>6, <1>9, <1>10
  <2> HIDE DEF mx, jt
  <2>2. NoLoss(next, mx, Items, jt)
    BY <1>3, <1>6, <2>1, NoLossFree
  <2> QED  BY <2>2 DEF Keeps, mx, jt
<1>14. FatInv'
  BY <1>2, <1>3, <1>7, <1>10, <1>11, <1>12 DEF FatInv, CallFits
<1> QED  BY <1>13, <1>14

-----------------------------------------------------------------------------
(* The steps of a writer.                                                   *)

(* The file of one handle changes.                                          *)
Becomes(fl, h, g, gl) == gl = [fl EXCEPT ![h] = g]

(* Its item is the file it has.                                             *)
LEMMA WriterItem ==
  ASSUME FatInv, NEW h \in Handle, file[h].mode = "write", NEW e, e = file[h].p_index,
         NEW g \in FileRec, g.mode = "write", g.p_index = e,
         Becomes(file, h, g, file'), dir' = dir
  PROVE  /\ e \in Named(Items) /\ Items[e].name = dir[e].name
         /\ Items[e].start = file[h].sblk /\ Items[e].size = file[h].size
         /\ e \in Named(Items') /\ Items'[e].name = dir[e].name
         /\ Items'[e].start = g.sblk /\ Items'[e].size = g.size
         /\ Differ(Items, Items', e)
<1>1. file \in [Handle -> FileRec] /\ SoleIn(file)
  BY DEF FatInv, FilesFit
<1>2. file[h] \in FileRec /\ Fits(next, Items, file[h]) /\ e \in Entry /\ dir[e].name \in Name
  BY OpenFile
<1>3. file'[h] = g /\ \A j \in Handle : j # h => file'[j] = file[j]
  BY <1>1 DEF Becomes
<1>4. SoleIn(file')
  BY <1>1, <1>3 DEF SoleIn
<1>5. Items[e] = [name |-> dir[e].name, start |-> file[h].sblk, size |-> file[h].size]
  BY <1>1, <1>2, WrittenItem DEF Items
<1>6. ItemsIn(file', dir)[e] = [name |-> dir[e].name, start |-> g.sblk, size |-> g.size]
  <2> DEFINE fl == file'
  <2>1. SoleIn(fl) /\ fl[h].mode = "write" /\ fl[h].p_index = e /\ fl[h].sblk = g.sblk /\ fl[h].size = g.size
    BY <1>3, <1>4
  <2> HIDE DEF fl
  <2>2. ItemsIn(fl, dir)[fl[h].p_index] =
          [name |-> dir[fl[h].p_index].name, start |-> fl[h].sblk, size |-> fl[h].size]
    BY <1>2, <2>1, WrittenItem
  <2> QED  BY <2>1, <2>2 DEF fl
<1>7. Differ(ItemsIn(file, dir), ItemsIn([file EXCEPT ![h] = g], dir), e)
  BY <1>1, ItemsAfter
<1>8. Items' = ItemsIn(file', dir) /\ file' = [file EXCEPT ![h] = g]
  BY DEF Items, Becomes
<1>9. Items'[e] = [name |-> dir[e].name, start |-> g.sblk, size |-> g.size]
  BY <1>6, <1>8
<1>10. Differ(Items, Items', e)
  BY <1>7, <1>8 DEF Items
<1> QED  BY <1>2, <1>5, <1>9, <1>10 DEF Named

(* The parts of one file.                                                   *)
PartsOf(nx, n, s, z, dt) ==
  \A k \in Nat : k * ClusterSize < z =>
                   ChainAt(nx, s, k) \in Cluster /\ dt[ChainAt(nx, s, k)] = <<n, k>>

(* What fits the cluster of a position does not reach beyond it.            *)
LEMMA PartReach ==
  ASSUME NEW p \in Nat, NEW n \in Nat, n <= ClusterSize - (p % ClusterSize),
         NEW k \in Nat, k * ClusterSize < p + n
  PROVE  k <= p \div ClusterSize
<1> DEFINE b == ClusterSize
           q == p \div b
           r == p % b
<1>1. b \in Nat \ {0}
  BY Sizes
<1>2. q \in Int /\ r \in 0 .. b - 1 /\ p = b * q + r
  BY <1>1, Quotient
<1>3. q \in Nat
  BY <1>1
<1>4. n <= b - r /\ k * b < p + n
  OBVIOUS
<1> HIDE DEF b, q, r
<1>5. SUFFICES ASSUME k > q PROVE FALSE
  BY <1>3 DEF b, q
<1>6. PICK d \in Nat : k = q + 1 + d
  <2>1. k - q - 1 \in Nat /\ k = q + 1 + (k - q - 1)
    BY <1>3, <1>5
  <2> QED  BY <2>1
<1>7. k * b = q * b + b + d * b /\ d * b \in Nat /\ b * q = q * b /\ q * b \in Nat
  BY <1>1, <1>3, <1>6
<1>8. p + n <= q * b + b
  BY <1>1, <1>2, <1>4, <1>7
<1> QED  BY <1>1, <1>4, <1>7, <1>8

(* What is written belongs to no other file.                                *)
OthersWritten(nx, it, e, dt, et) ==
  \A d \in Named(it), k \in Nat :
    d # e /\ ChainAt(nx, it[d].start, k) \in Cluster =>
      et[ChainAt(nx, it[d].start, k)] = dt[ChainAt(nx, it[d].start, k)]

(* A step of fatfs_write changes the file of one handle and its chain.      *)
LEMMA WriterStep ==
  ASSUME FatInv, NEW h \in Handle, file[h].mode = "write", NEW e, e = file[h].p_index,
         busy = None \/ busy = h,
         NEW g \in FileRec, g.mode = "write", g.p_index = e,
         Becomes(file, h, g, file'), dir' = dir,
         Trees(next', Items'), OthersKept(next, next', Items, e),
         g.cblk = ChainAt(next', g.sblk, g.pos \div ClusterSize), g.pos <= g.size, g.size <= MaxSize,
         WriterFits(g, h, busy'), busy' = None \/ busy' = h, left' \in 0 .. MaxChunk,
         busy' = h => left' > 0 /\ g.size + left' <= MaxSize,
         noSpace' \in BOOLEAN, noSpace => noSpace',
         ~ noSpace' => g.pos = g.size,
         ~ noSpace' => PartsOf(next', dir[e].name, g.sblk, g.size, data'),
         OthersWritten(next, Items, e, data, data')
  PROVE  FatInv'
<1>1. /\ e \in Named(Items) /\ e \in Named(Items') /\ Items'[e].name = dir[e].name
      /\ Items'[e].start = g.sblk /\ Items'[e].size = g.size
      /\ Differ(Items, Items', e)
  BY WriterItem
<1>2. /\ file \in [Handle -> FileRec] /\ FilesFit(file, next, Items, busy) /\ dir \in DirType
      /\ ~ noSpace => AtEnd(file) /\ Parts(next, Items, data)
  BY DEF FatInv, FilesFit
<1>3. \A j \in Handle : j # h /\ file[j].mode # "closed" => file[j].p_index # e
  BY <1>2 DEF FilesFit, SoleIn
<1>4. FilesFit(file', next', Items', busy')
  <2>1. Fits(next', Items', g)
    BY <1>1 DEF Fits
  <2>2. FileFits(next', Items', g, h, busy')
    BY <2>1 DEF FileFits
  <2>3. Shares(file, h, g)
    BY <1>3 DEF Shares
  <2>4. OthersFit(next', Items', file, h)
    <3> SUFFICES ASSUME NEW j \in Handle, j # h, file[j].mode # "closed"
                 PROVE  Fits(next', Items', file[j])
      BY DEF OthersFit
    <3>1. Fits(next, Items, file[j]) /\ file[j].p_index # e /\ file[j].pos \in Nat
      BY <1>2, <1>3 DEF FilesFit, FileRec
    <3> QED  BY <1>1, <3>1, FitsKept
  <2> DEFINE mx == next'
             jt == Items'
             c == busy'
             gl == file'
  <2>5. OthersFit(mx, jt, file, h) /\ FileFits(mx, jt, g, h, c) /\ (c = None \/ c = h)
        /\ gl = [file EXCEPT ![h] = g]
    BY <2>2, <2>4 DEF Becomes
  <2> HIDE DEF mx, jt, c, gl
  <2>6. FilesFit(gl, mx, jt, c)
    <3>1. FilesFit(file, next, Items, busy)
      BY <1>2
    <3> QED  BY <2>3, <2>5, <3>1, FilesAfter
  <2> QED  BY <2>6 DEF mx, jt, c, gl
<1>5. CallFits(file', busy', left')
  <2>1. file'[h] = g
    BY <1>2 DEF Becomes
  <2>2. busy' = h => left' \in 1 .. MaxChunk
    BY FatAssumption
  <2> QED  BY <2>1, <2>2 DEF CallFits
<1>6. ASSUME ~ noSpace'
      PROVE  AtEnd(file') /\ Parts(next', Items', data')
  <2>1. AtEnd(file) /\ Parts(next, Items, data) /\ g.pos = g.size
    BY <1>2, <1>6
  <2>2. AtEnd(file')
    BY <1>2, <2>1, AtEndAfter DEF Becomes
  <2>3. \A k \in Nat : k * ClusterSize < Items'[e].size =>
           /\ ChainAt(next', Items'[e].start, k) \in Cluster
           /\ data'[ChainAt(next', Items'[e].start, k)] = <<Items'[e].name, k>>
    BY <1>1, <1>6 DEF PartsOf
  <2>4. \A d \in Named(Items), k \in Nat :
           d # e /\ ChainAt(next, Items[d].start, k) \in Cluster =>
             data'[ChainAt(next, Items[d].start, k)] = data[ChainAt(next, Items[d].start, k)]
    BY DEF OthersWritten
  <2>5. e \in Entry
    BY <1>1 DEF Named
  <2>6. Parts(next', Items', data')
    BY <1>1, <2>1, <2>3, <2>4, <2>5, PartsAfter
  <2> QED  BY <2>2, <2>6
<1>7. busy' \in Handle \cup {None}
  OBVIOUS
<1> QED  BY <1>2, <1>4, <1>5, <1>6, <1>7 DEF FatInv

(* A cluster of one file is in the chain of no other.                       *)
LEMMA OnlyOwner ==
  ASSUME NEW nx, NEW it, Trees(nx, it), NEW e \in Named(it), NEW i \in Nat,
         NEW c, c = ChainAt(nx, it[e].start, i), c \in Cluster
  PROVE  \A d \in Named(it) : d # e => \A k \in Nat : ChainAt(nx, it[d].start, k) # c
<1> SUFFICES ASSUME NEW d \in Named(it), d # e, NEW k \in Nat, ChainAt(nx, it[d].start, k) = c
             PROVE  FALSE
  OBVIOUS
<1> DEFINE s == it[e].start
           t == it[d].start
<1>1. IsTable(nx) /\ Rooted(nx, s) /\ Rooted(nx, t)
  BY DEF Trees
<1>2. ChainAt(nx, s, i) \in Cluster /\ ChainAt(nx, s, i) = ChainAt(nx, t, k)
  OBVIOUS
<1> HIDE DEF s, t
<1>3. s = t
  BY <1>1, <1>2, ChainsMeet
<1>4. s # INVALID
  BY <1>2, NoChain, Clusters
<1>5. s \in Cluster
  BY <1>1, <1>4 DEF Rooted, Root
<1> QED  BY <1>3, <1>5 DEF Trees, s, t

(* What expand_file does to the file itself.                                *)
LEMMA ExpandOwn ==
  ASSUME NEW nx, IsTable(nx), NEW f \in FileRec, Rooted(nx, f.sblk), NEW i \in Nat,
         f.cblk = ChainAt(nx, f.sblk, i), f.sblk \in Cluster => f.cblk \in Cluster,
         f.sblk \notin Cluster => i = 0, NEW inc, NEW x, Expanded(nx, f, inc, x)
  PROVE  /\ x.ok \in BOOLEAN /\ x.f \in FileRec
         /\ x.f.mode = f.mode /\ x.f.pos = f.pos /\ x.f.size = f.size /\ x.f.p_index = f.p_index
         /\ x.f.cblk = ChainAt(x.next, x.f.sblk, i)
         /\ x.f.sblk \in Cluster => x.f.cblk \in Cluster
         /\ f.sblk \in Cluster => /\ x.f = f
                                  /\ \A k \in Nat : k <= i => ChainAt(x.next, f.sblk, k) = ChainAt(nx, f.sblk, k)
                                  /\ x.ok /\ ~ Spare(f) > inc => x.next[f.cblk] \in Cluster
         /\ f.sblk \notin Cluster /\ x.ok /\ ~ Spare(f) > inc => x.f.sblk \in Cluster
<1>1. CASE f.sblk \in Cluster
  <2>1. Root(nx, f.sblk)
    BY <1>1, Clusters DEF Rooted
  <2>2. /\ x.f = f
        /\ \A k \in Nat : k <= i => ChainAt(x.next, f.sblk, k) = ChainAt(nx, f.sblk, k)
        /\ x.ok /\ ~ Spare(f) > inc => x.next[f.cblk] \in Cluster
        /\ x.ok \in BOOLEAN
    BY <1>1, <2>1, OwnChain
  <2>3. i <= i
    OBVIOUS
  <2> QED  BY <1>1, <2>2, <2>3
<1>2. ASSUME f.sblk \notin Cluster, x.ok \in BOOLEAN, x.f = f, x.ok => Spare(f) > inc
      PROVE  /\ x.f \in FileRec /\ x.f.cblk = ChainAt(x.next, x.f.sblk, i)
  <2>1. i = 0
    BY <1>2
  <2>2. f.cblk = f.sblk /\ ChainAt(x.next, f.sblk, 0) = f.sblk
    BY <2>1, ChainSteps
  <2> QED  BY <1>2, <2>1, <2>2
<1>3. ASSUME f.sblk \notin Cluster, NEW a, Allocated(nx, a),
             x = [ok |-> TRUE, next |-> a.next, f |-> [f EXCEPT !.sblk = a.start, !.cblk = a.start]]
      PROVE  /\ x.ok \in BOOLEAN /\ x.f \in FileRec
             /\ x.f.mode = f.mode /\ x.f.pos = f.pos /\ x.f.size = f.size /\ x.f.p_index = f.p_index
             /\ x.f.cblk = ChainAt(x.next, x.f.sblk, i)
             /\ x.f.sblk \in Cluster /\ x.f.cblk \in Cluster
  <2>1. x.ok = TRUE /\ x.f = [f EXCEPT !.sblk = a.start, !.cblk = a.start]
    BY <1>3
  <2>2. a.start \in Cluster /\ a.start \in Link
    BY <1>3 DEF Allocated, Root, Link
  <2>3. /\ x.f \in FileRec /\ x.f.mode = f.mode /\ x.f.pos = f.pos /\ x.f.size = f.size
        /\ x.f.p_index = f.p_index /\ x.f.sblk = a.start /\ x.f.cblk = a.start
    <3> DEFINE s == a.start
    <3> HIDE DEF s
    <3>1. x.f = [f EXCEPT !.sblk = s, !.cblk = s] /\ s \in Link
      BY <2>1, <2>2 DEF s
    <3>2. /\ x.f \in FileRec /\ x.f.mode = f.mode /\ x.f.pos = f.pos /\ x.f.size = f.size
          /\ x.f.p_index = f.p_index /\ x.f.sblk = s /\ x.f.cblk = s
      BY <3>1 DEF FileRec
    <3> QED  BY <3>2 DEF s
  <2>4. ChainAt(x.next, a.start, i) = a.start
    BY <1>3, ChainSteps
  <2> QED  BY <2>1, <2>2, <2>3, <2>4
<1>4. CASE f.sblk \notin Cluster
  <2>1. CASE Spare(f) > inc /\ x = [ok |-> TRUE, next |-> nx, f |-> f]
    <3>1. x.ok \in BOOLEAN /\ x.f = f /\ (x.ok => Spare(f) > inc)
      BY <2>1
    <3> QED  BY <1>2, <1>4, <3>1
  <2>2. CASE x = [ok |-> FALSE, next |-> nx, f |-> f]
    <3>1. x.ok = FALSE /\ x.f = f
      BY <2>2
    <3> QED  BY <1>2, <1>4, <3>1
  <2>3. CASE \E a : /\ Allocated(nx, a)
                    /\ x = [ok |-> TRUE, next |-> a.next,
                            f |-> [f EXCEPT !.sblk = a.start, !.cblk = a.start]]
    BY <1>3, <1>4, <2>3
  <2> QED  BY <1>4, <2>1, <2>2, <2>3 DEF Expanded
<1> QED  BY <1>1, <1>4

(* A write begins: clusters for what the file grows by.                     *)
LEMMA WriteCallInv ==
  ASSUME FatInv, NEW h \in Handle, NEW n \in 1 .. MaxChunk, WriteCall(h, n)
  PROVE  FatInv' /\ (Keeps \/ LossyLink(h))
<1> DEFINE f == file[h]
           e == f.p_index
           inc == f.pos + n - f.size
           x == IF f.pos + n > f.size THEN Expand(next, f, inc)
                ELSE [ok |-> TRUE, next |-> next, f |-> f]
           i == f.pos \div ClusterSize
           g == x.f
<1>1. /\ busy = None /\ f.mode = "write" /\ f.size + n <= MaxSize
      /\ next' = x.next /\ file' = [file EXCEPT ![h] = g]
      /\ IF x.ok THEN busy' = h /\ left' = n ELSE UNCHANGED <<busy, left>>
      /\ noSpace' = (noSpace \/ ~ x.ok)
      /\ UNCHANGED <<dir, data>>
  BY DEF WriteCall
<1>2. /\ f \in FileRec /\ Fits(next, Items, f) /\ WriterFits(f, h, busy)
      /\ e \in Entry /\ IsTable(next) /\ Rooted(next, f.sblk)
      /\ f.cblk \in Cluster => next[f.cblk] # FREE
  BY <1>1, OpenFile
<1>3. f.pos \in Nat /\ f.size \in Nat /\ n \in Nat /\ n > 0
  BY <1>2, Sizes DEF FileRec
<1>4. i \in Nat
  BY <1>3, PartBelow
<1>5. /\ f.cblk = ChainAt(next, f.sblk, i) /\ f.pos <= f.size /\ f.size <= MaxSize
      /\ f.sblk = Items[e].start /\ e \in Named(Items)
  BY <1>2 DEF Fits
<1>6. /\ f.sblk \in Cluster => f.cblk \in Cluster
      /\ f.sblk \notin Cluster => f.pos = 0 /\ f.size = 0 /\ i = 0
  <2>1. 0 \div ClusterSize = 0
    BY Sizes
  <2> QED  BY <1>1, <1>2, <2>1 DEF WriterFits
<1>7. Trees(next, Items)
  BY DEF FatInv
<1>8. f.sblk \in Cluster =>
        \A d \in Named(Items) : d # e => \A k \in Nat : ChainAt(next, Items[d].start, k) # f.cblk
  <2> DEFINE c == f.cblk
  <2>1. f.sblk \in Cluster => c \in Cluster /\ c = ChainAt(next, Items[e].start, i)
    BY <1>5, <1>6
  <2> HIDE DEF c, i, e
  <2>2. f.sblk \in Cluster =>
          \A d \in Named(Items) : d # e => \A k \in Nat : ChainAt(next, Items[d].start, k) # c
    BY <1>4, <1>5, <1>7, <2>1, OnlyOwner
  <2> QED  BY <2>2 DEF c
<1>9. CASE ~ f.pos + n > f.size
  <2>1. x.ok = TRUE /\ x.next = next /\ g = f
    BY <1>9
  <2> HIDE DEF x, i, e
  <2>2. f.sblk \in Cluster
    BY <1>3, <1>6, <1>9
  <2>3. Becomes(file, h, f, file') /\ dir' = dir
    BY <1>1, <2>1 DEF Becomes
  <2>4. e = f.p_index
    BY DEF e
  <2>5. /\ e \in Named(Items) /\ Differ(Items, Items', e) /\ e \in Named(Items')
        /\ Items'[e].start = Items[e].start /\ Items[e].size = f.size /\ Items[e].name = dir[e].name
    BY <1>1, <1>2, <1>5, <2>3, <2>4, WriterItem
  <2>6. Trees(next', Items')
    <3>1. e \in Entry
      BY <1>2 DEF e
    <3> QED  BY <1>1, <1>7, <2>1, <2>5, <3>1, TreesSame
  <2>7. OthersKept(next, next', Items, e) /\ OthersWritten(next, Items, e, data, data')
    BY <1>1, <2>1 DEF OthersKept, OthersWritten
  <2>8. busy' = h /\ left' = n /\ (noSpace' <=> noSpace)
    BY <1>1, <2>1
  <2>9. noSpace' = TRUE /\ noSpace = TRUE
    <3>1. noSpace \in BOOLEAN /\ (noSpace \/ f.pos = f.size)
      BY <1>1 DEF FatInv, AtEnd
    <3>2. f.pos # f.size
      BY <1>3, <1>9
    <3> QED  BY <1>1, <2>1, <3>1, <3>2
  <2>10. WriterFits(f, h, busy')
    BY <1>6, <2>2 DEF WriterFits
  <2>11. f.cblk = ChainAt(next', f.sblk, f.pos \div ClusterSize)
    BY <1>1, <1>5, <2>1 DEF i
  <2>12. left' \in 0 .. MaxChunk /\ (busy' = h => left' > 0 /\ f.size + left' <= MaxSize)
    BY <1>1, <1>3, <2>8, Sizes
  <2>13. FatInv'
    BY <1>1, <1>2, <1>5, <2>3, <2>4, <2>6, <2>7, <2>8, <2>9, <2>10, <2>11, <2>12, WriterStep
  <2>14. Keeps
    <3> DEFINE jt == Items'
    <3>1. Differ(Items, jt, e) /\ e \in Named(jt) /\ jt[e].start = Items[e].start
      BY <2>5
    <3> HIDE DEF jt
    <3>2. NoLoss(next, next, Items, jt)
      BY <3>1, NoLossSame
    <3> QED  BY <1>1, <2>1, <3>2 DEF Keeps, jt
  <2> QED  BY <2>13, <2>14
<1>10. CASE f.pos + n > f.size
  <2>1. inc \in Nat /\ inc > 0 /\ x = Expand(next, f, inc)
    BY <1>3, <1>10
  <2>2. f.size = 0 => Spare(f) = 0 /\ ~ Spare(f) > inc
    <3>1. 0 % ClusterSize = 0
      BY Sizes
    <3> HIDE DEF inc
    <3>2. f.size % ClusterSize = 0 <=> Spare(f) = 0
      BY <1>3, <2>1, ClusterCount
    <3> QED  BY <2>1, <3>1, <3>2
  <2> HIDE DEF x, inc, i, e
  <2>3. Expanded(next, f, inc, x)
    BY <1>2, <1>3, <1>6, <2>1, ExpandCases
  <2>4. /\ x.ok \in BOOLEAN /\ g \in FileRec
        /\ g.mode = f.mode /\ g.pos = f.pos /\ g.size = f.size /\ g.p_index = f.p_index
        /\ g.cblk = ChainAt(x.next, g.sblk, i)
        /\ g.sblk \in Cluster => g.cblk \in Cluster
        /\ f.sblk \in Cluster => /\ g = f
                                 /\ \A k \in Nat : k <= i => ChainAt(x.next, f.sblk, k) = ChainAt(next, f.sblk, k)
        /\ f.sblk \notin Cluster /\ x.ok /\ ~ Spare(f) > inc => g.sblk \in Cluster
    BY <1>2, <1>4, <1>5, <1>6, <2>3, ExpandOwn
  <2> HIDE DEF g
  <2>5. Becomes(file, h, g, file') /\ dir' = dir
    BY <1>1 DEF Becomes
  <2>6. e = f.p_index /\ g.p_index = e /\ g.mode = "write"
    BY <1>1, <2>4 DEF e
  <2>7. /\ e \in Named(Items) /\ Differ(Items, Items', e) /\ e \in Named(Items') /\ Items'[e].start = g.sblk
        /\ Items[e].start = f.sblk /\ Items[e].size = f.size /\ Items[e].name = dir[e].name
    BY <1>1, <2>4, <2>5, <2>6, WriterItem
  <2>8. Trees(x.next, Items') /\ OthersKept(next, x.next, Items, e)
    <3> DEFINE jt == Items'
    <3>1. Differ(Items, jt, e) /\ jt[e].start = x.f.sblk /\ f.sblk = Items[e].start
      BY <2>7 DEF g
    <3>2. Private(next, Items, e, f)
      BY <1>2, <1>6, <1>8 DEF Private
    <3> HIDE DEF jt
    <3>3. Trees(x.next, jt) /\ OthersKept(next, x.next, Items, e)
      BY <1>2, <1>7, <2>3, <2>7, <3>1, <3>2, TreesExpand
    <3> QED  BY <3>3 DEF jt
  <2>9. OthersWritten(next, Items, e, data, data')
    BY <1>1 DEF OthersWritten
  <2>10. (busy' = None \/ busy' = h) /\ (busy' = h => x.ok /\ left' = n) /\ left' \in 0 .. MaxChunk
    <3>1. left \in 0 .. MaxChunk
      BY DEF FatInv
    <3> QED  BY <1>1, <1>3, <2>4, <3>1, NoneIsNoHandle, Sizes
  <2>11. WriterFits(g, h, busy')
    BY <1>6, <2>2, <2>4, <2>10 DEF WriterFits
  <2>12. noSpace' \in BOOLEAN /\ (noSpace => noSpace')
    BY <1>1, <2>4 DEF FatInv
  <2>13. ASSUME ~ noSpace'
         PROVE  g.pos = g.size /\ PartsOf(x.next, dir[e].name, g.sblk, g.size, data')
    <3>1. ~ noSpace
      BY <1>1, <2>13
    <3>2. f.pos = f.size /\ Parts(next, Items, data)
      BY <1>1, <3>1 DEF FatInv, AtEnd
    <3>3. ASSUME NEW k \in Nat, k * ClusterSize < g.size
          PROVE  ChainAt(x.next, g.sblk, k) \in Cluster /\ data'[ChainAt(x.next, g.sblk, k)] = <<dir[e].name, k>>
      <4>1. k * ClusterSize < f.size
        BY <2>4, <3>3
      <4>2. /\ ChainAt(next, f.sblk, k) \in Cluster
            /\ data[ChainAt(next, f.sblk, k)] = <<dir[e].name, k>>
        BY <2>7, <3>2, <4>1 DEF Parts
      <4>3. k <= i
        BY <1>3, <3>2, <4>1, PartBelow DEF i
      <4>4. f.sblk \in Cluster
        <5>1. k * ClusterSize \in Nat
          BY Sizes
        <5> QED  BY <1>6, <4>1, <5>1
      <4>5. ChainAt(x.next, g.sblk, k) = ChainAt(next, f.sblk, k)
        BY <2>4, <4>3, <4>4
      <4> QED  BY <1>1, <4>2, <4>5
    <3> QED  BY <2>4, <3>2, <3>3 DEF PartsOf
  <2>14. g.cblk = ChainAt(x.next, g.sblk, g.pos \div ClusterSize) /\ g.pos <= g.size /\ g.size <= MaxSize
    BY <1>5, <2>4 DEF i
  <2>15. busy' = h => left' > 0 /\ g.size + left' <= MaxSize
    BY <1>1, <1>3, <2>4, <2>10
  <2>16. next' = x.next
    BY <1>1
  <2>17. FatInv'
    BY <1>1, <2>4, <2>5, <2>6, <2>8, <2>9, <2>10, <2>11, <2>12, <2>13, <2>14, <2>15, <2>16, WriterStep
  <2>18. Keeps \/ LossyLink(h)
    <3> DEFINE jt == Items'
    <3>1. Differ(Items, jt, e) /\ e \in Named(jt) /\ jt[e].start = x.f.sblk /\ f.sblk = Items[e].start
          /\ f.cblk = ChainAt(next, f.sblk, i)
      BY <1>5, <2>7 DEF g
    <3>2. Private(next, Items, e, f)
      BY <1>2, <1>6, <1>8 DEF Private
    <3> HIDE DEF jt
    <3>3. \/ NoLoss(next, x.next, Items, jt)
          \/ f.cblk \in Cluster /\ x.ok /\ next[f.cblk] \in Cluster /\ x.next[f.cblk] # next[f.cblk]
      BY <1>2, <1>4, <1>7, <2>3, <2>7, <2>8, <3>1, <3>2, NoLossGrow
    <3>4. ASSUME f.cblk \in Cluster, x.ok, next[f.cblk] \in Cluster, x.next[f.cblk] # next[f.cblk]
          PROVE  LossyLink(h)
      BY <1>1, <2>16, <3>4 DEF LossyLink, GetNext
    <3>5. NoLoss(next, x.next, Items, jt) => Keeps
      BY <2>16 DEF Keeps, jt
    <3> QED  BY <3>3, <3>4, <3>5
  <2> QED  BY <2>17, <2>18
<1> QED  BY <1>9, <1>10

(* move_file_pos of a writer. *)
Moves(nx, f, n, x) == x = MovePos(nx, f, n, TRUE)

(* What move_file_pos of a writer does: the file and its chain up to where  *)
(* it was, and one cluster more if it moves on to that.                     *)
LEMMA MoveFacts ==
  ASSUME NEW nx, IsTable(nx), NEW f \in FileRec, Root(nx, f.sblk), NEW i \in Nat,
         i = f.pos \div ClusterSize, f.cblk = ChainAt(nx, f.sblk, i), f.cblk \in Cluster,
         NEW n \in Nat, n <= ClusterSize - (f.pos % ClusterSize),
         NEW x, Moves(nx, f, n, x)
  PROVE  /\ x.ok \in BOOLEAN /\ x.f \in FileRec
         /\ x.f.mode = f.mode /\ x.f.size = f.size /\ x.f.p_index = f.p_index /\ x.f.sblk = f.sblk
         /\ x.f.pos = IF x.ok THEN f.pos + n ELSE f.pos
         /\ x.f.cblk = ChainAt(x.next, f.sblk, x.f.pos \div ClusterSize) /\ x.f.cblk \in Cluster
         /\ \A k \in Nat : k <= i => ChainAt(x.next, f.sblk, k) = ChainAt(nx, f.sblk, k)
         /\ \/ x.next = nx
            \/ /\ GetNext(nx, f.cblk) = INVALID
               /\ \E y : Expanded(nx, f, ClusterSize, y) /\ y.f = f /\ y.next = x.next
<1> DEFINE p == f.pos
           s == f.sblk
           c == f.cblk
<1>1. p \in Nat /\ ClusterSize \in Nat /\ f.size \in Nat /\ p + n \in Nat
  BY Sizes DEF FileRec
<1>2. Rooted(nx, s) /\ s \in Cluster /\ nx[c] # FREE
  <2>1. Rooted(nx, s) /\ s \in Cluster
    BY DEF Root, Rooted
  <2> QED  BY <2>1, ChainType
<1>3. /\ ~ Crosses(f, n) => (p + n) \div ClusterSize = i
      /\ Crosses(f, n) => (p + n) \div ClusterSize = i + 1
  <2>1. p % ClusterSize \in Nat
    <3> HIDE DEF p
    <3> QED  BY <1>1, Sizes
  <2>2. Crosses(f, n) <=> (p % ClusterSize) + n >= ClusterSize
    BY DEF Crosses
  <2>3. i = p \div ClusterSize /\ n <= ClusterSize - (p % ClusterSize)
    OBVIOUS
  <2> HIDE DEF p
  <2>4. /\ (p % ClusterSize) + n < ClusterSize => (p + n) \div ClusterSize = p \div ClusterSize
        /\ (p % ClusterSize) + n >= ClusterSize => (p + n) \div ClusterSize = (p \div ClusterSize) + 1
    BY <1>1, <2>3, MoveArith
  <2> QED  BY <1>1, <2>1, <2>2, <2>3, <2>4
<1>4. CASE ~ Crosses(f, n)
  <2>1. x = [ok |-> TRUE, next |-> nx, f |-> [f EXCEPT !.pos = p + n]]
    BY <1>4 DEF Moves, MovePos
  <2>2. x.ok /\ x.next = nx /\ x.f = [f EXCEPT !.pos = p + n]
    <3> DEFINE g == [f EXCEPT !.pos = p + n]
    <3>1. x = [ok |-> TRUE, next |-> nx, f |-> g]
      BY <2>1
    <3> HIDE DEF g
    <3>2. x.ok /\ x.next = nx /\ x.f = g
      BY <3>1
    <3> QED  BY <3>2 DEF g
  <2>3. /\ x.f \in FileRec /\ x.f.mode = f.mode /\ x.f.size = f.size /\ x.f.p_index = f.p_index
        /\ x.f.sblk = f.sblk /\ x.f.pos = p + n /\ x.f.cblk = f.cblk
    BY <1>1, <2>2 DEF FileRec
  <2> QED  BY <1>3, <1>4, <2>2, <2>3
<1>5. ASSUME Crosses(f, n), NEW mx, NEW g, g = [f EXCEPT !.cblk = GetNext(mx, c), !.pos = p + n],
             x = [ok |-> TRUE, next |-> mx, f |-> g],
             \A k \in Nat : k <= i => ChainAt(mx, s, k) = ChainAt(nx, s, k),
             GetNext(mx, c) \in Cluster
      PROVE  /\ x.ok \in BOOLEAN /\ x.f \in FileRec /\ x.next = mx
             /\ x.f.mode = f.mode /\ x.f.size = f.size /\ x.f.p_index = f.p_index /\ x.f.sblk = f.sblk
             /\ x.f.pos = IF x.ok THEN f.pos + n ELSE f.pos
             /\ x.f.cblk = ChainAt(x.next, f.sblk, x.f.pos \div ClusterSize) /\ x.f.cblk \in Cluster
  <2> DEFINE d == GetNext(mx, c)
  <2>1. d \in Cluster /\ d \in Link
    BY <1>5 DEF Link
  <2>2. x.ok /\ x.ok \in BOOLEAN /\ x.next = mx /\ x.f = g
    BY <1>5
  <2>4. ChainAt(mx, s, i) = c
    BY <1>5
  <2>5. ChainAt(mx, s, i + 1) = GetNext(mx, c)
    <3> HIDE DEF s, c
    <3> QED  BY <2>4, NextAt
  <2> HIDE DEF d
  <2>6. /\ x.f \in FileRec /\ x.f.mode = f.mode /\ x.f.size = f.size /\ x.f.p_index = f.p_index
        /\ x.f.sblk = f.sblk /\ x.f.pos = p + n /\ x.f.cblk = d
    <3>1. g = [f EXCEPT !.cblk = d, !.pos = p + n]
      BY <1>5 DEF d
    <3>2. g \in FileRec /\ g.mode = f.mode /\ g.size = f.size /\ g.p_index = f.p_index
          /\ g.sblk = f.sblk /\ g.pos = p + n /\ g.cblk = d
      BY <1>1, <2>1, <3>1 DEF FileRec
    <3> QED  BY <2>2, <3>2
  <2> QED  BY <1>3, <1>5, <2>1, <2>2, <2>5, <2>6 DEF d
<1>6. CASE Crosses(f, n) /\ GetNext(nx, c) # INVALID
  <2> DEFINE y == [ok |-> TRUE, next |-> nx, f |-> f]
             g == [f EXCEPT !.cblk = GetNext(nx, c), !.pos = p + n]
  <2>1. x = [y EXCEPT !.f = g]
    BY <1>6 DEF Moves, MovePos
  <2>2. x = [ok |-> TRUE, next |-> nx, f |-> g]
    <3> HIDE DEF g
    <3> QED  BY <2>1
  <2>3. GetNext(nx, c) \in Cluster
    BY <1>2, <1>6, NextOf DEF Link
  <2> QED  BY <1>5, <1>6, <2>2, <2>3
<1>7. CASE Crosses(f, n) /\ GetNext(nx, c) = INVALID
  <2> DEFINE y == Expand(nx, f, ClusterSize)
  <2>1. Expanded(nx, f, ClusterSize, y)
    BY <1>1, ExpandCases
  <2>2. x = IF y.ok THEN [y EXCEPT !.f = [@ EXCEPT !.cblk = GetNext(y.next, c), !.pos = p + n]] ELSE y
    BY <1>7 DEF Moves, MovePos
  <2> HIDE DEF y
  <2>3. /\ y.f = f /\ y.ok \in BOOLEAN
        /\ \A k \in Nat : k <= i => ChainAt(y.next, s, k) = ChainAt(nx, s, k)
        /\ y.ok /\ ~ Spare(f) > ClusterSize => y.next[c] \in Cluster
    BY <2>1, OwnChain
  <2>4. CASE y.ok
    <3>1. ~ Spare(f) > ClusterSize
      BY <1>1, ClusterCount
    <3>2. GetNext(y.next, c) \in Cluster
      BY <2>3, <2>4, <3>1 DEF GetNext
    <3>3. PICK mx : y = [ok |-> TRUE, next |-> mx, f |-> f]
      <4>1. y # [ok |-> FALSE, next |-> nx, f |-> f]
        BY <2>4
      <4>2. f.sblk \in Cluster
        BY <1>2
      <4> QED  BY <2>1, <4>1, <4>2 DEF Expanded
    <3>4. y.next = mx /\ y.f = f
      BY <3>3
    <3> DEFINE g == [f EXCEPT !.cblk = GetNext(mx, c), !.pos = p + n]
    <3>5. x = [y EXCEPT !.f = g]
      BY <2>2, <2>4, <3>4
    <3>6. x = [ok |-> TRUE, next |-> mx, f |-> g]
      <4> HIDE DEF g
      <4> QED  BY <3>3, <3>5
    <3> QED  BY <1>5, <1>7, <2>1, <2>3, <3>2, <3>4, <3>6
  <2>5. CASE ~ y.ok
    <3>1. x = y /\ ~ x.ok
      BY <2>2, <2>3, <2>5
    <3>2. i <= i
      OBVIOUS
    <3> QED  BY <1>7, <2>1, <2>3, <3>1, <3>2
  <2> QED  BY <2>4, <2>5
<1> QED  BY <1>4, <1>6, <1>7

(* A round of a write: what fits the cluster is written, and the file goes  *)
(* on, to a new cluster where it had no next.                               *)
LEMMA WriteRoundInv ==
  ASSUME FatInv, NEW h \in Handle, WriteRound(h)
  PROVE  FatInv' /\ Keeps
<1> DEFINE f0 == file[h]
           n == InCluster(f0)
           f == [f0 EXCEPT !.size = @ + n]
           x == MovePos(next, f, n, TRUE)
           g == x.f
           e == f0.p_index
           i == f0.pos \div ClusterSize
           c == f0.cblk
           s == f0.sblk
<1>1. /\ busy = h /\ f0.mode = "write" /\ left > 0
      /\ data' = [d \in Cluster |-> IF d = c THEN Label(f0) ELSE data[d]]
      /\ next' = x.next /\ file' = [file EXCEPT ![h] = g]
      /\ noSpace' = (noSpace \/ ~ x.ok)
      /\ left' = (IF x.ok THEN left - n ELSE 0)
      /\ busy' = (IF left' > 0 THEN h ELSE None)
      /\ dir' = dir
  BY DEF WriteRound
<1>2. /\ f0 \in FileRec /\ Fits(next, Items, f0) /\ WriterFits(f0, h, busy)
      /\ e \in Entry /\ IsTable(next) /\ Rooted(next, s)
      /\ c \in Cluster => next[c] # FREE
  BY <1>1, OpenFile
<1>3. f0.pos \in Nat /\ f0.size \in Nat /\ f0.pos <= f0.size
  BY <1>2 DEF FileRec, Fits
<1>4. i \in Nat
  BY <1>3, PartBelow
<1>5. s \in Cluster /\ c \in Cluster /\ Root(next, s)
  BY <1>1, <1>2, Clusters DEF WriterFits, Rooted
<1>6. c = ChainAt(next, s, i) /\ s = Items[e].start /\ e \in Named(Items)
  BY <1>2 DEF Fits
<1>7. left \in 1 .. MaxChunk /\ f0.size + left <= MaxSize
  BY <1>1, NoneIsNoHandle DEF FatInv, CallFits
<1>8. n \in Nat /\ n > 0 /\ n <= left /\ n <= ClusterSize - (f0.pos % ClusterSize)
  <2>1. f0.pos % ClusterSize \in 0 .. ClusterSize - 1 /\ ClusterSize \in Nat
    <3>1. PICK p \in Int : p = f0.pos
      BY <1>3
    <3>2. p % ClusterSize \in 0 .. ClusterSize - 1
      BY Sizes, Quotient
    <3> QED  BY <3>1, <3>2, Sizes
  <2> QED  BY <1>7, <2>1, Sizes DEF InCluster, Small
<1>9. Moves(next, f, n, x)
  BY DEF Moves
<1>10. Label(f0) = <<dir[e].name, i>>
  BY DEF Label
<1> HIDE DEF x, n
<1>11. /\ f \in FileRec /\ f.mode = "write" /\ f.pos = f0.pos /\ f.size = f0.size + n
       /\ f.p_index = e /\ f.sblk = s /\ f.cblk = c
  <2>1. f0.size + n \in Nat
    BY <1>3, <1>8
  <2> QED  BY <1>1, <1>2, <2>1 DEF FileRec
<1>12. i = f.pos \div ClusterSize
  BY <1>11
<1> HIDE DEF i, c, s, e, f
<1>13. /\ x.ok \in BOOLEAN /\ g \in FileRec
       /\ g.mode = f.mode /\ g.size = f.size /\ g.p_index = f.p_index /\ g.sblk = f.sblk
       /\ g.pos = IF x.ok THEN f.pos + n ELSE f.pos
       /\ g.cblk = ChainAt(x.next, f.sblk, g.pos \div ClusterSize) /\ g.cblk \in Cluster
       /\ \A k \in Nat : k <= i => ChainAt(x.next, f.sblk, k) = ChainAt(next, f.sblk, k)
       /\ \/ x.next = next
          \/ /\ GetNext(next, f.cblk) = INVALID
             /\ \E y : Expanded(next, f, ClusterSize, y) /\ y.f = f /\ y.next = x.next
  <2>1. Root(next, f.sblk) /\ f.cblk = ChainAt(next, f.sblk, i) /\ f.cblk \in Cluster
    BY <1>5, <1>6, <1>11
  <2>2. n <= ClusterSize - (f.pos % ClusterSize)
    BY <1>8, <1>11
  <2> QED  BY <1>2, <1>4, <1>8, <1>9, <1>11, <1>12, <2>1, <2>2, MoveFacts
<1>14. Becomes(file, h, g, file') /\ dir' = dir
  BY <1>1 DEF Becomes
<1> HIDE DEF g
<1>15. e = f0.p_index /\ g.p_index = e /\ g.mode = "write"
  BY <1>11, <1>13 DEF e
<1>16. /\ Differ(Items, Items', e) /\ e \in Named(Items') /\ Items'[e].start = s
       /\ Items[e].start = s /\ Items[e].size = f0.size /\ Items[e].name = dir[e].name
  BY <1>1, <1>6, <1>11, <1>13, <1>14, <1>15, WriterItem
<1>17. Trees(next, Items)
  BY DEF FatInv
<1>18. \A d \in Named(Items) : d # e => \A k \in Nat : ChainAt(next, Items[d].start, k) # c
  BY <1>4, <1>5, <1>6, <1>17, OnlyOwner
<1>19. Trees(x.next, Items') /\ OthersKept(next, x.next, Items, e)
  <2> DEFINE jt == Items'
  <2>1. CASE x.next = next
    <3>1. Trees(next, jt)
      <4>1. jt[e].start = Items[e].start /\ e \in Entry /\ e \in Named(Items) /\ Differ(Items, jt, e)
        BY <1>2, <1>6, <1>16 DEF e
      <4> HIDE DEF jt
      <4> QED  BY <1>17, <4>1, TreesSame
    <3> QED  BY <2>1, <3>1 DEF OthersKept
  <2>2. ASSUME NEW y, Expanded(next, f, ClusterSize, y), y.f = f, y.next = x.next
        PROVE  Trees(x.next, Items') /\ OthersKept(next, x.next, Items, e)
    <3>1. /\ f.sblk = Items[e].start /\ jt[e].start = y.f.sblk /\ Differ(Items, jt, e)
          /\ Private(next, Items, e, f)
      BY <1>2, <1>5, <1>11, <1>16, <1>18, <2>2 DEF c, Private
    <3> HIDE DEF jt
    <3>2. Trees(y.next, jt) /\ OthersKept(next, y.next, Items, e)
      BY <1>6, <1>11, <1>17, <2>2, <3>1, TreesExpand
    <3> QED  BY <2>2, <3>2 DEF jt
  <2> QED  BY <1>13, <2>1, <2>2
<1>20. OthersWritten(next, Items, e, data, data')
  BY <1>1, <1>18 DEF OthersWritten
<1>21. /\ g.sblk = s /\ g.pos <= g.size /\ g.size <= MaxSize
       /\ g.cblk = ChainAt(x.next, g.sblk, g.pos \div ClusterSize)
  <2>1. g.sblk = s /\ g.cblk = ChainAt(x.next, g.sblk, g.pos \div ClusterSize)
    BY <1>11, <1>13
  <2>2. g.size = f0.size + n /\ g.pos <= f0.pos + n
    BY <1>3, <1>8, <1>11, <1>13
  <2>3. g.pos \in Nat
    BY <1>13 DEF FileRec
  <2>4. PICK z \in Nat, w \in Nat, v \in Nat : z = f0.size /\ w = f0.pos /\ v = g.pos /\ w <= z
    BY <1>3, <2>3
  <2>5. left \in Nat /\ z + left <= MaxSize /\ g.size = z + n /\ v <= w + n /\ MaxSize \in Nat
    BY <1>7, <2>2, <2>4, Sizes
  <2>6. v <= z + n /\ z + n <= MaxSize
    BY <1>8, <2>4, <2>5
  <2> QED  BY <2>1, <2>4, <2>5, <2>6
<1>22. WriterFits(g, h, busy')
  BY <1>5, <1>13, <1>21 DEF WriterFits
<1>23. (busy' = None \/ busy' = h) /\ left' \in 0 .. MaxChunk /\ (busy' = h => left' > 0 /\ g.size + left' <= MaxSize)
  <2>1. left' \in 0 .. MaxChunk /\ (left' > 0 => left' = left - n)
    BY <1>1, <1>7, <1>8, <1>13, Sizes
  <2>2. busy' = h => left' > 0
    BY <1>1, NoneIsNoHandle
  <2>3. g.size = f0.size + n
    BY <1>11, <1>13
  <2> QED  BY <1>1, <1>3, <1>7, <1>8, <2>1, <2>2, <2>3, FatAssumption
<1>24. noSpace' \in BOOLEAN /\ (noSpace => noSpace')
  BY <1>1, <1>13 DEF FatInv
<1>25. ASSUME ~ noSpace'
       PROVE  g.pos = g.size /\ PartsOf(x.next, dir[e].name, g.sblk, g.size, data')
  <2>1. ~ noSpace /\ x.ok
    BY <1>1, <1>25
  <2>2. f0.pos = f0.size /\ Parts(next, Items, data)
    BY <1>1, <2>1 DEF FatInv, AtEnd
  <2>3. g.pos = f0.pos + n /\ g.size = f0.size + n
    BY <1>11, <1>13, <2>1
  <2>4. ASSUME NEW k \in Nat, k * ClusterSize < g.size
        PROVE  ChainAt(x.next, g.sblk, k) \in Cluster /\ data'[ChainAt(x.next, g.sblk, k)] = <<dir[e].name, k>>
    <3>1. k <= i
      <4>1. k * ClusterSize < f0.pos + n
        BY <2>2, <2>3, <2>4
      <4> QED  BY <1>3, <1>8, <4>1, PartReach DEF i
    <3>2. ChainAt(x.next, g.sblk, k) = ChainAt(next, s, k)
      BY <1>11, <1>13, <1>21, <3>1
    <3>3. CASE k = i
      <4>1. ChainAt(next, s, k) = c
        BY <1>6, <3>3
      <4> QED  BY <1>1, <1>5, <1>10, <3>2, <3>3, <4>1
    <3>4. CASE k # i
      <4>1. k * ClusterSize < f0.size
        <5>1. k < i
          BY <1>4, <3>1, <3>4
        <5> QED  BY <1>3, <2>2, <5>1, PartBelow DEF i
      <4>2. /\ ChainAt(next, s, k) \in Cluster
            /\ data[ChainAt(next, s, k)] = <<dir[e].name, k>>
        BY <1>6, <1>16, <2>2, <4>1 DEF Parts
      <4>3. ChainAt(next, s, k) # c
        <5> SUFFICES ASSUME ChainAt(next, s, k) = ChainAt(next, s, i) PROVE FALSE
          BY <1>6
        <5>1. k = i
          BY <1>2, <1>4, <4>2, ChainsMeet DEF s
        <5> QED  BY <3>4, <5>1
      <4> QED  BY <1>1, <3>2, <4>2, <4>3
    <3> QED  BY <3>3, <3>4
  <2> QED  BY <2>2, <2>3, <2>4 DEF PartsOf
<1>26. next' = x.next
  BY <1>1
<1>27. FatInv'
  BY <1>1, <1>13, <1>14, <1>15, <1>19, <1>20, <1>21, <1>22, <1>23, <1>24, <1>25, <1>26, WriterStep
<1>28. Keeps
  <2> DEFINE jt == Items'
  <2>1. /\ Differ(Items, jt, e) /\ e \in Named(jt) /\ jt[e].start = Items[e].start
    BY <1>16
  <2> HIDE DEF jt
  <2>2. CASE x.next = next
    <3>1. NoLoss(next, next, Items, jt)
      BY <2>1, NoLossSame
    <3> QED  BY <1>26, <2>2, <3>1 DEF Keeps, jt
  <2>3. ASSUME GetNext(next, f.cblk) = INVALID, NEW y, Expanded(next, f, ClusterSize, y), y.f = f,
               y.next = x.next
        PROVE  Keeps
    <3>1. /\ f.sblk = Items[e].start /\ jt[e].start = y.f.sblk /\ f.cblk = ChainAt(next, f.sblk, i)
          /\ Private(next, Items, e, f) /\ OthersKept(next, y.next, Items, e)
      BY <1>2, <1>5, <1>6, <1>11, <1>16, <1>18, <1>19, <2>1, <2>3 DEF c, Private
    <3>2. next[f.cblk] \notin Cluster
      BY <1>5, <1>11, <2>3, Clusters DEF GetNext
    <3>3. \/ NoLoss(next, y.next, Items, jt)
          \/ f.cblk \in Cluster /\ y.ok /\ next[f.cblk] \in Cluster /\ y.next[f.cblk] # next[f.cblk]
      BY <1>4, <1>6, <1>11, <1>17, <2>1, <2>3, <3>1, NoLossGrow
    <3> QED  BY <1>26, <2>3, <3>2, <3>3 DEF Keeps, jt
  <2> QED  BY <1>13, <2>2, <2>3
<1> QED  BY <1>27, <1>28

-----------------------------------------------------------------------------
(* FatInv is inductive: a step that changes nothing keeps it.               *)
LEMMA FatInvStutters ==
  ASSUME FatInv, UNCHANGED vars
  PROVE  FatInv' /\ Keeps
<1>1. /\ next' = next /\ dir' = dir /\ file' = file /\ data' = data /\ busy' = busy
      /\ left' = left /\ noSpace' = noSpace
  BY DEF vars
<1>2. Items' = Items
  BY <1>1 DEF Items
<1> QED  BY <1>1, <1>2, SameKeeps DEF FatInv

(* Every operation keeps it, and loses no cluster unless it is a write that *)
(* links after a cluster that had a successor.                              *)
LEMMA FatInvStep ==
  ASSUME FatInv, Next
  PROVE  FatInv' /\ (Keeps \/ \E h \in Handle : LossyLink(h))
BY WriteRoundInv, ReadRoundInv, CloseInv, OpenReadInv, OpenTruncInv, OpenNewInv, WriteCallInv,
   ReadCallInv, SeekInv, UnlinkInv DEF Next

(* The inductive invariant holds of every state.                            *)
THEOREM FatInvariant == Spec => []FatInv
<1>1. Init => FatInv
  BY FatInitInv
<1>2. FatInv /\ [Next]_vars => FatInv'
  BY FatInvStep, FatInvStutters
<1> QED  BY <1>1, <1>2, PTL DEF Spec

(* The entry of an owner.                                                   *)
EntryOf(o) == IF o[1] = "handle" THEN file[o[2]].p_index ELSE o[2]

(* An owner is a handle that writes or an entry that nobody writes.         *)
LEMMA OwnerKinds ==
  ASSUME NEW o \in Owners
  PROVE  \/ \E h \in Handle : o = <<"handle", h>> /\ file[h].mode = "write" /\ EntryOf(o) = file[h].p_index
         \/ \E e \in Entry : /\ o = <<"entry", e>> /\ dir[e].name \in Name /\ Writers(e) = {}
                             /\ EntryOf(o) = e
BY DEF Owners, Written, Resting, EntryOf

(* The start, size and name of an owner are those of its item.              *)
LEMMA OwnerItem ==
  ASSUME FatInv, NEW o \in Owners
  PROVE  /\ EntryOf(o) \in Named(Items)
         /\ StartOf(o) = Items[EntryOf(o)].start
         /\ SizeOf(o) = Items[EntryOf(o)].size
         /\ NameOf(o) = Items[EntryOf(o)].name
<1>1. CASE \E h \in Handle : o = <<"handle", h>> /\ file[h].mode = "write" /\ EntryOf(o) = file[h].p_index
  <2>1. PICK h \in Handle : o = <<"handle", h>> /\ file[h].mode = "write" /\ EntryOf(o) = file[h].p_index
    BY <1>1
  <2> DEFINE e == file[h].p_index
  <2>2. SoleIn(file) /\ e \in Entry /\ dir[e].name \in Name
    BY <2>1, OpenFile DEF FatInv, FilesFit
  <2>3. Items[e] = [name |-> dir[e].name, start |-> file[h].sblk, size |-> file[h].size]
    BY <2>1, <2>2, WrittenItem DEF Items
  <2>4. StartOf(o) = file[h].sblk /\ SizeOf(o) = file[h].size /\ NameOf(o) = dir[e].name
    BY <2>1 DEF StartOf, SizeOf, NameOf
  <2> QED  BY <2>1, <2>2, <2>3, <2>4 DEF Named
<1>2. CASE \E e \in Entry : /\ o = <<"entry", e>> /\ dir[e].name \in Name /\ Writers(e) = {}
                            /\ EntryOf(o) = e
  <2>1. PICK e \in Entry : /\ o = <<"entry", e>> /\ dir[e].name \in Name /\ Writers(e) = {}
                           /\ EntryOf(o) = e
    BY <1>2
  <2>2. Items[e] = dir[e]
    BY <2>1, WritersAre, ItemFacts DEF Items
  <2>3. StartOf(o) = dir[e].start /\ SizeOf(o) = dir[e].size /\ NameOf(o) = dir[e].name
    BY <2>1 DEF StartOf, SizeOf, NameOf
  <2> QED  BY <2>1, <2>2, <2>3 DEF Named
<1> QED  BY <1>1, <1>2, OwnerKinds

(* Two owners have two entries.                                             *)
LEMMA OwnersApart ==
  ASSUME FatInv, NEW o \in Owners, NEW p \in Owners, o # p
  PROVE  EntryOf(o) # EntryOf(p)
<1>1. \A g, h \in Handle : g # h /\ file[g].mode = "write" /\ file[h].mode = "write" =>
                             file[g].p_index # file[h].p_index
  BY DEF FatInv, FilesFit, SoleIn
<1>2. \A h \in Handle, e \in Entry : file[h].mode = "write" /\ Writers(e) = {} => file[h].p_index # e
  BY DEF Writers, Users
<1> QED  BY <1>1, <1>2, OwnerKinds

(* The chain of an owner is the chain of its item.                          *)
LEMMA OwnerChain ==
  ASSUME FatInv, NEW o \in Owners
  PROVE  /\ IsTable(next) /\ Rooted(next, StartOf(o))
         /\ \A d : d \in ChainOf(o) <=> d \in Cluster /\ \E k \in Nat : ChainAt(next, StartOf(o), k) = d
<1>1. IsTable(next) /\ Rooted(next, StartOf(o))
  <2>1. Trees(next, Items)
    BY DEF FatInv
  <2> QED  BY <2>1, OwnerItem DEF Trees
<1> QED  BY <1>1, InChainSet DEF ChainOf

(* Every value has its type.                                                *)
THEOREM SpecFatTypeOK == Spec => []TypeOK
<1>1. ASSUME FatInv PROVE TypeOK
  <2>1. next \in [Cluster -> Cluster \cup {FREE, INVALID}]
    BY <1>1 DEF FatInv, Trees, IsTable, Link
  <2>2. ASSUME NEW h \in Handle PROVE file[h] \in FileType
    <3>1. file[h] \in FileRec
      BY <1>1 DEF FatInv, FilesFit
    <3>2. CASE file[h].mode = "closed"
      <4>1. file[h] = Closed
        BY <1>1, <3>2 DEF FatInv, FilesFit
      <4>2. 0 \in 0 .. MaxSize /\ 0 \in 0 .. NEntry
        BY FatAssumption
      <4> QED  BY <4>1, <4>2 DEF Closed, FileType
    <3>3. CASE file[h].mode # "closed"
      <4>1. /\ Fits(next, Items, file[h]) /\ file[h].p_index \in Entry /\ Rooted(next, file[h].sblk)
            /\ file[h].cblk \in Cluster \cup {INVALID}
        BY <1>1, <3>3, OpenFile
      <4>2. file[h].sblk \in Cluster \cup {INVALID}
        BY <4>1 DEF Rooted, Root
      <4>3. file[h].pos \in 0 .. MaxSize /\ file[h].size \in 0 .. MaxSize
        BY <3>1, <4>1, FatAssumption DEF FileRec, Fits
      <4>4. file[h].p_index \in 0 .. NEntry
        BY <4>1, FatAssumption DEF Entry
      <4> QED  BY <3>1, <4>1, <4>2, <4>3, <4>4 DEF FileRec, FileType
    <3> QED  BY <3>2, <3>3
  <2>3. file \in [Handle -> FileType]
    BY <1>1, <2>2 DEF FatInv, FilesFit
  <2> QED  BY <1>1, <2>1, <2>3 DEF FatInv, TypeOK, DirType, Link
<1> QED  BY <1>1, FatInvariant, PTL

(* move_file_pos: the current cluster of an open file is the one its        *)
(* position is in, of the chain it has now.                                 *)
THEOREM SpecPosMatches == Spec => []PosMatches
<1>1. FatInv => PosMatches
  BY DEF FatInv, FilesFit, Fits, PosMatches
<1> QED  BY <1>1, FatInvariant, PTL

(* fatfs_write: every part of every file below its size is in a cluster of  *)
(* its own that was last written as that part, as long as no allocation     *)
(* failed, whoever else opened, wrote, emptied or removed files meanwhile.  *)
THEOREM SpecContentIntact == Spec => []ContentIntact
<1>1. ASSUME FatInv PROVE ContentIntact
  <2> SUFFICES ASSUME ~ noSpace, NEW o \in Owners, NEW k \in 0 .. NCluster - 1,
                      k * ClusterSize < SizeOf(o)
               PROVE  /\ ChainAt(next, StartOf(o), k) \in Cluster
                      /\ data[ChainAt(next, StartOf(o), k)] = <<NameOf(o), k>>
    BY DEF ContentIntact
  <2>1. Parts(next, Items, data)
    BY <1>1 DEF FatInv
  <2>2. k \in Nat
    OBVIOUS
  <2> DEFINE e == EntryOf(o)
  <2>3. /\ e \in Named(Items) /\ StartOf(o) = Items[e].start /\ SizeOf(o) = Items[e].size
        /\ NameOf(o) = Items[e].name
    BY <1>1, OwnerItem
  <2> HIDE DEF e
  <2> QED  BY <2>1, <2>2, <2>3 DEF Parts
<1> QED  BY <1>1, FatInvariant, PTL

(* A chain has as many clusters as steps to its end.                        *)
LEMMA ChainEnds ==
  ASSUME NEW nx, IsTable(nx), NEW c, Rooted(nx, c)
  PROVE  ChainAt(nx, c, Cardinality(ChainSet(nx, c))) = INVALID
<1>1. PICK n \in 0 .. NCluster : /\ \A k \in 0 .. n - 1 : ChainAt(nx, c, k) \in Cluster
                                 /\ \A k \in Nat : k >= n => ChainAt(nx, c, k) = INVALID
  BY ChainShort
<1>2. n \in Nat
  BY Clusters
<1> DEFINE D == 0 .. n - 1
           C == ChainSet(nx, c)
           at == [k \in D |-> ChainAt(nx, c, k)]
<1>3. \A d : d \in C <=> d \in Cluster /\ \E k \in Nat : ChainAt(nx, c, k) = d
  BY InChainSet
<1>4. at \in Bijection(D, C)
  <2>1. \A k \in D : at[k] = ChainAt(nx, c, k) /\ k \in Nat /\ at[k] \in C
    BY <1>1, <1>2, <1>3
  <2>2. \A j, k \in D : at[j] = at[k] => j = k
    BY <1>1, <2>1, ChainsMeet
  <2>3. \A d \in C : \E k \in D : at[k] = d
    <3> SUFFICES ASSUME NEW d \in C PROVE \E k \in D : at[k] = d
      OBVIOUS
    <3>1. PICK k \in Nat : ChainAt(nx, c, k) = d /\ d \in Cluster
      BY <1>3
    <3>2. k \in D
      BY <1>1, <1>2, <3>1, Clusters
    <3> QED  BY <3>1, <3>2
  <2>4. at \in [D -> C]
    BY <2>1
  <2> QED  BY <2>2, <2>3, <2>4 DEF Bijection, Injection, Surjection, IsInjective
<1> HIDE DEF at, C
<1>5. Cardinality(C) = n
  <2>1. IsFiniteSet(D) /\ Cardinality(D) = n
    BY <1>2, FS_Interval
  <2>2. ExistsBijection(D, C)
    BY <1>4 DEF ExistsBijection
  <2> QED  BY <2>1, <2>2, FS_Bijection
<1> QED  BY <1>1, <1>2, <1>5 DEF C

(* cluster_alloc_free, cluster_free_chain: no cluster is part of two files, *)
(* and every chain ends.                                                    *)
THEOREM SpecChainsDisjoint == Spec => []ChainsDisjoint
<1>1. ASSUME FatInv PROVE ChainsDisjoint
  <2>1. ASSUME NEW o \in Owners, NEW p \in Owners, o # p
        PROVE  ChainOf(o) \cap ChainOf(p) = {}
    <3> SUFFICES ASSUME NEW d, d \in ChainOf(o), d \in ChainOf(p) PROVE FALSE
      OBVIOUS
    <3> DEFINE s == StartOf(o)
               t == StartOf(p)
    <3>1. IsTable(next) /\ Rooted(next, s) /\ Rooted(next, t)
      BY <1>1, OwnerChain
    <3>2. PICK j \in Nat : ChainAt(next, s, j) = d /\ d \in Cluster
      BY <1>1, OwnerChain
    <3>3. PICK k \in Nat : ChainAt(next, t, k) = d
      BY <1>1, OwnerChain
    <3>4. EntryOf(o) # EntryOf(p)
      BY <1>1, <2>1, OwnersApart
    <3>5. Trees(next, Items)
      BY <1>1 DEF FatInv
    <3>6. s = t /\ s \in Cluster
      <4> HIDE DEF s, t
      <4>1. ChainAt(next, s, j) \in Cluster /\ ChainAt(next, s, j) = ChainAt(next, t, k)
        BY <3>2, <3>3
      <4>2. s = t
        BY <3>1, <4>1, ChainsMeet
      <4>3. s # INVALID
        BY <4>1, NoChain, Clusters
      <4> QED  BY <3>1, <4>2, <4>3 DEF Rooted, Root
    <3>7. /\ EntryOf(o) \in Named(Items) /\ s = Items[EntryOf(o)].start
          /\ EntryOf(p) \in Named(Items) /\ t = Items[EntryOf(p)].start
      BY <1>1, OwnerItem
    <3> HIDE DEF s, t
    <3> QED  BY <3>4, <3>5, <3>6, <3>7 DEF Trees
  <2>2. ASSUME NEW o \in Owners
        PROVE  ChainAt(next, StartOf(o), Cardinality(ChainOf(o))) = INVALID
    BY <1>1, OwnerChain, ChainEnds DEF ChainOf
  <2> QED  BY <2>1, <2>2 DEF ChainsDisjoint
<1> QED  BY <1>1, FatInvariant, PTL

(* The clusters nobody has are those no chain of an item reaches.           *)
LEMMA LostIs ==
  ASSUME FatInv
  PROVE  Lost = {c \in Cluster : next[c] # FREE /\ c \notin Reached(next, Items)}
<1>1. ASSUME NEW c \in Cluster, NEW o \in Owners, c \in ChainOf(o)
      PROVE  c \in Reached(next, Items)
  <2>1. PICK k \in Nat : ChainAt(next, StartOf(o), k) = c
    BY <1>1, OwnerChain
  <2>2. EntryOf(o) \in Named(Items) /\ StartOf(o) = Items[EntryOf(o)].start
    BY OwnerItem
  <2> QED  BY <2>1, <2>2 DEF Reached
<1>2. ASSUME NEW c \in Cluster, c \in Reached(next, Items)
      PROVE  \E o \in Owners : c \in ChainOf(o)
  <2>1. PICK e \in Named(Items) : \E k \in Nat : ChainAt(next, Items[e].start, k) = c
    BY <1>2 DEF Reached
  <2>2. e \in Entry /\ dir[e].name \in Name
    BY ItemFacts DEF Named, Items
  <2>3. PICK o \in Owners : EntryOf(o) = e
    <3>1. CASE Writers(e) = {}
      <4>1. <<"entry", e>> \in Owners /\ EntryOf(<<"entry", e>>) = e
        BY <2>2, <3>1 DEF Owners, Resting, EntryOf
      <4> QED  BY <4>1
    <3>2. CASE Writers(e) # {}
      <4>1. PICK h \in Handle : file[h].mode = "write" /\ file[h].p_index = e
        BY <3>2 DEF Writers, Users
      <4>2. <<"handle", h>> \in Owners /\ EntryOf(<<"handle", h>>) = e
        BY <4>1 DEF Owners, Written, EntryOf
      <4> QED  BY <4>2
    <3> QED  BY <3>1, <3>2
  <2>4. StartOf(o) = Items[e].start
    BY <2>3, OwnerItem
  <2>5. c \in ChainOf(o)
    BY <2>1, <2>4, OwnerChain
  <2> QED  BY <2>5
<1> QED  BY <1>1, <1>2 DEF Lost

(* move_file_pos, expand_file: a cluster gets lost in a write only, and     *)
(* only when it links new clusters after one that already had a successor.  *)
THEOREM SpecLostOnlyByRelink == Spec => LostOnlyByRelink
<1>1. FatInv /\ FatInv' /\ [Next]_vars
        => [Lost' \subseteq Lost
            \/ \E h \in Handle : /\ busy' = h /\ file[h].mode = "write"
                                /\ GetNext(next, file[h].cblk) \in Cluster
                                /\ next'[file[h].cblk] # next[file[h].cblk]]_vars
  <2> SUFFICES ASSUME FatInv, FatInv', [Next]_vars
               PROVE  \/ Lost' \subseteq Lost
                      \/ \E h \in Handle :
                            /\ busy' = h /\ file[h].mode = "write"
                            /\ GetNext(next, file[h].cblk) \in Cluster
                            /\ next'[file[h].cblk] # next[file[h].cblk]
    OBVIOUS
  <2>1. Keeps \/ \E h \in Handle : LossyLink(h)
    BY FatInvStep, FatInvStutters
  <2>2. Lost = {c \in Cluster : next[c] # FREE /\ c \notin Reached(next, Items)}
    BY LostIs
  <2>3. Lost' = {c \in Cluster : next'[c] # FREE /\ c \notin Reached(next', Items')}
    <3>1. (FatInv => Lost = {c \in Cluster : next[c] # FREE /\ c \notin Reached(next, Items)})'
      BY LostIs, PTL
    <3> QED  BY <3>1
  <2>4. Keeps => Lost' \subseteq Lost
    BY <2>2, <2>3 DEF Keeps, NoLoss
  <2> QED  BY <2>1, <2>4 DEF LossyLink
<1> QED  BY <1>1, FatInvariant, PTL DEF Spec, LostOnlyByRelink

-----------------------------------------------------------------------------
(* Listings.                                                                *)

(* The entries of a name that a listing at index i has gone past.           *)
Passed(n, i) == {e \in Entry : e < i /\ dir[e].name = n}

(* A name that could be opened all the while was returned once for each of  *)
(* its entries that were passed, and at the end one of them was passed.     *)
Told ==
  /\ index \in Nat
  /\ ended \in BOOLEAN
  /\ listed \in [Name -> Nat]
  /\ steady \subseteq VisibleNames
  /\ \A n \in steady : listed[n] = Cardinality(Passed(n, index))
  /\ ended => \A n \in steady : listed[n] >= 1

(* A set of entries is finite and has a number.                             *)
LEMMA EntriesCount ==
  ASSUME NEW S, S \subseteq Entry
  PROVE  IsFiniteSet(S) /\ Cardinality(S) \in Nat
<1>1. NEntry \in Nat
  BY FatAssumption
<1>2. IsFiniteSet(Entry)
  BY <1>1, FS_Interval DEF Entry
<1> QED  BY <1>2, FS_Subset, FS_CardinalityType

(* No call renames, adds or removes an entry of a name a lookup finds        *)
(* before and after it.                                                     *)
LEMMA SteadyEntries ==
  ASSUME FatInv, Next, NEW n \in Name, n \in VisibleNames, n \in VisibleNames'
  PROVE  \A e \in Entry : dir'[e].name = n <=> dir[e].name = n
<1>1. PICK v \in Entry : Visible(n, v)
  BY DEF VisibleNames, Absent
<1>2. PICK w \in Entry : Visible(n, w)'
  BY DEF VisibleNames, Absent
<1>t. dir \in DirType
  BY DEF FatInv
<1>d. n # None /\ n # "deleted" /\ n # "label" /\ Entry \subseteq Nat
  BY FatAssumption DEF Entry
<1>3. CASE dir' = dir
  BY <1>3
<1>4. ASSUME NEW h \in Handle, Close(h)
      PROVE  \A e \in Entry : dir'[e].name = n <=> dir[e].name = n
  BY <1>4, <1>t DEF Close, DirType
<1>5. ASSUME NEW h \in Handle, NEW m \in Name, OpenNew(h, m)
      PROVE  \A e \in Entry : dir'[e].name = n <=> dir[e].name = n
  <2>1. m # n
    BY <1>1, <1>5 DEF OpenNew, Absent
  <2>2. PICK s \in Entry : SlotFor(s) /\ dir' = [dir EXCEPT ![s] = [name |-> m, start |-> INVALID, size |-> 0]]
    BY <1>5 DEF OpenNew
  <2>3. dir[s].name # n
    BY <2>2, <1>d DEF SlotFor, End
  <2> QED  BY <2>1, <2>2, <2>3, <1>t DEF DirType
<1>6. ASSUME NEW m \in Name, Unlink(m)
      PROVE  \A e \in Entry : dir'[e].name = n <=> dir[e].name = n
  <2>1. PICK s \in Entry : Visible(m, s) /\ dir' = [dir EXCEPT ![s] = EndItem]
    BY <1>6 DEF Unlink
  <2>2. \A e \in Entry : e # s => dir'[e] = dir[e]
    BY <2>1, <1>t DEF DirType
  <2>3. dir'[s].name = None
    BY <2>1, <1>t DEF DirType, EndItem
  <2>4. dir'[w].name = n /\ \A d \in Entry : d < w => dir'[d].name # None
    BY <1>2 DEF Visible, Before
  <2>5. w # s /\ ~ (s < w) /\ dir[w].name = n
    BY <2>2, <2>3, <2>4, <1>d
  <2>6. w < s
    <3>1. w \in Nat /\ s \in Nat
      BY <1>d
    <3> QED  BY <2>5, <3>1
  <2>7. dir[s].name # n
    BY <2>1, <2>5, <2>6 DEF Visible
  <2> QED  BY <2>2, <2>3, <2>7, <1>d
<1>7. \/ dir' = dir
      \/ \E h \in Handle : Close(h) \/ \E m \in Name : OpenNew(h, m)
      \/ \E m \in Name : Unlink(m)
  BY DEF Next, WriteRound, ReadRound, OpenRead, OpenTrunc, WriteCall, ReadCall, Seek
<1> QED  BY <1>3, <1>4, <1>5, <1>6, <1>7

(* A call on files beside a listing.                                        *)
LEMMA CallTold ==
  ASSUME FatInv, Told, Next, steady' = steady \cap VisibleNames',
         UNCHANGED <<index, ended, listed>>
  PROVE  Told'
<1>1. ASSUME NEW n \in steady'
      PROVE  listed[n] = Cardinality(Passed(n, index)') /\ n \in steady
  <2>1. n \in steady /\ n \in VisibleNames /\ n \in VisibleNames' /\ n \in Name
    BY <1>1 DEF Told, VisibleNames
  <2>2. \A e \in Entry : dir'[e].name = n <=> dir[e].name = n
    BY <2>1, SteadyEntries
  <2>3. Passed(n, index)' = Passed(n, index)
    BY <2>2 DEF Passed
  <2> QED  BY <2>1, <2>3 DEF Told
<1> QED  BY <1>1 DEF Told

(* readdir: what it passes over has no name, what it stops at is counted.   *)
LEMMA ReadDirTold ==
  ASSUME FatInv, Told, ReadDir
  PROVE  Told'
<1>d. None \notin Name /\ NEntry \in Nat
  BY FatAssumption
<1>1. PICK e \in 1 .. NEntry + 1 :
        /\ StopsAt(e)
        /\ IF e <= NEntry /\ dir[e].name # None
             THEN /\ listed' = [listed EXCEPT ![dir[e].name] = @ + 1]
                  /\ index' = e + 1
                  /\ UNCHANGED ended
             ELSE index' = e /\ ended' = TRUE /\ UNCHANGED listed
  BY DEF ReadDir
<1>2. index > 0 /\ ~ ended /\ UNCHANGED <<vars, steady>>
  BY DEF ReadDir
<1>3. dir' = dir /\ steady' = steady /\ VisibleNames' = VisibleNames
  BY <1>2 DEF vars, VisibleNames, Absent, Visible, Before
<1>4. ASSUME NEW n \in Name, NEW d \in Entry, index <= d, d < e
      PROVE  dir[d].name # n
  BY <1>1, <1>4 DEF StopsAt
<1>n. e \in Nat /\ index \in Nat /\ Entry \subseteq Nat /\ e >= index
  BY <1>1, <1>d DEF StopsAt, Told, Entry
<1>p. ASSUME NEW n \in Name, NEW d \in Entry, dir[d].name = n
      PROVE  d < index <=> d < e
  <2>1. d \in Nat
    BY <1>n
  <2>2. ~ (index <= d /\ d < e)
    BY <1>4, <1>p
  <2> QED  BY <1>n, <2>1, <2>2
<1>q. ASSUME NEW n \in Name
      PROVE  Passed(n, e) = Passed(n, index)
  BY <1>p DEF Passed
<1>r. ASSUME NEW n
      PROVE  \A d : d \in Passed(n, e + 1) <=> d \in Passed(n, e) \/ (d = e /\ d \in Entry /\ dir[d].name = n)
  <2>1. \A d \in Entry : d < e + 1 <=> d < e \/ d = e
    BY <1>n
  <2> QED  BY <2>1 DEF Passed
<1>5. e >= index
  BY <1>1 DEF StopsAt
<1>6. \A n \in steady : n \in Name /\ \E v \in Entry : Visible(n, v)
  BY DEF Told, VisibleNames, Absent
<1>7. CASE e <= NEntry /\ dir[e].name # None
  <2>1. e \in Entry /\ dir[e].name \in Name
    BY <1>1, <1>7, <1>d DEF StopsAt, Entry
  <2>2. listed' = [listed EXCEPT ![dir[e].name] = @ + 1] /\ index' = e + 1 /\ ended' = ended
    BY <1>1, <1>7
  <2>3. listed' \in [Name -> Nat] /\ index' \in Nat
    BY <2>1, <2>2 DEF Told
  <2>4. ASSUME NEW n \in steady
        PROVE  listed'[n] = Cardinality(Passed(n, e + 1))
    <3>0. n \in Name /\ listed[n] = Cardinality(Passed(n, index)) /\ listed \in [Name -> Nat]
      BY <1>6 DEF Told
    <3>i. index \in Nat /\ Entry \subseteq Nat
      BY DEF Told, Entry
    <3>1. CASE dir[e].name = n
      <4>1. Passed(n, e + 1) = Passed(n, index) \cup {e} /\ e \notin Passed(n, index)
        <5>1. e \notin Passed(n, e)
          BY <1>n DEF Passed
        <5>2. Passed(n, e + 1) = Passed(n, e) \cup {e}
          BY <1>r, <2>1, <3>1
        <5> QED  BY <1>q, <3>0, <5>1, <5>2
      <4>2. IsFiniteSet(Passed(n, index))
        BY EntriesCount DEF Passed
      <4>3. Cardinality(Passed(n, e + 1)) = Cardinality(Passed(n, index)) + 1
        BY <4>1, <4>2, FS_AddElement
      <4>4. listed'[n] = listed[n] + 1
        BY <2>1, <2>2, <3>0, <3>1
      <4> QED  BY <4>3, <4>4, <3>0
    <3>2. CASE dir[e].name # n
      <4>1. Passed(n, e + 1) = Passed(n, index)
        <5>1. Passed(n, e + 1) = Passed(n, e)
          BY <1>r, <3>2
        <5> QED  BY <1>q, <3>0, <5>1
      <4>2. listed'[n] = listed[n]
        BY <2>1, <2>2, <3>0, <3>2
      <4> QED  BY <4>1, <4>2, <3>0
    <3> QED  BY <3>1, <3>2
  <2>5. \A n \in Name : Passed(n, index)' = Passed(n, e + 1)
    BY <1>3, <2>2 DEF Passed
  <2> QED  BY <1>2, <1>3, <1>6, <2>2, <2>3, <2>4, <2>5 DEF Told
<1>8. CASE ~ (e <= NEntry /\ dir[e].name # None)
  <2>1. index' = e /\ ended' = TRUE /\ listed' = listed
    BY <1>1, <1>8
  <2>2. ASSUME NEW n \in steady
        PROVE  listed[n] = Cardinality(Passed(n, e)) /\ listed[n] >= 1
    <3>0. n \in Name /\ listed[n] = Cardinality(Passed(n, index)) /\ listed \in [Name -> Nat]
      BY <1>6 DEF Told
    <3>i. index \in Nat /\ Entry \subseteq Nat
      BY DEF Told, Entry
    <3>1. Passed(n, e) = Passed(n, index)
      BY <1>q, <3>0
    <3>2. PICK v \in Entry : Visible(n, v)
      BY <1>6
    <3>3. v < e
      <4>1. CASE e <= NEntry
        <5>1. e \in Entry /\ dir[e].name = None
          BY <1>8, <4>1, <1>d DEF Entry
        <5>2. ~ (e < v) /\ v # e
          BY <3>0, <3>2, <5>1, <1>d DEF Visible, Before
        <5> QED  BY <3>i, <5>1, <5>2
      <4>2. CASE e > NEntry
        BY <4>2, <1>d DEF Entry
      <4> QED  BY <4>1, <4>2, <1>d
    <3>4. v \in Passed(n, e)
      BY <3>2, <3>3 DEF Passed, Visible
    <3>5. IsFiniteSet(Passed(n, e)) /\ Cardinality(Passed(n, e)) \in Nat
      BY EntriesCount DEF Passed
    <3>6. Cardinality(Passed(n, e)) # 0
      BY <3>4, <3>5, FS_EmptySet
    <3> QED  BY <3>0, <3>1, <3>5, <3>6
  <2>3. \A n \in Name : Passed(n, index)' = Passed(n, e)
    BY <1>3, <2>1 DEF Passed
  <2>4. e \in Nat
    BY <1>d
  <2> QED  BY <1>2, <1>3, <1>6, <2>1, <2>2, <2>3, <2>4 DEF Told
<1> QED  BY <1>7, <1>8

(* The steps of a listing and of the calls beside it keep Told.             *)
LEMMA ToldStep ==
  ASSUME FatInv, Told, [DirNext]_<<vars, dirVars>>
  PROVE  Told'
<1>1. CASE OpenDir
  <2>1. /\ index' = 1 /\ ended' = FALSE /\ listed' = [n \in Name |-> 0]
        /\ steady' = VisibleNames /\ dir' = dir
    BY <1>1 DEF OpenDir, vars
  <2>2. VisibleNames' = VisibleNames
    BY <2>1 DEF VisibleNames, Absent, Visible, Before
  <2>3. \A n \in Name : Passed(n, index)' = {}
    BY <2>1 DEF Passed, Entry
  <2> QED  BY <2>1, <2>2, <2>3, FS_EmptySet DEF Told, VisibleNames
<1>2. CASE ReadDir
  BY <1>2, ReadDirTold
<1>3. CASE CloseDir
  BY <1>3 DEF CloseDir, Told
<1>4. CASE Next /\ steady' = steady \cap VisibleNames' /\ UNCHANGED <<index, ended, listed>>
  BY <1>4, CallTold
<1>5. CASE UNCHANGED <<vars, dirVars>>
  <2>1. UNCHANGED <<dir, index, ended, listed, steady>>
    BY <1>5 DEF vars, dirVars
  <2>2. VisibleNames' = VisibleNames
    BY <2>1 DEF VisibleNames, Absent, Visible, Before
  <2>3. \A n \in steady : Passed(n, index)' = Passed(n, index)
    BY <2>1 DEF Passed
  <2> QED  BY <2>1, <2>2, <2>3 DEF Told
<1> QED  BY <1>1, <1>2, <1>3, <1>4, <1>5 DEF DirNext

(* Every state of the file system beside a listing satisfies both           *)
(* invariants.                                                              *)
THEOREM DirInvariant == DirSpec => [](FatInv /\ Told)
<1>1. Init /\ DirInit => FatInv /\ Told
  <2>1. Init /\ DirInit => Told
    <3> SUFFICES ASSUME Init, DirInit
                 PROVE  Told
      OBVIOUS
    <3>1. index = 0 /\ ended = FALSE /\ steady = {} /\ listed = [n \in Name |-> 0]
      BY DEF DirInit
    <3> QED  BY <3>1 DEF Told
  <2> QED  BY <2>1, FatInitInv
<1>2. FatInv /\ Told /\ [DirNext]_<<vars, dirVars>> => (FatInv /\ Told)'
  <2> SUFFICES ASSUME FatInv, Told, [DirNext]_<<vars, dirVars>>
               PROVE  FatInv' /\ Told'
    OBVIOUS
  <2>1. [Next]_vars
    BY DEF DirNext, OpenDir, ReadDir, CloseDir, vars
  <2>2. FatInv'
    BY <2>1, FatInvStep, FatInvStutters
  <2> QED  BY <2>2, ToldStep
<1> QED  BY <1>1, <1>2, PTL DEF DirSpec

(* opendir, readdir: a listing that came to its end has shown every file    *)
(* that could be opened all the while, and no more often than it has        *)
(* entries, whatever other calls created and removed meanwhile.             *)
THEOREM SpecListingComplete == DirSpec => []ListingComplete
<1>1. FatInv /\ Told => ListingComplete
  <2> SUFFICES ASSUME Told, ended, NEW n \in steady
               PROVE  listed[n] \in 1 .. Cardinality({e \in Entry : dir[e].name = n})
    BY DEF ListingComplete
  <2> DEFINE E == {e \in Entry : dir[e].name = n}
  <2>1. listed[n] = Cardinality(Passed(n, index)) /\ listed[n] >= 1
    BY DEF Told
  <2>2. Passed(n, index) \subseteq E
    BY DEF Passed
  <2>3. IsFiniteSet(E) /\ Cardinality(E) \in Nat /\ Cardinality(Passed(n, index)) \in Nat
    BY EntriesCount DEF Passed
  <2>4. Cardinality(Passed(n, index)) <= Cardinality(E)
    BY <2>2, <2>3, FS_Subset
  <2> QED  BY <2>1, <2>3, <2>4
<1> QED  BY <1>1, DirInvariant, PTL

-----------------------------------------------------------------------------
(* Names.  An entry that to_sfn made has its base and its extension packed  *)
(* to the left (Packed); diritem_get_name spells the two with a dot between *)
(* them (Spells), and to_sfn puts them back where they were, part by part.  *)

Packed(sfn, b, e) ==
  /\ b \in 0 .. BaseLen /\ e \in 0 .. ExtLen
  /\ sfn \in [1 .. SfnLen -> Char \cup {Space}]
  /\ \A i \in 1 .. SfnLen : sfn[i] # Space <=> i <= b \/ (BaseLen < i /\ i <= BaseLen + e)

(* The first characters of the base and of the extension of an entry. *)
Part(sfn, x, y) ==
  [i \in 1 .. SfnLen |-> IF i <= x \/ (BaseLen < i /\ i <= BaseLen + y) THEN sfn[i] ELSE Space]

IsTyping(g, name, n) ==
  g = [k \in 0 .. n |-> IF k = 0 THEN [dest |-> Blank, curr |-> 1] ELSE Put(g[k - 1], name[k])]

IsShowing(g, sfn, n) == g = [k \in 0 .. n |-> IF k = 0 THEN <<>> ELSE Show(g[k - 1], sfn, k)]

(* The loop of to_sfn runs, for as many characters as there are. *)
LEMMA TypingExists ==
  ASSUME NEW name, NEW n \in Nat
  PROVE  \E g : IsTyping(g, name, n)
<1> DEFINE S == {k \in Nat : \E g : IsTyping(g, name, k)}
           z == [dest |-> Blank, curr |-> 1]
<1> HIDE DEF z
<1>1. 0 \in S
  <2> DEFINE g == [k \in 0 .. 0 |-> z]
  <2>1. IsTyping(g, name, 0)
    <3>1. \A k \in 0 .. 0 : k = 0
      OBVIOUS
    <3> QED  BY <3>1 DEF IsTyping, z
  <2> QED  BY <2>1
<1>2. ASSUME NEW k \in Nat, k \in S
      PROVE  k + 1 \in S
  <2>1. PICK g : IsTyping(g, name, k)
    BY <1>2
  <2> DEFINE e == Put(g[k], name[k + 1])
             h == [l \in 0 .. k + 1 |-> IF l = k + 1 THEN e ELSE g[l]]
             o == [l \in 0 .. k + 1 |-> IF l = 0 THEN z ELSE Put(h[l - 1], name[l])]
  <2> HIDE DEF e
  <2>2. \A l \in 0 .. k : g[l] = IF l = 0 THEN z ELSE Put(g[l - 1], name[l])
    BY <2>1 DEF IsTyping, z
  <2>3. h[k + 1] = e /\ \A l \in 0 .. k : h[l] = g[l]
    OBVIOUS
  <2>4. ASSUME NEW l \in 0 .. k + 1
        PROVE  h[l] = o[l]
    <3>1. o[l] = IF l = 0 THEN z ELSE Put(h[l - 1], name[l])
      OBVIOUS
    <3> HIDE DEF h, o
    <3>2. CASE l = k + 1
      <4>1. l # 0 /\ l - 1 = k /\ k \in 0 .. k
        BY <3>2
      <4>2. h[l - 1] = g[k]
        BY <2>3, <4>1
      <4> QED  BY <2>3, <3>1, <3>2, <4>1, <4>2 DEF e
    <3>3. CASE l # k + 1
      <4>1. l \in 0 .. k /\ (l # 0 => l - 1 \in 0 .. k)
        BY <3>3
      <4>2. h[l] = g[l] /\ (l # 0 => h[l - 1] = g[l - 1])
        BY <2>3, <4>1
      <4> QED  BY <2>2, <3>1, <4>1, <4>2
    <3> QED  BY <3>2, <3>3
  <2>5. h = o
    <3>1. DOMAIN h = 0 .. k + 1 /\ DOMAIN o = 0 .. k + 1
      OBVIOUS
    <3>2. h = [l \in 0 .. k + 1 |-> h[l]] /\ o = [l \in 0 .. k + 1 |-> o[l]]
      OBVIOUS
    <3> HIDE DEF h, o
    <3> QED  BY <2>4, <3>2
  <2>6. IsTyping(h, name, k + 1)
    <3> HIDE DEF h
    <3> QED  BY <2>5 DEF IsTyping, z
  <2> QED  BY <2>6
<1> HIDE DEF S
<1>3. n \in S
  BY <1>1, <1>2, SetInduction
<1> QED  BY <1>3 DEF S

(* ... and its last state is the entry. *)
LEMMA ToSfnRun ==
  ASSUME NEW name, Len(name) \in Nat
  PROVE  \E g : IsTyping(g, name, Len(name)) /\ ToSfn(name) = g[Len(name)].dest
<1> DEFINE f == CHOOSE g : IsTyping(g, name, Len(name))
<1>1. IsTyping(f, name, Len(name))
  BY TypingExists
<1>2. ToSfn(name) = f[Len(name)].dest
  BY DEF ToSfn, IsTyping
<1> QED  BY <1>1, <1>2

(* The same of the loop of diritem_get_name. *)
LEMMA ShowingExists ==
  ASSUME NEW sfn, NEW n \in Nat
  PROVE  \E g : IsShowing(g, sfn, n)
<1> DEFINE S == {k \in Nat : \E g : IsShowing(g, sfn, k)}
<1>1. 0 \in S
  <2> DEFINE g == [k \in 0 .. 0 |-> <<>>]
  <2>1. IsShowing(g, sfn, 0)
    <3>1. \A k \in 0 .. 0 : k = 0
      OBVIOUS
    <3> QED  BY <3>1 DEF IsShowing
  <2> QED  BY <2>1
<1>2. ASSUME NEW k \in Nat, k \in S
      PROVE  k + 1 \in S
  <2>1. PICK g : IsShowing(g, sfn, k)
    BY <1>2
  <2> DEFINE e == Show(g[k], sfn, k + 1)
             h == [l \in 0 .. k + 1 |-> IF l = k + 1 THEN e ELSE g[l]]
             o == [l \in 0 .. k + 1 |-> IF l = 0 THEN <<>> ELSE Show(h[l - 1], sfn, l)]
  <2> HIDE DEF e
  <2>2. \A l \in 0 .. k : g[l] = IF l = 0 THEN <<>> ELSE Show(g[l - 1], sfn, l)
    BY <2>1 DEF IsShowing
  <2>3. h[k + 1] = e /\ \A l \in 0 .. k : h[l] = g[l]
    OBVIOUS
  <2>4. ASSUME NEW l \in 0 .. k + 1
        PROVE  h[l] = o[l]
    <3>1. o[l] = IF l = 0 THEN <<>> ELSE Show(h[l - 1], sfn, l)
      OBVIOUS
    <3> HIDE DEF h, o
    <3>2. CASE l = k + 1
      <4>1. l # 0 /\ l - 1 = k /\ k \in 0 .. k
        BY <3>2
      <4>2. h[l - 1] = g[k]
        BY <2>3, <4>1
      <4> QED  BY <2>3, <3>1, <3>2, <4>1, <4>2 DEF e
    <3>3. CASE l # k + 1
      <4>1. l \in 0 .. k /\ (l # 0 => l - 1 \in 0 .. k)
        BY <3>3
      <4>2. h[l] = g[l] /\ (l # 0 => h[l - 1] = g[l - 1])
        BY <2>3, <4>1
      <4> QED  BY <2>2, <3>1, <4>1, <4>2
    <3> QED  BY <3>2, <3>3
  <2>5. h = o
    <3>1. h = [l \in 0 .. k + 1 |-> h[l]] /\ o = [l \in 0 .. k + 1 |-> o[l]]
      OBVIOUS
    <3> HIDE DEF h, o
    <3> QED  BY <2>4, <3>1
  <2>6. IsShowing(h, sfn, k + 1)
    <3> HIDE DEF h
    <3> QED  BY <2>5 DEF IsShowing
  <2> QED  BY <2>6
<1> HIDE DEF S
<1>3. n \in S
  BY <1>1, <1>2, SetInduction
<1> QED  BY <1>3 DEF S

(* A loop over characters goes from one state to the next. *)
LEMMA TypingStep ==
  ASSUME NEW name, NEW n \in Nat, NEW g, IsTyping(g, name, n)
  PROVE  /\ g[0] = [dest |-> Blank, curr |-> 1]
         /\ \A k \in 1 .. n : g[k] = Put(g[k - 1], name[k])
  BY DEF IsTyping

(* The same of the other loop.                                              *)
LEMMA ShowingStep ==
  ASSUME NEW sfn, NEW n \in Nat, NEW g, IsShowing(g, sfn, n)
  PROVE  /\ g[0] = <<>>
         /\ \A k \in 1 .. n : g[k] = Show(g[k - 1], sfn, k)
  BY DEF IsShowing

(* What to_sfn has built of a name: the place of the next character is      *)
(* behind the base, or somewhere in or behind the extension.                *)
Halfway(st) ==
  \E b \in 0 .. BaseLen, e \in 0 .. ExtLen :
    /\ st.curr \in 1 .. SfnLen + 1
    /\ Packed(st.dest, b, e)
    /\ st.curr <= BaseLen => st.curr = b + 1 /\ e = 0
    /\ BaseLen < st.curr => st.curr <= BaseLen + 1 + e

(* A character more leaves a name half way.                                 *)
LEMMA PutHalfway ==
  ASSUME NEW st, Halfway(st), NEW c \in Char \cup {Dot}
  PROVE  Halfway(Put(st, c))
<1>1. PICK b \in 0 .. BaseLen, e \in 0 .. ExtLen :
         /\ st.curr \in 1 .. SfnLen + 1
         /\ Packed(st.dest, b, e)
         /\ st.curr <= BaseLen => st.curr = b + 1 /\ e = 0
         /\ BaseLen < st.curr => st.curr <= BaseLen + 1 + e
  BY DEF Halfway
<1>2. BaseLen \in Nat \ {0} /\ ExtLen \in Nat \ {0} /\ SfnLen = BaseLen + ExtLen
      /\ Space \notin Char /\ Dot \notin Char
  BY NamesAssumption DEF SfnLen
<1>3. CASE st.curr > SfnLen
  BY <1>3 DEF Put
<1>4. CASE ~ (st.curr > SfnLen) /\ c = Dot
  <2> DEFINE t == [dest |-> st.dest, curr |-> BaseLen + 1]
  <2>1. Put(st, c) = t
    BY <1>4 DEF Put
  <2>2. t.dest = st.dest /\ t.curr = BaseLen + 1
    OBVIOUS
  <2> HIDE DEF t
  <2>3. Halfway(t)
    BY <1>1, <1>2, <2>2 DEF Halfway
  <2> QED  BY <2>1, <2>3
<1>5. CASE ~ (st.curr > SfnLen) /\ c # Dot
  <2>1. PICK p : p = st.curr
    OBVIOUS
  <2>2. PICK d : d = st.dest
    OBVIOUS
  <2> DEFINE n == [d EXCEPT ![p] = c]
             t == [dest |-> n, curr |-> p + 1]
  <2>3. Put(st, c) = t
    BY <1>5, <2>1, <2>2 DEF Put
  <2>4. t.dest = n /\ t.curr = p + 1
    OBVIOUS
  <2>5. p \in 1 .. SfnLen /\ c \in Char /\ c # Space
    BY <1>1, <1>2, <1>5, <2>1
  <2>6. /\ d \in [1 .. SfnLen -> Char \cup {Space}]
        /\ \A i \in 1 .. SfnLen : d[i] # Space <=> i <= b \/ (BaseLen < i /\ i <= BaseLen + e)
    BY <1>1, <2>2 DEF Packed
  <2>7. /\ n \in [1 .. SfnLen -> Char \cup {Space}]
        /\ \A i \in 1 .. SfnLen : n[i] # Space <=> i = p \/ i <= b \/ (BaseLen < i /\ i <= BaseLen + e)
    BY <2>5, <2>6
  <2> HIDE DEF t, n
  <2>8. CASE p <= BaseLen
    <3>1. p = b + 1 /\ e = 0 /\ p \in 0 .. BaseLen
      BY <1>1, <1>2, <2>1, <2>8
    <3>2. \A i \in 1 .. SfnLen : n[i] # Space <=> i <= p \/ (BaseLen < i /\ i <= BaseLen + 0)
      BY <1>2, <2>7, <3>1
    <3>3. Packed(n, p, 0)
      BY <1>2, <2>7, <3>1, <3>2 DEF Packed
    <3>4. p + 1 \in 1 .. SfnLen + 1 /\ (p + 1 <= BaseLen => p + 1 = p + 1 /\ 0 = 0)
          /\ (BaseLen < p + 1 => p + 1 <= BaseLen + 1 + 0) /\ 0 \in 0 .. ExtLen
      BY <1>2, <2>5, <3>1
    <3>5. Halfway(t)
      BY <2>4, <3>1, <3>3, <3>4 DEF Halfway
    <3> QED  BY <2>3, <3>5
  <2>9. CASE BaseLen < p
    <3>1. PICK f \in 0 .. ExtLen : f = IF p - BaseLen > e THEN p - BaseLen ELSE e
      BY <1>2, <2>5, <2>9
    <3>2. \A i \in 1 .. SfnLen : n[i] # Space <=> i <= b \/ (BaseLen < i /\ i <= BaseLen + f)
      <4>1. p <= BaseLen + 1 + e /\ (f = e \/ f = e + 1) /\ p <= BaseLen + f /\ (f = e + 1 => p = BaseLen + f)
        BY <1>1, <1>2, <2>1, <2>5, <2>9, <3>1
      <4>2. ASSUME NEW i \in 1 .. SfnLen
            PROVE  (i = p \/ i <= b \/ (BaseLen < i /\ i <= BaseLen + e))
                     <=> (i <= b \/ (BaseLen < i /\ i <= BaseLen + f))
        BY <1>2, <2>5, <2>9, <4>1
      <4> QED  BY <2>7, <4>2
    <3>3. Packed(n, b, f)
      BY <2>7, <3>2 DEF Packed
    <3>4. p + 1 \in 1 .. SfnLen + 1 /\ ~ (p + 1 <= BaseLen) /\ p + 1 <= BaseLen + 1 + f
      BY <1>2, <2>5, <2>9, <3>1
    <3>5. Halfway(t)
      BY <2>4, <3>3, <3>4 DEF Halfway
    <3> QED  BY <2>3, <3>5
  <2> QED  BY <1>2, <2>5, <2>8, <2>9
<1> QED  BY <1>3, <1>4, <1>5

(* Every entry that to_sfn makes is packed. *)
LEMMA ToSfnPacked ==
  ASSUME NEW name \in Seq(Char \cup {Dot})
  PROVE  \E b \in 0 .. BaseLen, e \in 0 .. ExtLen : Packed(ToSfn(name), b, e)
<1>1. PICK n \in Nat : n = Len(name)
  OBVIOUS
<1>2. PICK g : IsTyping(g, name, n) /\ ToSfn(name) = g[n].dest
  BY <1>1, ToSfnRun
<1>3. /\ g[0] = [dest |-> Blank, curr |-> 1]
      /\ \A k \in 1 .. n : g[k] = Put(g[k - 1], name[k])
  BY <1>2, TypingStep
<1> DEFINE S == {k \in Nat : k <= n => Halfway(g[k])}
<1>4. 0 \in S
  <2>1. BaseLen \in Nat \ {0} /\ ExtLen \in Nat \ {0} /\ SfnLen = BaseLen + ExtLen
    BY NamesAssumption DEF SfnLen
  <2>2. g[0].dest = Blank /\ g[0].curr = 1
    BY <1>3
  <2>3. Packed(Blank, 0, 0)
    BY <2>1 DEF Packed, Blank
  <2>4. 1 \in 1 .. SfnLen + 1 /\ 0 \in 0 .. BaseLen /\ 0 \in 0 .. ExtLen
        /\ (1 <= BaseLen => 1 = 0 + 1 /\ 0 = 0) /\ (BaseLen < 1 => 1 <= BaseLen + 1 + 0)
    BY <2>1
  <2> QED  BY <2>2, <2>3, <2>4 DEF Halfway
<1>5. ASSUME NEW k \in Nat, k \in S
      PROVE  k + 1 \in S
  <2> SUFFICES ASSUME k + 1 <= n PROVE Halfway(g[k + 1])
    OBVIOUS
  <2>1. Halfway(g[k]) /\ k + 1 \in 1 .. n /\ (k + 1) - 1 = k
    BY <1>1, <1>5
  <2>2. g[k + 1] = Put(g[k], name[k + 1])
    BY <1>3, <2>1
  <2>3. name[k + 1] \in Char \cup {Dot}
    BY <1>1, <2>1
  <2> QED  BY <2>1, <2>2, <2>3, PutHalfway
<1> HIDE DEF S
<1>6. n \in S
  BY <1>4, <1>5, SetInduction
<1>7. Halfway(g[n])
  BY <1>6 DEF S
<1> QED  BY <1>2, <1>7 DEF Halfway

(* Characters that begin with the first x of the base, and end there.       *)
Begins(s, sfn, x) == \A j \in 1 .. x : s[j] = sfn[j]
Begun(s, sfn, x) ==
  /\ s \in Seq(Char \cup {Dot}) /\ Len(s) = x
  /\ \A j \in 1 .. x : s[j] = sfn[j]

(* The base, a dot, and the first y characters of the extension, whatever   *)
(* is behind them.                                                          *)
Spelt(s, sfn, b, y) ==
  /\ \A j \in 1 .. b : s[j] = sfn[j]
  /\ s[b + 1] = Dot
  /\ \A j \in 1 .. y : s[b + 1 + j] = sfn[BaseLen + j]
Spells(s, sfn, b, y) ==
  /\ s \in Seq(Char \cup {Dot}) /\ Len(s) = b + 1 + y
  /\ \A j \in 1 .. b : s[j] = sfn[j]
  /\ s[b + 1] = Dot
  /\ \A j \in 1 .. y : s[b + 1 + j] = sfn[BaseLen + j]

(* A character more of the base.                                            *)
LEMMA BegunMore ==
  ASSUME NEW sfn, NEW x \in Nat, NEW s, Begun(s, sfn, x), sfn[x + 1] \in Char
  PROVE  Begun(Append(s, sfn[x + 1]), sfn, x + 1)
<1>1. PICK c \in Char : c = sfn[x + 1]
  OBVIOUS
<1>2. s \in Seq(Char \cup {Dot}) /\ Len(s) = x /\ \A j \in 1 .. x : s[j] = sfn[j]
  BY DEF Begun
<1> DEFINE t == Append(s, c)
<1>3. t \in Seq(Char \cup {Dot}) /\ Len(t) = x + 1 /\ t[x + 1] = c /\ \A j \in 1 .. x : t[j] = s[j]
  BY <1>2
<1> HIDE DEF t
<1>4. \A j \in 1 .. x + 1 : t[j] = sfn[j]
  <2> TAKE j \in 1 .. x + 1
  <2>1. j = x + 1 \/ j \in 1 .. x
    OBVIOUS
  <2> QED  BY <1>1, <1>2, <1>3, <2>1
<1>5. Begun(t, sfn, x + 1)
  BY <1>3, <1>4 DEF Begun
<1> QED  BY <1>1, <1>5 DEF t

(* The dot behind the base.                                                 *)
LEMMA BegunDot ==
  ASSUME NEW sfn, NEW x \in Nat, NEW s, Begun(s, sfn, x)
  PROVE  Spells(Append(s, Dot), sfn, x, 0)
<1>1. s \in Seq(Char \cup {Dot}) /\ Len(s) = x /\ \A j \in 1 .. x : s[j] = sfn[j]
  BY DEF Begun
<1> DEFINE t == Append(s, Dot)
<1>2. t \in Seq(Char \cup {Dot}) /\ Len(t) = x + 1 /\ t[x + 1] = Dot /\ \A j \in 1 .. x : t[j] = s[j]
  BY <1>1
<1> HIDE DEF t
<1>3. Spells(t, sfn, x, 0)
  BY <1>1, <1>2 DEF Spells
<1> QED  BY <1>3 DEF t

(* A character more of the extension.                                       *)
LEMMA SpellsMore ==
  ASSUME NEW sfn, NEW b \in Nat, NEW y \in Nat, NEW s, Spells(s, sfn, b, y), sfn[BaseLen + y + 1] \in Char
  PROVE  Spells(Append(s, sfn[BaseLen + y + 1]), sfn, b, y + 1)
<1>1. PICK c \in Char : c = sfn[BaseLen + y + 1]
  OBVIOUS
<1>2. /\ s \in Seq(Char \cup {Dot}) /\ Len(s) = b + 1 + y
      /\ \A j \in 1 .. b : s[j] = sfn[j]
      /\ s[b + 1] = Dot
      /\ \A j \in 1 .. y : s[b + 1 + j] = sfn[BaseLen + j]
  BY DEF Spells
<1> DEFINE t == Append(s, c)
<1>3. /\ t \in Seq(Char \cup {Dot}) /\ Len(t) = b + 1 + (y + 1) /\ t[b + 1 + (y + 1)] = c
      /\ \A j \in 1 .. b + 1 + y : t[j] = s[j]
  BY <1>2
<1> HIDE DEF t
<1>4. \A j \in 1 .. b : t[j] = sfn[j]
  <2> TAKE j \in 1 .. b
  <2>1. j \in 1 .. b + 1 + y
    OBVIOUS
  <2> QED  BY <1>2, <1>3, <2>1
<1>5. t[b + 1] = Dot
  <2>1. b + 1 \in 1 .. b + 1 + y
    OBVIOUS
  <2> QED  BY <1>2, <1>3, <2>1
<1>6. \A j \in 1 .. y + 1 : t[b + 1 + j] = sfn[BaseLen + j]
  <2> TAKE j \in 1 .. y + 1
  <2>1. CASE j = y + 1
    <3>1. BaseLen + j = BaseLen + y + 1
      BY <2>1, NamesAssumption
    <3> QED  BY <1>1, <1>3, <2>1, <3>1
  <2>2. CASE j # y + 1
    <3>1. j \in 1 .. y /\ b + 1 + j \in 1 .. b + 1 + y
      BY <2>2
    <3> QED  BY <1>2, <1>3, <3>1
  <2> QED  BY <2>1, <2>2
<1>7. Spells(t, sfn, b, y + 1)
  BY <1>3, <1>4, <1>5, <1>6 DEF Spells
<1> QED  BY <1>1, <1>7 DEF t

(* The first x of the n that are there. *)
Least(k, n) == IF k < n THEN k ELSE n

(* diritem_get_name at a byte of the base, ...                              *)
LEMMA ShowBase ==
  ASSUME NEW sfn, NEW b, NEW e, Packed(sfn, b, e),
         NEW k \in Nat, k < BaseLen, NEW s, Begun(s, sfn, Least(k, b))
  PROVE  /\ k + 1 < BaseLen => Begun(Show(s, sfn, k + 1), sfn, Least(k + 1, b))
         /\ k + 1 = BaseLen => Spells(Show(s, sfn, k + 1), sfn, b, 0)
<1>1. BaseLen \in Nat \ {0} /\ ExtLen \in Nat \ {0} /\ SfnLen = BaseLen + ExtLen
      /\ Space \notin Char /\ Dot \notin Char
  BY NamesAssumption DEF SfnLen
<1>2. /\ b \in Nat /\ b <= BaseLen /\ sfn \in [1 .. SfnLen -> Char \cup {Space}]
      /\ \A i \in 1 .. SfnLen : sfn[i] # Space <=> i <= b \/ (BaseLen < i /\ i <= BaseLen + e)
  BY <1>1 DEF Packed
<1> DEFINE t == IF sfn[k + 1] = Space THEN s ELSE Append(s, sfn[k + 1])
<1>3. Begun(t, sfn, Least(k + 1, b))
  <2>1. k + 1 \in 1 .. SfnLen /\ ~ (BaseLen < k + 1)
    BY <1>1
  <2>2. sfn[k + 1] # Space <=> k + 1 <= b
    BY <1>2, <2>1
  <2>3. CASE k + 1 <= b
    <3>1. Least(k, b) = k /\ Least(k + 1, b) = k + 1
      BY <1>2, <2>3 DEF Least
    <3>2. sfn[k + 1] \in Char
      BY <1>2, <2>1, <2>2, <2>3
    <3>3. Begun(s, sfn, k)
      BY <3>1
    <3>4. Begun(Append(s, sfn[k + 1]), sfn, k + 1)
      BY <3>2, <3>3, BegunMore
    <3>5. t = Append(s, sfn[k + 1])
      BY <2>2, <2>3
    <3> HIDE DEF t
    <3> QED  BY <3>1, <3>4, <3>5
  <2>4. CASE ~ (k + 1 <= b)
    <3>1. Least(k, b) = b /\ Least(k + 1, b) = b
      BY <1>2, <2>4 DEF Least
    <3>2. t = s
      BY <2>2, <2>4
    <3> HIDE DEF t
    <3> QED  BY <3>1, <3>2
  <2> QED  BY <2>3, <2>4
<1>4. Show(s, sfn, k + 1) = IF k + 1 = BaseLen THEN Append(t, Dot) ELSE t
  BY DEF Show
<1> HIDE DEF t
<1>5. CASE k + 1 < BaseLen
  <2>1. k + 1 # BaseLen
    BY <1>1, <1>5
  <2> QED  BY <1>3, <1>4, <2>1
<1>6. CASE k + 1 = BaseLen
  <2>1. Least(k + 1, b) = b /\ ~ (k + 1 < BaseLen)
    BY <1>1, <1>2, <1>6 DEF Least
  <2>2. Begun(t, sfn, b)
    BY <1>3, <2>1
  <2>3. Spells(Append(t, Dot), sfn, b, 0)
    BY <1>2, <2>2, BegunDot
  <2> QED  BY <1>4, <1>6, <2>1, <2>3
<1> QED  BY <1>5, <1>6

(* ... and at a byte of the extension.                                      *)
LEMMA ShowExt ==
  ASSUME NEW sfn, NEW b, NEW e, Packed(sfn, b, e),
         NEW k \in Nat, BaseLen <= k, k < SfnLen, NEW s, Spells(s, sfn, b, Least(k - BaseLen, e))
  PROVE  Spells(Show(s, sfn, k + 1), sfn, b, Least((k + 1) - BaseLen, e))
<1>1. BaseLen \in Nat \ {0} /\ ExtLen \in Nat \ {0} /\ SfnLen = BaseLen + ExtLen
      /\ Space \notin Char /\ Dot \notin Char
  BY NamesAssumption DEF SfnLen
<1>2. /\ b \in Nat /\ b <= BaseLen /\ e \in Nat /\ sfn \in [1 .. SfnLen -> Char \cup {Space}]
      /\ \A i \in 1 .. SfnLen : sfn[i] # Space <=> i <= b \/ (BaseLen < i /\ i <= BaseLen + e)
  BY <1>1 DEF Packed
<1>3. PICK y \in Nat : y = k - BaseLen
  BY <1>1
<1>4. k = BaseLen + y /\ k + 1 = BaseLen + y + 1 /\ (k + 1) - BaseLen = y + 1 /\ k + 1 \in 1 .. SfnLen
      /\ BaseLen < k + 1 /\ ~ (k + 1 <= b) /\ (k + 1 <= BaseLen + e <=> y + 1 <= e)
  BY <1>1, <1>2, <1>3
<1>5. sfn[k + 1] # Space <=> y + 1 <= e
  BY <1>2, <1>4
<1>6. Show(s, sfn, k + 1) = IF sfn[k + 1] = Space THEN s ELSE Append(s, sfn[k + 1])
  <2>1. k + 1 # BaseLen
    BY <1>1, <1>4
  <2> QED  BY <2>1 DEF Show
<1>7. CASE y + 1 <= e
  <2>1. Least(k - BaseLen, e) = y /\ Least((k + 1) - BaseLen, e) = y + 1
    BY <1>2, <1>3, <1>4, <1>7 DEF Least
  <2>2. sfn[BaseLen + y + 1] \in Char
    BY <1>2, <1>4, <1>5, <1>7
  <2>3. Spells(s, sfn, b, y)
    BY <2>1
  <2>4. Spells(Append(s, sfn[BaseLen + y + 1]), sfn, b, y + 1)
    BY <1>2, <2>2, <2>3, SpellsMore
  <2>5. Show(s, sfn, k + 1) = Append(s, sfn[BaseLen + y + 1])
    BY <1>4, <1>5, <1>6, <1>7
  <2> QED  BY <2>1, <2>4, <2>5
<1>8. CASE ~ (y + 1 <= e)
  <2>1. Least(k - BaseLen, e) = e /\ Least((k + 1) - BaseLen, e) = e
    BY <1>2, <1>3, <1>4, <1>8 DEF Least
  <2>2. Show(s, sfn, k + 1) = s
    BY <1>5, <1>6, <1>8
  <2> QED  BY <2>1, <2>2
<1> QED  BY <1>7, <1>8

(* The loop of diritem_get_name spells the base and the extension. *)
LEMMA ShowingSpells ==
  ASSUME NEW sfn, NEW b, NEW e, Packed(sfn, b, e), NEW g, IsShowing(g, sfn, SfnLen)
  PROVE  Spells(g[SfnLen], sfn, b, e)
<1>1. BaseLen \in Nat \ {0} /\ ExtLen \in Nat \ {0} /\ SfnLen = BaseLen + ExtLen /\ SfnLen \in Nat
  BY NamesAssumption DEF SfnLen
<1>2. g[0] = <<>> /\ \A k \in 1 .. SfnLen : g[k] = Show(g[k - 1], sfn, k)
  BY <1>1, ShowingStep
<1>3. b \in 0 .. BaseLen /\ e \in 0 .. ExtLen
  BY DEF Packed
<1> DEFINE Good(k) == /\ k < BaseLen => Begun(g[k], sfn, Least(k, b))
                      /\ BaseLen <= k => Spells(g[k], sfn, b, Least(k - BaseLen, e))
           S == {k \in Nat : k <= SfnLen => Good(k)}
<1>4. 0 \in S
  <2>1. Least(0, b) = 0
    BY <1>1, <1>3 DEF Least
  <2>2. Begun(<<>>, sfn, 0)
    BY DEF Begun
  <2> QED  BY <1>1, <1>2, <2>1, <2>2
<1>5. ASSUME NEW k \in Nat, k \in S
      PROVE  k + 1 \in S
  <2> SUFFICES ASSUME k + 1 <= SfnLen PROVE Good(k + 1)
    OBVIOUS
  <2>1. Good(k) /\ k < SfnLen
    BY <1>1, <1>5
  <2>2. g[k + 1] = Show(g[k], sfn, k + 1)
    <3>1. k + 1 \in 1 .. SfnLen /\ (k + 1) - 1 = k
      BY <1>1
    <3> QED  BY <1>2, <3>1
  <2>3. CASE k < BaseLen
    <3>1. Begun(g[k], sfn, Least(k, b))
      BY <2>1, <2>3
    <3>2. /\ k + 1 < BaseLen => Begun(g[k + 1], sfn, Least(k + 1, b))
          /\ k + 1 = BaseLen => Spells(g[k + 1], sfn, b, 0)
      BY <2>2, <2>3, <3>1, ShowBase
    <3>3. (k + 1 < BaseLen /\ ~ (BaseLen <= k + 1)) \/ (k + 1 = BaseLen /\ ~ (k + 1 < BaseLen))
      BY <1>1, <2>3
    <3>4. k + 1 = BaseLen => Least((k + 1) - BaseLen, e) = 0
      BY <1>1, <1>3 DEF Least
    <3> QED  BY <3>2, <3>3, <3>4
  <2>4. CASE ~ (k < BaseLen)
    <3>1. BaseLen <= k /\ ~ (k + 1 < BaseLen)
      BY <1>1, <2>4
    <3>2. Spells(g[k], sfn, b, Least(k - BaseLen, e))
      BY <2>1, <3>1
    <3>3. Spells(g[k + 1], sfn, b, Least((k + 1) - BaseLen, e))
      BY <2>1, <2>2, <3>1, <3>2, ShowExt
    <3> QED  BY <3>1, <3>3
  <2> QED  BY <2>3, <2>4
<1> HIDE DEF S
<1>6. SfnLen \in S
  BY <1>1, <1>4, <1>5, SetInduction
<1>7. Good(SfnLen) /\ BaseLen <= SfnLen
  BY <1>1, <1>6 DEF S
<1>8. Least(SfnLen - BaseLen, e) = e
  BY <1>1, <1>3 DEF Least
<1> QED  BY <1>7, <1>8

(* What a listing shows: the base alone, or both with a dot and, behind a   *)
(* name that is full, one more character.                                   *)
LEMMA GetNameSpells ==
  ASSUME NEW sfn, NEW b, NEW e, Packed(sfn, b, e), NEW beyond \in Char \cup {Ends}
  PROVE  \/ e = 0 /\ Begun(GetName(sfn, beyond), sfn, b)
         \/ Spells(GetName(sfn, beyond), sfn, b, e)
         \/ /\ b = BaseLen /\ e = ExtLen
            /\ \E s : Spells(s, sfn, b, e) /\ GetName(sfn, beyond) = Append(s, beyond)
            /\ beyond \in Char
<1>1. BaseLen \in Nat \ {0} /\ ExtLen \in Nat \ {0} /\ SfnLen = BaseLen + ExtLen /\ SfnLen \in Nat
      /\ Space \notin Char /\ Dot \notin Char
  BY NamesAssumption DEF SfnLen
<1> DEFINE f == CHOOSE g : IsShowing(g, sfn, SfnLen)
<1>2. IsShowing(f, sfn, SfnLen)
  BY <1>1, ShowingExists
<1>3. PICK s : s = f[SfnLen]
  OBVIOUS
<1> DEFINE name == IF s[Len(s)] = Dot THEN SubSeq(s, 1, Len(s) - 1) ELSE s
<1>4. GetName(sfn, beyond) = IF Len(s) <= SfnLen \/ beyond = Ends THEN name ELSE Append(name, beyond)
  BY <1>3 DEF GetName, IsShowing
<1>5. Spells(s, sfn, b, e)
  BY <1>2, <1>3, ShowingSpells
<1>6. /\ s \in Seq(Char \cup {Dot}) /\ Len(s) = b + 1 + e
      /\ \A j \in 1 .. b : s[j] = sfn[j]
      /\ s[b + 1] = Dot
      /\ \A j \in 1 .. e : s[b + 1 + j] = sfn[BaseLen + j]
  BY <1>5 DEF Spells
<1>7. /\ b \in 0 .. BaseLen /\ e \in 0 .. ExtLen /\ sfn \in [1 .. SfnLen -> Char \cup {Space}]
      /\ \A i \in 1 .. SfnLen : sfn[i] # Space <=> i <= b \/ (BaseLen < i /\ i <= BaseLen + e)
  BY DEF Packed
<1>8. CASE e = 0
  <2>1. Len(s) = b + 1 /\ Len(s) <= SfnLen /\ b \in Nat
    BY <1>1, <1>6, <1>7, <1>8
  <2>2. name = SubSeq(s, 1, b)
    BY <1>6, <2>1
  <2> DEFINE t == SubSeq(s, 1, b)
  <2>3. t \in Seq(Char \cup {Dot}) /\ Len(t) = b /\ \A j \in 1 .. b : t[j] = s[j]
    BY <1>6, <2>1
  <2> HIDE DEF t, name
  <2>4. Begun(t, sfn, b)
    BY <1>6, <2>3 DEF Begun
  <2>5. GetName(sfn, beyond) = t
    BY <1>4, <2>1, <2>2 DEF t
  <2> QED  BY <1>8, <2>4, <2>5
<1>9. CASE e # 0
  <2>1. Len(s) = b + 1 + e /\ e \in 1 .. e /\ BaseLen + e \in 1 .. SfnLen /\ BaseLen < BaseLen + e
        /\ BaseLen + e <= BaseLen + e /\ e \in Nat /\ b \in Nat
    BY <1>1, <1>6, <1>7, <1>9
  <2>2. s[Len(s)] = sfn[BaseLen + e]
    BY <1>6, <2>1
  <2>3. sfn[BaseLen + e] \in Char
    BY <1>7, <2>1
  <2>4. name = s
    BY <1>1, <2>2, <2>3
  <2> HIDE DEF name
  <2>5. CASE Len(s) <= SfnLen \/ beyond = Ends
    BY <1>4, <1>5, <2>4, <2>5
  <2>6. CASE ~ (Len(s) <= SfnLen \/ beyond = Ends)
    <3>1. b = BaseLen /\ e = ExtLen
      BY <1>1, <1>7, <2>1, <2>6
    <3>2. GetName(sfn, beyond) = Append(s, beyond) /\ beyond \in Char
      BY <1>4, <2>4, <2>6
    <3> QED  BY <1>5, <3>1, <3>2
  <2> QED  BY <2>5, <2>6
<1> QED  BY <1>8, <1>9

(* What to_sfn does with the characters of a listed name: one of the base.  *)
LEMMA PartBase ==
  ASSUME NEW sfn, NEW x \in Nat, x < BaseLen, sfn[x + 1] \in Char
  PROVE  Put([dest |-> Part(sfn, x, 0), curr |-> x + 1], sfn[x + 1])
           = [dest |-> Part(sfn, x + 1, 0), curr |-> x + 2]
<1>1. BaseLen \in Nat \ {0} /\ ExtLen \in Nat \ {0} /\ SfnLen = BaseLen + ExtLen
      /\ Space \notin Char /\ Dot \notin Char
  BY NamesAssumption DEF SfnLen
<1>2. PICK c \in Char : c = sfn[x + 1]
  OBVIOUS
<1>3. PICK d : d = Part(sfn, x, 0)
  OBVIOUS
<1>4. Put([dest |-> d, curr |-> x + 1], c) = [dest |-> [d EXCEPT ![x + 1] = c], curr |-> (x + 1) + 1]
  <2>1. ~ (x + 1 > SfnLen) /\ c # Dot
    BY <1>1, <1>2
  <2> QED  BY <2>1 DEF Put
<1>5. [d EXCEPT ![x + 1] = c] = Part(sfn, x + 1, 0)
  <2> DEFINE n == [d EXCEPT ![x + 1] = c]
             o == Part(sfn, x + 1, 0)
  <2>1. /\ DOMAIN d = 1 .. SfnLen
        /\ \A i \in 1 .. SfnLen : d[i] = IF i <= x \/ (BaseLen < i /\ i <= BaseLen + 0) THEN sfn[i] ELSE Space
    BY <1>3 DEF Part
  <2>2. /\ n = [i \in 1 .. SfnLen |-> n[i]]
        /\ \A i \in 1 .. SfnLen : n[i] = IF i = x + 1 THEN c ELSE d[i]
    BY <2>1
  <2>3. /\ o = [i \in 1 .. SfnLen |-> o[i]]
        /\ \A i \in 1 .. SfnLen : o[i] = IF i <= x + 1 \/ (BaseLen < i /\ i <= BaseLen + 0) THEN sfn[i] ELSE Space
    BY DEF Part
  <2> HIDE DEF n, o
  <2>4. ASSUME NEW i \in 1 .. SfnLen
        PROVE  n[i] = o[i]
    BY <1>1, <1>2, <2>1, <2>2, <2>3
  <2>5. n = o
    BY <2>2, <2>3, <2>4
  <2> QED  BY <2>5 DEF n, o
<1>6. (x + 1) + 1 = x + 2
  OBVIOUS
<1> QED  BY <1>2, <1>3, <1>4, <1>5, <1>6

(* The dot moves on to the extension, however short the base was.           *)
LEMMA PartDot ==
  ASSUME NEW sfn, NEW x \in Nat, x <= BaseLen
  PROVE  Put([dest |-> Part(sfn, x, 0), curr |-> x + 1], Dot)
           = [dest |-> Part(sfn, x, 0), curr |-> BaseLen + 1]
<1>1. ~ (x + 1 > SfnLen)
  BY NamesAssumption DEF SfnLen
<1> QED  BY <1>1 DEF Put

(* A character of the extension.                                            *)
LEMMA PartExt ==
  ASSUME NEW sfn, NEW b, b \in 0 .. BaseLen, NEW y \in Nat, y < ExtLen,
         sfn[BaseLen + y + 1] \in Char
  PROVE  Put([dest |-> Part(sfn, b, y), curr |-> BaseLen + y + 1], sfn[BaseLen + y + 1])
           = [dest |-> Part(sfn, b, y + 1), curr |-> BaseLen + (y + 1) + 1]
<1>1. BaseLen \in Nat \ {0} /\ ExtLen \in Nat \ {0} /\ SfnLen = BaseLen + ExtLen
      /\ Space \notin Char /\ Dot \notin Char
  BY NamesAssumption DEF SfnLen
<1>2. PICK p \in Nat : p = BaseLen + y + 1
  BY <1>1
<1>3. PICK c \in Char : c = sfn[p]
  BY <1>2
<1>4. PICK d : d = Part(sfn, b, y)
  OBVIOUS
<1>5. Put([dest |-> d, curr |-> p], c) = [dest |-> [d EXCEPT ![p] = c], curr |-> p + 1]
  <2>1. ~ (p > SfnLen) /\ c # Dot
    BY <1>1, <1>2, <1>3
  <2> QED  BY <2>1 DEF Put
<1>6. [d EXCEPT ![p] = c] = Part(sfn, b, y + 1)
  <2> DEFINE n == [d EXCEPT ![p] = c]
             o == Part(sfn, b, y + 1)
  <2>1. /\ DOMAIN d = 1 .. SfnLen
        /\ \A i \in 1 .. SfnLen : d[i] = IF i <= b \/ (BaseLen < i /\ i <= BaseLen + y) THEN sfn[i] ELSE Space
    BY <1>4 DEF Part
  <2>2. /\ n = [i \in 1 .. SfnLen |-> n[i]]
        /\ \A i \in 1 .. SfnLen : n[i] = IF i = p THEN c ELSE d[i]
    BY <2>1
  <2>3. /\ o = [i \in 1 .. SfnLen |-> o[i]]
        /\ \A i \in 1 .. SfnLen : o[i] = IF i <= b \/ (BaseLen < i /\ i <= BaseLen + (y + 1)) THEN sfn[i] ELSE Space
    BY DEF Part
  <2> HIDE DEF n, o
  <2>4. ASSUME NEW i \in 1 .. SfnLen
        PROVE  n[i] = o[i]
    BY <1>1, <1>2, <1>3, <2>1, <2>2, <2>3
  <2>5. n = o
    BY <2>2, <2>3, <2>4
  <2> QED  BY <2>5 DEF n, o
<1>7. p + 1 = BaseLen + (y + 1) + 1
  BY <1>1, <1>2
<1> QED  BY <1>2, <1>3, <1>4, <1>5, <1>6, <1>7

(* What is left of a packed entry besides its parts is blank.               *)
LEMMA PartWhole ==
  ASSUME NEW sfn, NEW b, NEW e, Packed(sfn, b, e)
  PROVE  Part(sfn, b, e) = sfn
<1>1. /\ sfn \in [1 .. SfnLen -> Char \cup {Space}]
      /\ \A i \in 1 .. SfnLen : sfn[i] # Space <=> i <= b \/ (BaseLen < i /\ i <= BaseLen + e)
  BY DEF Packed
<1> QED  BY <1>1 DEF Part

(* to_sfn puts the base where it was, ...                                   *)
LEMMA TypesBase ==
  ASSUME NEW sfn, NEW b, NEW e, Packed(sfn, b, e),
         NEW name, NEW n \in Nat, b <= n, Begins(name, sfn, b),
         NEW g, IsTyping(g, name, n)
  PROVE  g[b] = [dest |-> Part(sfn, b, 0), curr |-> b + 1]
<1>1. BaseLen \in Nat \ {0} /\ ExtLen \in Nat \ {0} /\ SfnLen = BaseLen + ExtLen
  BY NamesAssumption DEF SfnLen
<1>2. /\ b \in Nat /\ b <= BaseLen /\ sfn \in [1 .. SfnLen -> Char \cup {Space}]
      /\ \A i \in 1 .. SfnLen : sfn[i] # Space <=> i <= b \/ (BaseLen < i /\ i <= BaseLen + e)
  BY <1>1 DEF Packed
<1>3. g[0] = [dest |-> Blank, curr |-> 1] /\ \A k \in 1 .. n : g[k] = Put(g[k - 1], name[k])
  BY TypingStep
<1> DEFINE S == {k \in Nat : k <= b => g[k] = [dest |-> Part(sfn, k, 0), curr |-> k + 1]}
<1>4. 0 \in S
  <2>1. Part(sfn, 0, 0) = Blank
    BY <1>1 DEF Part, Blank
  <2> QED  BY <1>3, <2>1
<1>5. ASSUME NEW k \in Nat, k \in S
      PROVE  k + 1 \in S
  <2> SUFFICES ASSUME k + 1 <= b
               PROVE  g[k + 1] = [dest |-> Part(sfn, k + 1, 0), curr |-> (k + 1) + 1]
    OBVIOUS
  <2>1. g[k] = [dest |-> Part(sfn, k, 0), curr |-> k + 1]
    BY <1>2, <1>5
  <2>2. k + 1 \in 1 .. n /\ (k + 1) - 1 = k /\ k < BaseLen /\ k + 1 \in 1 .. SfnLen /\ k + 1 \in 1 .. b
        /\ (k + 1) + 1 = k + 2
    BY <1>1, <1>2
  <2>3. g[k + 1] = Put(g[k], name[k + 1]) /\ name[k + 1] = sfn[k + 1]
    BY <1>3, <2>2 DEF Begins
  <2>4. sfn[k + 1] \in Char
    BY <1>2, <2>2
  <2>5. Put([dest |-> Part(sfn, k, 0), curr |-> k + 1], sfn[k + 1])
          = [dest |-> Part(sfn, k + 1, 0), curr |-> k + 2]
    BY <2>2, <2>4, PartBase
  <2> QED  BY <2>1, <2>2, <2>3, <2>5
<1> HIDE DEF S
<1>6. b \in S
  BY <1>2, <1>4, <1>5, SetInduction
<1> QED  BY <1>2, <1>6 DEF S

(* ... and behind the dot the extension. *)
LEMMA TypesExt ==
  ASSUME NEW sfn, NEW b \in Nat, NEW e \in Nat, Packed(sfn, b, e),
         NEW name, NEW n \in Nat, NEW l \in Nat, l = b + 1 + e, l <= n,
         Spelt(name, sfn, b, e), NEW g, IsTyping(g, name, n)
  PROVE  g[l].dest = sfn /\ g[l].curr = BaseLen + e + 1
<1>1. BaseLen \in Nat \ {0} /\ ExtLen \in Nat \ {0} /\ SfnLen = BaseLen + ExtLen
  BY NamesAssumption DEF SfnLen
<1>2. /\ b \in Nat /\ b <= BaseLen /\ e \in Nat /\ e <= ExtLen /\ sfn \in [1 .. SfnLen -> Char \cup {Space}]
      /\ \A i \in 1 .. SfnLen : sfn[i] # Space <=> i <= b \/ (BaseLen < i /\ i <= BaseLen + e)
  BY <1>1 DEF Packed
<1>3. \A k \in 1 .. n : g[k] = Put(g[k - 1], name[k])
  BY TypingStep
<1>4. g[b] = [dest |-> Part(sfn, b, 0), curr |-> b + 1]
  <2>1. b <= n
    BY <1>2
  <2>2. Begins(name, sfn, b)
    BY DEF Spelt, Begins
  <2> QED  BY <2>1, <2>2, TypesBase
<1> DEFINE S == {k \in Nat : k <= e => g[b + 1 + k] = [dest |-> Part(sfn, b, k), curr |-> BaseLen + k + 1]}
<1>5. 0 \in S
  <2>1. b + 1 \in 1 .. n /\ (b + 1) - 1 = b /\ b + 1 + 0 = b + 1 /\ BaseLen + 0 + 1 = BaseLen + 1
    BY <1>1, <1>2
  <2>2. g[b + 1] = Put(g[b], Dot)
    BY <1>3, <2>1 DEF Spelt
  <2>3. Put([dest |-> Part(sfn, b, 0), curr |-> b + 1], Dot) = [dest |-> Part(sfn, b, 0), curr |-> BaseLen + 1]
    BY <1>2, PartDot
  <2> QED  BY <1>4, <2>1, <2>2, <2>3
<1>6. ASSUME NEW k \in Nat, k \in S
      PROVE  k + 1 \in S
  <2> SUFFICES ASSUME k + 1 <= e
               PROVE  g[b + 1 + (k + 1)] = [dest |-> Part(sfn, b, k + 1), curr |-> BaseLen + (k + 1) + 1]
    OBVIOUS
  <2>1. g[b + 1 + k] = [dest |-> Part(sfn, b, k), curr |-> BaseLen + k + 1]
    BY <1>2, <1>6
  <2>2. /\ b + 1 + (k + 1) \in 1 .. n /\ (b + 1 + (k + 1)) - 1 = b + 1 + k /\ k < ExtLen /\ k + 1 \in 1 .. e
        /\ BaseLen + (k + 1) = BaseLen + k + 1 /\ BaseLen + k + 1 \in 1 .. SfnLen
        /\ BaseLen < BaseLen + k + 1 /\ BaseLen + k + 1 <= BaseLen + e /\ b \in 0 .. BaseLen
    BY <1>1, <1>2
  <2>3. g[b + 1 + (k + 1)] = Put(g[b + 1 + k], name[b + 1 + (k + 1)])
    BY <1>3, <2>2
  <2>4. name[b + 1 + (k + 1)] = sfn[BaseLen + k + 1]
    BY <2>2 DEF Spelt
  <2>5. sfn[BaseLen + k + 1] \in Char
    BY <1>2, <2>2
  <2>6. Put([dest |-> Part(sfn, b, k), curr |-> BaseLen + k + 1], sfn[BaseLen + k + 1])
          = [dest |-> Part(sfn, b, k + 1), curr |-> BaseLen + (k + 1) + 1]
    BY <2>2, <2>5, PartExt
  <2> QED  BY <2>1, <2>3, <2>4, <2>6
<1> HIDE DEF S
<1>7. e \in S
  BY <1>2, <1>5, <1>6, SetInduction
<1>8. Part(sfn, b, e) = sfn
  BY PartWhole
<1> QED  BY <1>2, <1>7, <1>8 DEF S

(* What a listing shows of a packed entry is the entry again.               *)
LEMMA ShownOpens ==
  ASSUME NEW sfn, NEW b, NEW e, Packed(sfn, b, e), NEW beyond \in Char \cup {Ends}
  PROVE  ToSfn(GetName(sfn, beyond)) = sfn
<1>1. BaseLen \in Nat \ {0} /\ ExtLen \in Nat \ {0} /\ SfnLen = BaseLen + ExtLen
  BY NamesAssumption DEF SfnLen
<1>2. b \in Nat /\ b <= BaseLen /\ e \in Nat /\ e <= ExtLen
  BY <1>1 DEF Packed
<1>3. PICK name : name = GetName(sfn, beyond)
  OBVIOUS
<1>4. \/ e = 0 /\ Begun(name, sfn, b)
      \/ Spells(name, sfn, b, e)
      \/ /\ b = BaseLen /\ e = ExtLen
         /\ \E s : Spells(s, sfn, b, e) /\ name = Append(s, beyond)
         /\ beyond \in Char
  BY <1>3, GetNameSpells
<1>5. CASE e = 0 /\ Begun(name, sfn, b)
  <2>1. Len(name) = b /\ Len(name) \in Nat /\ Begins(name, sfn, b)
    BY <1>2, <1>5 DEF Begun, Begins
  <2>2. PICK g : IsTyping(g, name, Len(name)) /\ ToSfn(name) = g[Len(name)].dest
    BY <2>1, ToSfnRun
  <2>3. b <= b /\ IsTyping(g, name, b)
    BY <1>2, <2>1, <2>2
  <2>4. g[b] = [dest |-> Part(sfn, b, 0), curr |-> b + 1]
    BY <1>2, <2>1, <2>3, TypesBase
  <2>5. Part(sfn, b, 0) = sfn
    BY <1>5, PartWhole
  <2> QED  BY <1>3, <2>1, <2>2, <2>4, <2>5
<1>6. CASE Spells(name, sfn, b, e)
  <2>1. Len(name) = b + 1 + e /\ Len(name) \in Nat /\ b + 1 + e <= b + 1 + e /\ Spelt(name, sfn, b, e)
    BY <1>2, <1>6 DEF Spells, Spelt
  <2>2. PICK n \in Nat : n = Len(name) /\ b + 1 + e <= n
    BY <2>1
  <2>3. PICK g : IsTyping(g, name, n) /\ ToSfn(name) = g[n].dest
    BY <2>1, <2>2, ToSfnRun
  <2>4. g[b + 1 + e].dest = sfn /\ g[b + 1 + e].curr = BaseLen + e + 1
    <3>1. PICK l \in Nat : l = b + 1 + e /\ l <= n
      BY <1>2, <2>2
    <3>2. g[l].dest = sfn /\ g[l].curr = BaseLen + e + 1
      <4>1. l = b + 1 + e
        BY <3>1
      <4>2. l <= n
        BY <3>1
      <4>3. Spelt(name, sfn, b, e)
        BY <2>1
      <4>4. IsTyping(g, name, n)
        BY <2>3
      <4> QED  BY <1>1, <1>2, <4>1, <4>2, <4>3, <4>4, TypesExt
    <3> QED  BY <3>1, <3>2
  <2> QED  BY <1>3, <2>1, <2>2, <2>3, <2>4
<1>7. ASSUME b = BaseLen, e = ExtLen, NEW s, Spells(s, sfn, b, e), name = Append(s, beyond), beyond \in Char
      PROVE  ToSfn(name) = sfn
  <2>1. /\ s \in Seq(Char \cup {Dot}) /\ Len(s) = b + 1 + e
        /\ \A j \in 1 .. b : s[j] = sfn[j]
        /\ s[b + 1] = Dot
        /\ \A j \in 1 .. e : s[b + 1 + j] = sfn[BaseLen + j]
    BY <1>7 DEF Spells
  <2>2. Len(name) = b + 1 + e + 1 /\ \A j \in 1 .. b + 1 + e : name[j] = s[j]
    BY <1>2, <1>7, <2>1
  <2>3. PICK n \in Nat : n = Len(name) /\ n = b + 1 + e + 1 /\ b + 1 + e <= n
    BY <1>2, <2>2
  <2>4. PICK g : IsTyping(g, name, n) /\ ToSfn(name) = g[n].dest
    BY <2>3, ToSfnRun
  <2>5. \A j \in 1 .. b : name[j] = sfn[j]
    <3> TAKE j \in 1 .. b
    <3>1. j \in 1 .. b + 1 + e
      BY <1>2
    <3> QED  BY <2>1, <2>2, <3>1
  <2>6. name[b + 1] = Dot
    <3>1. b + 1 \in 1 .. b + 1 + e
      BY <1>2
    <3> QED  BY <2>1, <2>2, <3>1
  <2>7. \A j \in 1 .. e : name[b + 1 + j] = sfn[BaseLen + j]
    <3> TAKE j \in 1 .. e
    <3>1. b + 1 + j \in 1 .. b + 1 + e
      BY <1>2
    <3> QED  BY <2>1, <2>2, <3>1
  <2>12. Spelt(name, sfn, b, e)
    BY <2>5, <2>6, <2>7 DEF Spelt
  <2>8. g[b + 1 + e].dest = sfn /\ g[b + 1 + e].curr = BaseLen + e + 1
    <3>1. PICK l \in Nat : l = b + 1 + e /\ l <= n
      BY <1>2, <2>3
    <3>2. g[l].dest = sfn /\ g[l].curr = BaseLen + e + 1
      BY <1>1, <1>2, <2>4, <2>12, <3>1, TypesExt
    <3> QED  BY <3>1, <3>2
  <2>9. n \in 1 .. n /\ n - 1 = b + 1 + e
    BY <1>2, <2>3
  <2>10. g[n] = Put(g[b + 1 + e], name[n])
    BY <2>4, <2>9, TypingStep
  <2>11. BaseLen + e + 1 > SfnLen
    BY <1>1, <1>7
  <2>13. g[n] = g[b + 1 + e]
    BY <2>8, <2>10, <2>11 DEF Put
  <2> QED  BY <2>4, <2>8, <2>13
<1> QED  BY <1>3, <1>4, <1>5, <1>6, <1>7

(* Names of any length and any parts: the name a listing shows opens the    *)
(* file it belongs to (diritem_get_name and to_sfn).                        *)
THEOREM SpecListedNameOpens ==
  NamesSpec => []ListedNameOpens
<1> DEFINE Typed == path \in Seq(Char \cup {Dot})
<1>1. NamesInit => Typed
  BY DEF NamesInit
<1>2. Typed /\ [NamesNext]_path => Typed'
  <2> SUFFICES ASSUME Typed, [NamesNext]_path
               PROVE  path' \in Seq(Char \cup {Dot})
    OBVIOUS
  <2>1. CASE UNCHANGED path
    BY <2>1
  <2>2. CASE path' = <<>>
    BY <2>2
  <2>3. CASE \E c \in Char \cup {Dot} : path' = Append(path, c)
    BY <2>3
  <2> QED  BY <2>1, <2>2, <2>3 DEF NamesNext
<1>3. Typed => ListedNameOpens
  <2> SUFFICES ASSUME Typed, NEW beyond \in Char \cup {Ends}
               PROVE  ToSfn(GetName(ToSfn(path), beyond)) = ToSfn(path)
    BY DEF ListedNameOpens
  <2>1. PICK b \in 0 .. BaseLen, e \in 0 .. ExtLen : Packed(ToSfn(path), b, e)
    BY ToSfnPacked
  <2> QED  BY <2>1, ShownOpens
<1> HIDE DEF Typed
<1> QED  BY <1>1, <1>2, <1>3, PTL DEF NamesSpec
=============================================================================
