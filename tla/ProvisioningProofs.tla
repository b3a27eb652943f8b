------------------------- MODULE ProvisioningProofs -------------------------
(***************************************************************************)
(* What holds of every request to write and of every plan of an EDP disk,  *)
(* whatever the disks, sizes, geometries and passwords are: the entry      *)
(* points' plans (WritePlan), the plan of a target (TargetPlan,            *)
(* ProvisionLayout) and the form that submits it (ProvisionForm).          *)
(*                                                                         *)
(* First the operators: ordering sectors and stages, the plans the entry   *)
(* points make, the extents of a layout, the disposition of a partition.   *)
(* Then the invariant: a plan that is not refused stands, in that all its  *)
(* partitions are placed apart from one another and from what the commit   *)
(* writes; so nothing after it can reject it, and no key is lost.          *)
(* Last, the form against the planner: what was submitted is planned as    *)
(* shown.                                                                  *)
(***************************************************************************)
EXTENDS ProvisionForm, FiniteSetTheorems, TLAPS
-----------------------------------------------------------------------------
Below(S, l) == {k \in S : k < l}
Rank(S) == [l \in S |-> Cardinality(Below(S, l))]

\* Each number below the size of S is the rank of one member.
LEMMA Ranks ==
  ASSUME NEW S, S \subseteq Nat, IsFiniteSet(S)
  PROVE  /\ Cardinality(S) \in Nat
         /\ \A l, m \in S : l < m => Rank(S)[l] < Rank(S)[m]
         /\ \A l \in S : Rank(S)[l] \in 0..Cardinality(S) - 1
         /\ \A i \in 0..Cardinality(S) - 1 : \E l \in S : Rank(S)[l] = i
<1>1. PICK n : n = Cardinality(S)
  OBVIOUS
<1>2. PICK rank : rank = Rank(S)
  OBVIOUS
<1>3. n \in Nat
  BY <1>1, FS_CardinalityType
<1>4. ASSUME NEW l \in S
      PROVE  /\ IsFiniteSet(Below(S, l)) /\ Cardinality(Below(S, l)) \in Nat
             /\ rank[l] = Cardinality(Below(S, l)) /\ rank[l] \in 0..n - 1
  <2>1. Below(S, l) \subseteq S /\ l \notin Below(S, l)
    BY DEF Below
  <2>2. /\ IsFiniteSet(Below(S, l)) /\ Cardinality(Below(S, l)) <= n
        /\ n = Cardinality(Below(S, l)) => S = Below(S, l)
    BY <1>1, <2>1, FS_Subset, Zenon
  <2>3. Cardinality(Below(S, l)) \in Nat
    BY <2>2, FS_CardinalityType, Zenon
  <2>4. rank[l] = Cardinality(Below(S, l))
    BY <1>2 DEF Rank
  <2> QED
    BY <1>3, <2>1, <2>2, <2>3, <2>4
<1>5. ASSUME NEW l \in S, NEW m \in S, l < m
      PROVE  rank[l] < rank[m]
  <2>1. l \in Nat /\ m \in Nat /\ \A k \in S : k \in Nat
    OBVIOUS
  <2>2. Below(S, l) \subseteq Below(S, m) /\ l \in Below(S, m) /\ l \notin Below(S, l)
    <3>1. ASSUME NEW k \in S, k < l PROVE k < m
      <4>1. k \in Nat
        BY <2>1
      <4> QED
        BY <1>5, <2>1, <3>1, <4>1
    <3>2. ~ (l < l)
      BY <2>1
    <3> QED
      BY <1>5, <3>1, <3>2, Zenon DEF Below
  <2>3. /\ Cardinality(Below(S, l)) <= Cardinality(Below(S, m))
        /\ Cardinality(Below(S, m)) = Cardinality(Below(S, l)) => Below(S, m) = Below(S, l)
    BY <1>4, <2>2, FS_Subset, Zenon
  <2> QED
    BY <1>4, <2>2, <2>3
<1>6. rank \in Injection(S, 0..n - 1)
  <2>1. rank \in [S -> 0..n - 1]
    BY <1>2, <1>4 DEF Rank
  <2>2. ASSUME NEW l \in S, NEW m \in S, rank[l] = rank[m]
        PROVE  l = m
    <3>1. l \in Nat /\ m \in Nat /\ rank[l] \in Int /\ rank[m] \in Int
      BY <1>4
    <3>2. ~ (l < m) /\ ~ (m < l)
      BY <1>5, <2>2, <3>1
    <3> QED
      BY <3>1, <3>2
  <2> QED
    BY <2>1, <2>2, Zenon DEF Injection, IsInjective
<1>7. IsFiniteSet(0..n - 1) /\ Cardinality(0..n - 1) = n
  <2>1. 0 \in Int /\ n - 1 \in Int
    BY <1>3
  <2>2. /\ IsFiniteSet(0..n - 1)
        /\ Cardinality(0..n - 1) = IF 0 > n - 1 THEN 0 ELSE (n - 1) - 0 + 1
    BY <2>1, FS_Interval, Zenon
  <2> QED
    BY <1>3, <2>2
<1>8. rank \in Surjection(S, 0..n - 1)
  BY <1>1, <1>6, <1>7, FS_Injection, Zenon
<1>9. \A i \in 0..n - 1 : \E l \in S : rank[l] = i
  BY <1>8 DEF Surjection
<1> QED
  BY <1>1, <1>2, <1>3, <1>4, <1>5, <1>9

Lists(s, S) ==
  /\ s \in Seq(Nat) /\ StrictlyIncreasing(s)
  /\ \A i \in 1..Len(s) : s[i] \in S
  /\ \A l \in S : \E i \in 1..Len(s) : s[i] = l

\* Ascending lists a finite set of numbers, each once, the smaller first.
LEMMA AscendingSorts ==
  ASSUME NEW S, S \subseteq Nat, IsFiniteSet(S), NEW s, s = Ascending(S)
  PROVE  Lists(s, S)
<1>1. PICK n, rank : n = Cardinality(S) /\ rank = Rank(S)
  OBVIOUS
<1>2. /\ n \in Nat
      /\ \A l, m \in S : l < m => rank[l] < rank[m]
      /\ \A l \in S : rank[l] \in 0..n - 1
      /\ \A i \in 0..n - 1 : \E l \in S : rank[l] = i
  BY <1>1, Ranks, Zenon
<1>3. /\ s = [i \in 1..n |-> CHOOSE l \in S : Cardinality({k \in S : k < l}) = i - 1]
      /\ \A l \in S : rank[l] = Cardinality({k \in S : k < l})
  BY <1>1 DEF Ascending, Rank, Below
<1>4. ASSUME NEW i \in 1..n
      PROVE  s[i] \in S /\ rank[s[i]] = i - 1
  <2>1. i - 1 \in 0..n - 1
    BY <1>2
  <2>2. PICK l \in S : rank[l] = i - 1
    BY <1>2, <2>1, Zenon
  <2>3. s[i] = CHOOSE m \in S : Cardinality({k \in S : k < m}) = i - 1
    BY <1>3, Zenon
  <2>4. Cardinality({k \in S : k < l}) = i - 1
    BY <1>3, <2>2, Zenon
  <2>5. s[i] \in S /\ Cardinality({k \in S : k < s[i]}) = i - 1
    BY <2>3, <2>4, Zenon
  <2> QED
    BY <1>3, <2>5, Zenon
<1>5. s \in [1..n -> S]
  BY <1>3, <1>4, Zenon
<1>6. s \in Seq(Nat) /\ Len(s) = n
  <2>1. s \in [1..n -> Nat]
    BY <1>5
  <2> QED
    BY <1>2, <2>1
<1>7. ASSUME NEW i \in 1..n, NEW j \in 1..n, i < j
      PROVE  s[i] < s[j]
  <2>1. s[i] \in Nat /\ s[j] \in Nat /\ s[i] \in S /\ s[j] \in S
    BY <1>4
  <2>2. rank[s[i]] = i - 1 /\ rank[s[j]] = j - 1
    BY <1>4
  <2>3. s[i] # s[j] /\ ~ (s[j] < s[i])
    BY <1>2, <1>7, <2>1, <2>2
  <2> QED
    BY <2>1, <2>3
<1>8. ASSUME NEW l \in S
      PROVE  \E i \in 1..n : s[i] = l
  <2>1. rank[l] + 1 \in 1..n /\ (rank[l] + 1) - 1 = rank[l]
    BY <1>2
  <2>2. PICK i \in 1..n : i - 1 = rank[l]
    BY <2>1
  <2>3. s[i] \in S /\ rank[s[i]] = rank[l]
    BY <1>4, <2>2
  <2>4. s[i] \in Nat /\ l \in Nat
    BY <2>3
  <2>5. s[i] = l
    <3>1. rank[l] \in 0..n - 1
      BY <1>2
    <3>2. rank[l] \in Int
      BY <3>1
    <3>3. ~ (s[i] < l) /\ ~ (l < s[i])
      <4>1. ~ (rank[l] < rank[l])
        BY <3>2
      <4> QED
        BY <1>2, <2>3, <4>1, Zenon
    <3> QED
      BY <2>4, <3>3
  <2> QED
    BY <2>5
<1> QED
  BY <1>4, <1>6, <1>7, <1>8 DEF Lists, StrictlyIncreasing

-----------------------------------------------------------------------------
(***************************************************************************)
(* What the executor relies on, of an order a plan has and of the stages   *)
(* of its sectors.                                                         *)
(***************************************************************************)
Member(s, l) == \E i \in 1..Len(s) : s[i] = l

SameSectors(order, readback) ==
  \A l \in Nat : Member(order, l) <=> Member(readback, l)

Once(order) == \A i, j \in 1..Len(order) : order[i] = order[j] => i = j

ByStage(order, rank) ==
  \A i, j \in 1..Len(order) : i < j => rank[order[i]] <= rank[order[j]]

\* A strictly increasing list names nothing twice.
LEMMA IncreasingOnce ==
  ASSUME NEW s \in Seq(Nat), StrictlyIncreasing(s)
  PROVE  Once(s)
<1> SUFFICES ASSUME NEW i \in 1..Len(s), NEW j \in 1..Len(s), s[i] = s[j] PROVE i = j
  BY DEF Once
<1>1. i \in Nat /\ j \in Nat /\ s[i] \in Nat /\ s[j] \in Nat
  OBVIOUS
<1>2. ~ (i < j) /\ ~ (j < i)
  BY <1>1 DEF StrictlyIncreasing
<1> QED
  BY <1>1, <1>2

Stages == {"Data", "Metadata", "Commit"}

\* OrderedLbas goes by stages, and names every sector of the plan once.
LEMMA StagesInOrder ==
  ASSUME NEW D, D \subseteq Nat, IsFiniteSet(D), NEW st \in [D -> Stages],
         NEW s, s = OrderedLbas(st)
  PROVE  /\ s \in Seq(Nat)
         /\ \A i \in 1..Len(s) : s[i] \in D
         /\ \A l \in D : Member(s, l)
         /\ Once(s)
         /\ \A i, j \in 1..Len(s) : i < j => StageRank[st[s[i]]] <= StageRank[st[s[j]]]
<1>1. PICK A, B, C : /\ A = Ascending(InStage(st, "Data"))
                     /\ B = Ascending(InStage(st, "Metadata"))
                     /\ C = Ascending(InStage(st, "Commit"))
  OBVIOUS
<1>2. ASSUME NEW t
      PROVE  LET T == InStage(st, t) IN T \subseteq D /\ T \subseteq Nat /\ IsFiniteSet(T)
  <2>1. InStage(st, t) \subseteq D
    BY DEF InStage
  <2> QED
    BY <2>1, FS_Subset
<1>3. /\ A \in Seq(Nat) /\ StrictlyIncreasing(A)
      /\ \A i \in 1..Len(A) : A[i] \in InStage(st, "Data")
      /\ \A l \in InStage(st, "Data") : \E i \in 1..Len(A) : A[i] = l
  <2>1. InStage(st, "Data") \subseteq Nat /\ IsFiniteSet(InStage(st, "Data"))
    BY <1>2, Zenon
  <2>2. Lists(A, InStage(st, "Data"))
    BY <1>1, <2>1, AscendingSorts, Zenon
  <2> QED
    BY <2>2, Zenon DEF Lists
<1>4. /\ B \in Seq(Nat) /\ StrictlyIncreasing(B)
      /\ \A i \in 1..Len(B) : B[i] \in InStage(st, "Metadata")
      /\ \A l \in InStage(st, "Metadata") : \E i \in 1..Len(B) : B[i] = l
  <2>1. InStage(st, "Metadata") \subseteq Nat /\ IsFiniteSet(InStage(st, "Metadata"))
    BY <1>2, Zenon
  <2>2. Lists(B, InStage(st, "Metadata"))
    BY <1>1, <2>1, AscendingSorts, Zenon
  <2> QED
    BY <2>2, Zenon DEF Lists
<1>5. /\ C \in Seq(Nat) /\ StrictlyIncreasing(C)
      /\ \A i \in 1..Len(C) : C[i] \in InStage(st, "Commit")
      /\ \A l \in InStage(st, "Commit") : \E i \in 1..Len(C) : C[i] = l
  <2>1. InStage(st, "Commit") \subseteq Nat /\ IsFiniteSet(InStage(st, "Commit"))
    BY <1>2, Zenon
  <2>2. Lists(C, InStage(st, "Commit"))
    BY <1>1, <2>1, AscendingSorts, Zenon
  <2> QED
    BY <2>2, Zenon DEF Lists
<1>6. s = A \o B \o C
  BY <1>1, Zenon DEF OrderedLbas
<1>7. PICK x, y, z : x = Len(A) /\ y = Len(B) /\ z = Len(C)
  OBVIOUS
<1>8. /\ x \in Nat /\ y \in Nat /\ z \in Nat
      /\ s \in Seq(Nat) /\ Len(s) = x + y + z
      /\ \A i \in 1..x : s[i] = A[i]
      /\ \A i \in 1..y : s[x + i] = B[i]
      /\ \A i \in 1..z : s[x + y + i] = C[i]
  <2>1. A \in Seq(Nat) /\ B \in Seq(Nat) /\ C \in Seq(Nat)
    BY <1>3, <1>4, <1>5
  <2> QED
    BY <1>6, <1>7, <2>1
<1>9. Once(A) /\ Once(B) /\ Once(C)
  BY <1>3, <1>4, <1>5, IncreasingOnce
<1> DEFINE In(t, l) == l \in D /\ st[l] = t
<1>10. \A t : \A l \in InStage(st, t) : In(t, l)
  BY DEF InStage
<1>11. ASSUME NEW i \in 1..Len(s)
       PROVE  \/ i \in 1..x /\ s[i] = A[i] /\ In("Data", s[i])
              \/ \E k \in 1..y : i = x + k /\ s[i] = B[k] /\ In("Metadata", s[i])
              \/ \E k \in 1..z : i = x + y + k /\ s[i] = C[k] /\ In("Commit", s[i])
  <2>1. ASSUME i \in 1..x PROVE s[i] = A[i] /\ In("Data", s[i])
    <3>1. s[i] = A[i]
      BY <1>8, <2>1, Zenon
    <3> QED
      BY <1>3, <1>7, <1>10, <2>1, <3>1, Zenon
  <2>2. ASSUME NEW k \in 1..y, i = x + k PROVE s[i] = B[k] /\ In("Metadata", s[i])
    <3>1. s[i] = B[k]
      BY <1>8, <2>2, Zenon
    <3> QED
      BY <1>4, <1>7, <1>10, <3>1, Zenon
  <2>3. ASSUME NEW k \in 1..z, i = x + y + k PROVE s[i] = C[k] /\ In("Commit", s[i])
    <3>1. s[i] = C[k]
      BY <1>8, <2>3, Zenon
    <3> QED
      BY <1>5, <1>7, <1>10, <3>1, Zenon
  <2>4. \/ i \in 1..x
        \/ \E k \in 1..y : i = x + k
        \/ \E k \in 1..z : i = x + y + k
    <3>1. i \in 1..x + y + z
      BY <1>8
    <3>2. CASE i <= x
      BY <1>8, <3>1, <3>2
    <3>3. CASE x < i /\ i <= x + y
      <4>1. PICK k : k = i - x
        OBVIOUS
      <4>2. k \in 1..y /\ i = x + k
        BY <1>8, <3>1, <3>3, <4>1
      <4> QED
        BY <4>2, Zenon
    <3>4. CASE x + y < i
      <4>1. PICK k : k = i - (x + y)
        OBVIOUS
      <4>2. k \in 1..z /\ i = x + y + k
        BY <1>8, <3>1, <3>4, <4>1
      <4> QED
        BY <4>2, Zenon
    <3> QED
      BY <1>8, <3>1, <3>2, <3>3, <3>4
  <2> QED
    BY <2>1, <2>2, <2>3, <2>4, Zenon
<1>12. \A i \in 1..Len(s) : s[i] \in D
  BY <1>11, Zenon
<1>13. ASSUME NEW l \in D PROVE Member(s, l)
  <2>1. \A i \in 1..x : i \in 1..Len(s)
    BY <1>8
  <2>2. \A i \in 1..y : x + i \in 1..Len(s)
    BY <1>8
  <2>3. \A i \in 1..z : x + y + i \in 1..Len(s)
    BY <1>8
  <2>4. st[l] \in Stages
    OBVIOUS
  <2>5. CASE st[l] = "Data"
    <3>1. l \in InStage(st, "Data")
      BY <2>5 DEF InStage
    <3>2. PICK i \in 1..x : A[i] = l
      BY <1>3, <1>7, <3>1, Zenon
    <3>3. s[i] = l
      BY <1>8, <3>2, Zenon
    <3> QED
      BY <2>1, <3>2, <3>3, Zenon DEF Member
  <2>6. CASE st[l] = "Metadata"
    <3>1. l \in InStage(st, "Metadata")
      BY <2>6 DEF InStage
    <3>2. PICK i \in 1..y : B[i] = l
      BY <1>4, <1>7, <3>1, Zenon
    <3>3. s[x + i] = l
      BY <1>8, <3>2, Zenon
    <3> QED
      BY <2>2, <3>2, <3>3, Zenon DEF Member
  <2>7. CASE st[l] = "Commit"
    <3>1. l \in InStage(st, "Commit")
      BY <2>7 DEF InStage
    <3>2. PICK i \in 1..z : C[i] = l
      BY <1>5, <1>7, <3>1, Zenon
    <3>3. s[x + y + i] = l
      BY <1>8, <3>2, Zenon
    <3> QED
      BY <2>3, <3>2, <3>3, Zenon DEF Member
  <2> QED
    BY <2>4, <2>5, <2>6, <2>7, Zenon DEF Stages
<1>14. ASSUME NEW i \in 1..Len(s), NEW j \in 1..Len(s)
       PROVE  /\ s[i] = s[j] => i = j
              /\ i < j => StageRank[st[s[i]]] <= StageRank[st[s[j]]]
  <2>1. StageRank["Data"] = 1 /\ StageRank["Metadata"] = 2 /\ StageRank["Commit"] = 3
    BY DEF StageRank
  <2>2. "Data" # "Metadata" /\ "Data" # "Commit" /\ "Metadata" # "Commit"
    OBVIOUS
  <2>3. CASE i \in 1..x /\ s[i] = A[i] /\ In("Data", s[i])
    <3>1. CASE j \in 1..x /\ s[j] = A[j] /\ In("Data", s[j])
      BY <1>7, <1>9, <2>1, <2>3, <3>1 DEF Once
    <3>2. ASSUME NEW k \in 1..y, j = x + k, In("Metadata", s[j])
          PROVE  s[i] # s[j] /\ StageRank[st[s[i]]] <= StageRank[st[s[j]]]
      BY <2>1, <2>2, <2>3, <3>2
    <3>3. ASSUME NEW k \in 1..z, j = x + y + k, In("Commit", s[j])
          PROVE  s[i] # s[j] /\ StageRank[st[s[i]]] <= StageRank[st[s[j]]]
      BY <2>1, <2>2, <2>3, <3>3
    <3> QED
      BY <1>11, <3>1, <3>2, <3>3, Zenon
  <2>4. ASSUME NEW k \in 1..y, i = x + k, s[i] = B[k], In("Metadata", s[i])
        PROVE  /\ s[i] = s[j] => i = j
               /\ i < j => StageRank[st[s[i]]] <= StageRank[st[s[j]]]
    <3>1. CASE j \in 1..x /\ s[j] = A[j] /\ In("Data", s[j])
      <4>1. ~ (i < j)
        BY <1>8, <2>4, <3>1
      <4>2. st[s[i]] # st[s[j]]
        BY <2>2, <2>4, <3>1, Zenon
      <4> QED
        BY <4>1, <4>2
    <3>2. ASSUME NEW h \in 1..y, j = x + h, s[j] = B[h], In("Metadata", s[j])
          PROVE  /\ s[i] = s[j] => i = j
                 /\ StageRank[st[s[i]]] <= StageRank[st[s[j]]]
      BY <1>7, <1>9, <2>1, <2>4, <3>2 DEF Once
    <3>3. ASSUME NEW h \in 1..z, j = x + y + h, In("Commit", s[j])
          PROVE  s[i] # s[j] /\ StageRank[st[s[i]]] <= StageRank[st[s[j]]]
      BY <2>1, <2>2, <2>4, <3>3
    <3> QED
      BY <1>11, <3>1, <3>2, <3>3, Zenon
  <2>5. ASSUME NEW k \in 1..z, i = x + y + k, s[i] = C[k], In("Commit", s[i])
        PROVE  /\ s[i] = s[j] => i = j
               /\ i < j => StageRank[st[s[i]]] <= StageRank[st[s[j]]]
    <3>1. CASE j \in 1..x /\ s[j] = A[j] /\ In("Data", s[j])
      <4>1. ~ (i < j)
        BY <1>8, <2>5, <3>1
      <4>2. st[s[i]] # st[s[j]]
        BY <2>2, <2>5, <3>1, Zenon
      <4> QED
        BY <4>1, <4>2
    <3>2. ASSUME NEW h \in 1..y, j = x + h, In("Metadata", s[j])
          PROVE  s[i] # s[j] /\ ~ (i < j)
      <4>1. ~ (i < j)
        BY <1>8, <2>5, <3>2
      <4>2. st[s[i]] # st[s[j]]
        BY <2>2, <2>5, <3>2, Zenon
      <4> QED
        BY <4>1, <4>2
    <3>3. ASSUME NEW h \in 1..z, j = x + y + h, s[j] = C[h], In("Commit", s[j])
          PROVE  /\ s[i] = s[j] => i = j
                 /\ StageRank[st[s[i]]] <= StageRank[st[s[j]]]
      BY <1>7, <1>9, <2>1, <2>5, <3>3 DEF Once
    <3> QED
      BY <1>11, <3>1, <3>2, <3>3, Zenon
  <2> QED
    BY <1>11, <2>3, <2>4, <2>5, Zenon
<1> QED
  BY <1>8, <1>12, <1>13, <1>14, Zenon DEF Once

-----------------------------------------------------------------------------
(***************************************************************************)
(* The two conditions on a plan, put for lists of any kind.                *)
(***************************************************************************)
Fits(a, end) ==
  /\ a.order \in Seq(Nat) /\ a.readback \in Seq(Nat)
  /\ a.readback # << >>
  /\ StrictlyIncreasing(a.readback)
  /\ \A l : Member(a.order, l) <=> Member(a.readback, l)
  /\ Once(a.order)
  /\ \A i \in 1..Len(a.order) : a.order[i] < end

LEMMA FittingPlanRollsBack ==
  ASSUME NEW r, NEW a, Fits(a, TargetEnd(r))
  PROVE  CanBeRolledBack(r, a)
<1>1. Written(a) = ReadBack(a)
  BY DEF Fits, Member, Written, ReadBack
<1>2. \A l \in Written(a) : l < TargetEnd(r)
  BY DEF Fits, Written
<1> QED
  BY <1>1, <1>2 DEF Fits, Once, CanBeRolledBack

\* An order of sectors in D by their stages, the MBR last.
InStages(order, D, st) ==
  /\ \A i \in 1..Len(order) : order[i] \in D
  /\ \A i, j \in 1..Len(order) : i < j => StageRank[st[order[i]]] <= StageRank[st[order[j]]]
  /\ \A i \in 1..Len(order) : order[i] = 0 => i = Len(order)

\* A plan of known stages: what execute_write_transaction passes on.
LEMMA PlannedFits ==
  ASSUME NEW D, D \subseteq Nat, NEW st \in [D -> Stages],
         \A l \in D : st[l] = "Commit" <=> l = 0,
         NEW total \in Nat, NEW a, a = Planned(st, total), a.kind = "Run"
  PROVE  Fits(a, total) /\ InStages(a.order, D, st)
<1>1. /\ ~ \E l \in D : l >= total
      /\ D # {} /\ a = Run(OrderedLbas(st), Ascending(D))
  BY SMT DEF Planned, Rejected, Nothing
<1>2. D \subseteq 0..total - 1
  BY <1>1
<1>3. IsFiniteSet(D)
  <2>1. 0 \in Int /\ total - 1 \in Int
    OBVIOUS
  <2>2. IsFiniteSet(0..total - 1)
    BY <2>1, FS_Interval, Zenon
  <2> QED
    BY <1>2, <2>2, FS_Subset, Zenon
<1>4. PICK s, b : s = a.order /\ b = a.readback
  OBVIOUS
<1>5. s = OrderedLbas(st) /\ b = Ascending(D)
  BY <1>1, <1>4 DEF Run
<1>6. /\ s \in Seq(Nat)
      /\ \A i \in 1..Len(s) : s[i] \in D
      /\ \A l \in D : Member(s, l)
      /\ Once(s)
      /\ \A i, j \in 1..Len(s) : i < j => StageRank[st[s[i]]] <= StageRank[st[s[j]]]
  BY <1>3, <1>5, StagesInOrder, Zenon
<1>7. /\ b \in Seq(Nat)
      /\ \A i \in 1..Len(b) : b[i] \in D
      /\ \A l \in D : \E i \in 1..Len(b) : b[i] = l
      /\ StrictlyIncreasing(b)
  <2>1. Lists(b, D)
    BY <1>3, <1>5, AscendingSorts, Zenon
  <2> QED
    BY <2>1 DEF Lists
<1>8. \A l : Member(s, l) <=> Member(b, l)
  BY <1>6, <1>7 DEF Member
<1>9. b # << >>
  BY <1>1, <1>7
<1>10. \A i \in 1..Len(s) : s[i] < total
  BY <1>2, <1>6
<1>11. ASSUME NEW i \in 1..Len(s), s[i] = 0 PROVE i = Len(s)
  <2>1. Len(s) \in 1..Len(s) /\ i <= Len(s) /\ i \in Nat /\ Len(s) \in Nat
    BY <1>6
  <2>2. CASE i < Len(s)
    <3>1. StageRank[st[s[i]]] = 3
      BY <1>6, <1>11 DEF StageRank
    <3>2. StageRank[st[s[i]]] <= StageRank[st[s[Len(s)]]]
      BY <1>6, <2>1, <2>2, Zenon
    <3>3. s[Len(s)] \in D /\ st[s[Len(s)]] \in Stages
      BY <1>6, <2>1
    <3>4. 3 <= StageRank[st[s[Len(s)]]]
      BY <3>1, <3>2
    <3>5. st[s[Len(s)]] = "Commit"
      BY <3>3, <3>4 DEF StageRank, Stages
    <3>6. s[Len(s)] = 0
      BY <3>3, <3>5
    <3> QED
      BY <1>6, <1>11, <2>1, <3>6 DEF Once
  <2> QED
    BY <2>1, <2>2
<1>12. InStages(s, D, st)
  BY <1>6, <1>11, Zenon DEF InStages
<1>13. Fits(a, total)
  BY <1>4, <1>6, <1>7, <1>8, <1>9, <1>10, Zenon DEF Fits
<1> QED
  BY <1>4, <1>12, <1>13, Zenon

LEMMA StagedPlanIsSound ==
  ASSUME NEW r, NEW D, D \subseteq Nat, NEW st \in [D -> Stages],
         \A l \in D : st[l] = "Commit" <=> l = 0,
         \A l \in D : Stage(r, l) = st[l],
         TargetEnd(r) \in Nat, NEW a, a = Planned(st, TargetEnd(r)), a.kind = "Run"
  PROVE  CanBeRolledBack(r, a) /\ DataThenMetadataThenMbr(r, a)
<1>1. PICK end \in Nat : end = TargetEnd(r)
  OBVIOUS
<1>2. Fits(a, end) /\ InStages(a.order, D, st)
  BY <1>1, PlannedFits, Zenon
<1>3. \A i \in 1..Len(a.order) : Stage(r, a.order[i]) = st[a.order[i]]
  BY <1>2, Zenon DEF InStages
<1>4. DataThenMetadataThenMbr(r, a)
  BY <1>2, <1>3, Zenon DEF InStages, DataThenMetadataThenMbr
<1> QED
  BY <1>1, <1>2, <1>4, FittingPlanRollsBack, Zenon

MetadataStages(P) == [l \in P |-> MetadataStage(l)]

LEMMA MetadataStaging ==
  ASSUME NEW P, P \subseteq Nat
  PROVE  /\ MetadataStages(P) \in [P -> Stages]
         /\ \A l \in P : MetadataStages(P)[l] = "Commit" <=> l = 0
         /\ \A l \in P : MetadataStages(P)[l] = MetadataStage(l)
BY DEF MetadataStages, MetadataStage, Stages

LEMMA MetadataPlanIsSound ==
  ASSUME NEW r, IsRequest(r), r.entry = "metadata",
         NEW a, a = MetadataPlan(r), a.kind = "Run"
  PROVE  CanBeRolledBack(r, a) /\ DataThenMetadataThenMbr(r, a)
<1>1. r.patch \subseteq Nat
  BY DEF IsRequest
<1>2. TargetEnd(r) = MetadataLast + 1 /\ TargetEnd(r) \in Nat
  BY DEF TargetEnd, MetadataLast
<1>3. a = Planned(MetadataStages(r.patch), TargetEnd(r))
  BY <1>2 DEF MetadataPlan, Rejected, MetadataStages
<1>4. \A l \in r.patch : Stage(r, l) = MetadataStages(r.patch)[l]
  BY <1>1, MetadataStaging DEF Stage
<1> QED
  BY <1>1, <1>2, <1>3, <1>4, MetadataStaging, StagedPlanIsSound

\* ProvisionPlan is asked by provisioning requests and by targets.
LEMMA ProvisionPlanIsSound ==
  ASSUME NEW r, r.entry \in {"provision", "target"}, r.total \in Nat,
         NEW q, q.patch \subseteq Nat, q.total = r.total,
         NEW a, a = ProvisionPlan(q), a.kind = "Run"
  PROVE  CanBeRolledBack(r, a) /\ DataThenMetadataThenMbr(r, a)
<1>1. TargetEnd(r) = r.total
  BY DEF TargetEnd
<1>2. a = Planned(MetadataStages(q.patch), TargetEnd(r))
  BY <1>1 DEF ProvisionPlan, Rejected, MetadataStages
<1>3. \A l \in q.patch : Stage(r, l) = MetadataStages(q.patch)[l]
  BY MetadataStaging DEF Stage
<1> QED
  BY <1>1, <1>2, <1>3, MetadataStaging, StagedPlanIsSound

LEMMA PlainPlanIsSound ==
  ASSUME NEW r, IsRequest(r), r.entry = "plain",
         NEW a, a = PlainPlan(r), a.kind = "Run"
  PROVE  CanBeRolledBack(r, a) /\ DataThenMetadataThenMbr(r, a)
<1>1. /\ r.total \in Nat /\ DOMAIN r.owner \subseteq Nat
      /\ r.owner \in [DOMAIN r.owner -> Owners]
      /\ \A l \in DOMAIN r.owner : r.owner[l] = "Mbr" <=> l = 0
  BY DEF IsRequest
<1>2. PICK D, st : D = DOMAIN r.owner /\ st = [l \in D |-> OwnerStage(r.owner[l])]
  OBVIOUS
<1>3. TargetEnd(r) = r.total
  BY DEF TargetEnd
<1>4. a = Planned(st, TargetEnd(r))
  BY <1>2, <1>3 DEF PlainPlan
<1>5. /\ st \in [D -> Stages]
      /\ \A l \in D : st[l] = "Commit" <=> l = 0
      /\ \A l \in D : Stage(r, l) = st[l]
  BY <1>1, <1>2 DEF OwnerStage, Owners, Stages, Stage
<1> QED
  BY <1>1, <1>2, <1>3, <1>4, <1>5, StagedPlanIsSound

-----------------------------------------------------------------------------
(***************************************************************************)
(* The borrowed lists.                                                     *)
(***************************************************************************)
LEMMA FormatPlanIsSound ==
  ASSUME NEW r, NEW q, r.entry \in {"format", "target"},
         r.entry = "target" => q.start >= ReserveEnd,
         q.start \in Nat, q.end \in Nat, q.total \in Nat, q.total = r.total,
         q.writes \in Seq(Nat),
         NEW a, a = FormatPlan(q), a.kind = "Run"
  PROVE  CanBeRolledBack(r, a) /\ DataThenMetadataThenMbr(r, a)
<1>1. PICK w : w = q.writes
  OBVIOUS
<1>2. /\ w \in Seq(Nat) /\ w # << >>
      /\ q.start >= FirstFormatLba(q.layout)
      /\ q.end <= q.total
      /\ Within(w, q.start, q.end) /\ StrictlyIncreasing(w)
      /\ a.order = w /\ a.readback = w
  <2>1. a # Rejected /\ a # Nothing
    BY DEF Rejected, Nothing
  <2>2. /\ ~ (q.start < FirstFormatLba(q.layout))
        /\ ~ (q.end > q.total)
        /\ Within(w, q.start, q.end) /\ StrictlyIncreasing(w)
        /\ w # << >> /\ a = Run(w, w)
    BY <1>1, <2>1, Zenon DEF FormatPlan
  <2>3. FirstFormatLba(q.layout) \in Nat
    BY DEF FirstFormatLba, ReserveEnd
  <2>4. a.order = w /\ a.readback = w
    BY <2>2 DEF Run
  <2> QED
    BY <1>1, <2>2, <2>3, <2>4
<1>3. Once(w)
  BY <1>2, IncreasingOnce
<1>4. ASSUME NEW i \in 1..Len(w)
      PROVE  /\ w[i] \in Nat /\ w[i] # 0 /\ w[i] < q.total /\ q.start <= w[i] /\ w[i] < q.end
             /\ StageRank[Stage(r, w[i])] = 1
  <2>0. StageRank["Data"] = 1
    BY DEF StageRank
  <2>1. w[i] \in Nat /\ q.start <= w[i] /\ w[i] < q.end
    BY <1>2 DEF Within
  <2>2. q.start >= 1
    BY <1>2 DEF FirstFormatLba, ReserveEnd
  <2>3. ASSUME r.entry = "format"
        PROVE  StageRank[Stage(r, w[i])] = 1
    <3>1. Stage(r, w[i]) = "Data"
      BY <2>3 DEF Stage
    <3> QED
      BY <2>0, <3>1
  <2>4. ASSUME r.entry = "target"
        PROVE  StageRank[Stage(r, w[i])] = 1
    <3>1. q.start >= 63
      BY <2>4 DEF ReserveEnd
    <3>2. w[i] # 0 /\ ~ (w[i] <= MetadataLast)
      BY <2>1, <3>1 DEF MetadataLast
    <3>3. MetadataStage(w[i]) = "Data"
      BY <3>2, Zenon DEF MetadataStage
    <3>4. Stage(r, w[i]) = "Data"
      BY <2>4, <3>3 DEF Stage
    <3> QED
      BY <2>0, <3>4
  <2>5. w[i] # 0 /\ w[i] < q.total
    BY <1>2, <2>1, <2>2
  <2> QED
    BY <2>1, <2>3, <2>4, <2>5
<1>5. Fits(a, TargetEnd(r))
  <2>1. TargetEnd(r) = q.total
    BY DEF TargetEnd
  <2> QED
    BY <1>2, <1>3, <1>4, <2>1 DEF Fits
<1>6. DataThenMetadataThenMbr(r, a)
  <2>1. \A i, j \in 1..Len(w) : StageRank[Stage(r, w[i])] <= StageRank[Stage(r, w[j])]
    BY <1>4
  <2> QED
    BY <1>2, <1>4, <2>1, Zenon DEF DataThenMetadataThenMbr
<1> QED
  BY <1>5, <1>6, FittingPlanRollsBack

LEMMA FormatPlanStays ==
  ASSUME NEW r, IsRequest(r), r.entry = "format",
         NEW a, a = FormatPlan(r), a.kind = "Run"
  PROVE  WithinScope(r, a)
<1>1. /\ r.start \in Nat /\ r.end \in Nat /\ r.total \in Nat
      /\ r.layout \in {"Edp", "Plain"} /\ r.writes \in Seq(Nat)
  BY DEF IsRequest
<1>2. /\ r.start >= FirstFormatLba(r.layout)
      /\ ~ (r.layout = "Plain" /\ r.start <= VendorLba /\ r.end > VendorLba)
      /\ Within(r.writes, r.start, r.end)
      /\ a.order = r.writes
  <2>1. a # Rejected /\ a # Nothing
    BY DEF Rejected, Nothing
  <2>2. /\ ~ (r.start < FirstFormatLba(r.layout))
        /\ ~ (r.layout = "Plain" /\ r.start <= VendorLba /\ r.end > VendorLba)
        /\ Within(r.writes, r.start, r.end)
        /\ a = Run(r.writes, r.writes)
    BY <2>1, Zenon DEF FormatPlan
  <2>3. FirstFormatLba(r.layout) \in Nat
    BY DEF FirstFormatLba, ReserveEnd
  <2>4. a.order = r.writes
    BY <2>2 DEF Run
  <2> QED
    BY <1>1, <2>2, <2>3, <2>4
<1>3. ASSUME NEW l \in Written(a)
      PROVE  l \in Nat /\ r.start <= l /\ l < r.end
  BY <1>1, <1>2, <1>3 DEF Written, Within
<1>4. ASSUME NEW l \in Written(a)
      PROVE  l \in r.start .. r.end - 1 /\ l # 0 /\ l # VendorLba /\ (r.layout = "Edp" => l \notin 0..62)
  <2>1. l \in Nat /\ r.start <= l /\ l < r.end
    BY <1>3
  <2>2. r.layout = "Edp" => r.start >= 63
    BY <1>2 DEF FirstFormatLba, ReserveEnd
  <2>3. r.layout = "Plain" => r.start >= 1
    BY <1>2 DEF FirstFormatLba
  <2>4. r.layout = "Plain" => ~ (r.start <= 3 /\ r.end > 3)
    BY <1>2 DEF VendorLba
  <2>5. l \in r.start .. r.end - 1 /\ l # 0
    BY <1>1, <2>1, <2>2, <2>3
  <2>6. l # 3
    BY <1>1, <2>1, <2>2, <2>4
  <2>7. r.layout = "Edp" => l \notin 0..62
    <3>1. r.start >= 63 => l >= 63
      BY <1>1, <2>1
    <3>2. l >= 63 => l \notin 0..62
      BY <2>1
    <3> QED
      BY <2>2, <3>1, <3>2
  <2> QED
    BY <2>5, <2>6, <2>7 DEF VendorLba
<1> QED
  BY <1>4 DEF WithinScope

LEMMA ReinitializePlanIsSound ==
  ASSUME NEW r, IsRequest(r), r.entry = "reinitialize",
         NEW a, a = ReinitializePlan(r), a.kind = "Run"
  PROVE  /\ CanBeRolledBack(r, a) /\ DataThenMetadataThenMbr(r, a)
         /\ WithinScope(r, a)
<1>1. PICK w, n : w = r.writes /\ n = Len(w)
  OBVIOUS
<1>2. /\ r.start \in Nat /\ r.sectors \in Nat /\ r.total \in Nat
      /\ w \in Seq(Nat) /\ n \in Nat
  BY <1>1 DEF IsRequest
<1>3. /\ r.start >= 63 /\ r.start + r.sectors <= r.total
      /\ Within(w, r.start, r.start + r.sectors) /\ StrictlyIncreasing(w)
      /\ a.order = w \o <<7, 12>> /\ a.readback = <<7, 12>> \o w
  <2>1. a # Rejected
    BY DEF Rejected
  <2>2. /\ ~ (r.start < ReserveEnd) /\ ~ (r.start + r.sectors > r.total)
        /\ Within(w, r.start, r.start + r.sectors) /\ StrictlyIncreasing(w)
        /\ a = Run(w \o <<7, 12>>, <<7, 12>> \o w)
    BY <1>1, <2>1, Zenon DEF ReinitializePlan
  <2>3. a.order = w \o <<7, 12>> /\ a.readback = <<7, 12>> \o w
    BY <2>2 DEF Run
  <2>4. r.start >= 63 /\ r.start + r.sectors <= r.total
    <3>1. r.start \in Nat /\ r.sectors \in Nat /\ r.total \in Nat
      BY <1>2
    <3> QED
      BY <2>2, <3>1 DEF ReserveEnd
  <2> QED
    BY <2>2, <2>3, <2>4, Zenon
<1>4. PICK s, b : s = a.order /\ b = a.readback
  OBVIOUS
<1>5. /\ s \in Seq(Nat) /\ Len(s) = n + 2
      /\ \A i \in 1..n : s[i] = w[i]
      /\ s[n + 1] = 7 /\ s[n + 2] = 12
  BY <1>1, <1>2, <1>3, <1>4
<1>6. /\ b \in Seq(Nat) /\ Len(b) = n + 2
      /\ \A i \in 1..n : b[i + 2] = w[i]
      /\ b[1] = 7 /\ b[2] = 12
  BY <1>1, <1>2, <1>3, <1>4
<1>7. \A i \in 1..n : w[i] \in Nat /\ r.start <= w[i] /\ w[i] - r.start < r.sectors /\ 63 <= w[i] /\ w[i] < r.total
  <2> SUFFICES ASSUME NEW i \in 1..n
               PROVE  /\ w[i] \in Nat /\ r.start <= w[i] /\ w[i] - r.start < r.sectors
                      /\ 63 <= w[i] /\ w[i] < r.total
    OBVIOUS
  <2>1. w[i] \in Nat
    BY <1>1, <1>2
  <2>2. r.start <= w[i] /\ w[i] < r.start + r.sectors
    BY <1>1, <1>3 DEF Within
  <2>3. /\ r.start \in Nat /\ r.sectors \in Nat /\ r.total \in Nat
        /\ r.start >= 63 /\ r.start + r.sectors <= r.total
    BY <1>2, <1>3
  <2> QED
    BY <2>1, <2>2, <2>3
<1>8. \A i, j \in 1..n : i < j => w[i] < w[j]
  BY <1>1, <1>3 DEF StrictlyIncreasing
<1>9. StrictlyIncreasing(b)
  <2> SUFFICES ASSUME NEW i \in 1..n + 2, NEW j \in 1..n + 2, i < j PROVE b[i] < b[j]
    BY <1>2, <1>6 DEF StrictlyIncreasing
  <2>1. CASE i <= 2 /\ j <= 2
    <3>1. i = 1 /\ j = 2
      BY <1>2, <2>1
    <3> QED
      BY <1>6, <3>1
  <2>2. CASE i <= 2 /\ j > 2
    <3>1. j - 2 \in 1..n /\ b[j] = w[j - 2]
      <4>1. PICK k : k = j - 2
        OBVIOUS
      <4>2. k \in 1..n /\ k + 2 = j
        BY <1>2, <2>2, <4>1
      <4>3. b[k + 2] = w[k]
        BY <1>6, <4>2
      <4> QED
        BY <4>1, <4>2, <4>3
    <3>2. b[j] >= 63 /\ b[j] \in Nat
      BY <1>7, <3>1
    <3>3. i = 1 \/ i = 2
      BY <1>2, <2>2
    <3>4. b[i] = 7 \/ b[i] = 12
      BY <1>6, <3>3
    <3> QED
      BY <3>2, <3>4
  <2>3. CASE i > 2 /\ j > 2
    <3>1. PICK k, h : k = i - 2 /\ h = j - 2
      OBVIOUS
    <3>2. k \in 1..n /\ h \in 1..n /\ k < h /\ k + 2 = i /\ h + 2 = j
      BY <1>2, <2>3, <3>1
    <3>3. b[k + 2] = w[k] /\ b[h + 2] = w[h] /\ w[k] < w[h]
      BY <1>6, <1>8, <3>2
    <3> QED
      BY <3>2, <3>3
  <2> QED
    BY <2>1, <2>2, <2>3, <1>2
<1>10. ASSUME NEW i \in 1..n + 2
       PROVE  \/ i \in 1..n /\ s[i] = w[i] /\ s[i] \in Nat /\ s[i] >= 63
              \/ i = n + 1 /\ s[i] = 7
              \/ i = n + 2 /\ s[i] = 12
  BY <1>2, <1>5, <1>7
<1>11. Once(s)
  <2> SUFFICES ASSUME NEW i \in 1..n + 2, NEW j \in 1..n + 2, s[i] = s[j] PROVE i = j
    BY <1>5 DEF Once
  <2>0. s[i] = s[j]
    OBVIOUS
  <2>1. CASE i \in 1..n /\ j \in 1..n
    <3>0. s[i] = w[i] /\ s[j] = w[j] /\ w[i] \in Nat /\ w[j] \in Nat
      BY <1>5, <1>7, <2>1
    <3>2. (i < j => w[i] < w[j]) /\ (j < i => w[j] < w[i])
      BY <1>8, <2>1, Zenon
    <3>3. w[i] = w[j]
      BY <2>0, <3>0, Zenon
    <3>1. ~ (i < j) /\ ~ (j < i)
      BY <3>0, <3>2, <3>3
    <3> QED
      BY <1>2, <2>1, <3>1
  <2> QED
    BY <1>2, <1>10, <2>1
<1>12. \A l : Member(s, l) <=> l \in {7, 12} \/ \E i \in 1..n : w[i] = l
  <2>1. \A i \in 1..n : i \in 1..Len(s)
    BY <1>2, <1>5
  <2>2. n + 1 \in 1..Len(s) /\ n + 2 \in 1..Len(s)
    BY <1>2, <1>5
  <2> QED
    BY <1>5, <1>10, <2>1, <2>2 DEF Member
<1>13. \A l : Member(b, l) <=> l \in {7, 12} \/ \E i \in 1..n : w[i] = l
  <2>1. \A i \in 1..n : i + 2 \in 1..Len(b)
    BY <1>2, <1>6
  <2>2. 1 \in 1..Len(b) /\ 2 \in 1..Len(b)
    BY <1>2, <1>6
  <2>3. ASSUME NEW i \in 1..Len(b) PROVE b[i] \in {7, 12} \/ \E k \in 1..n : b[i] = w[k]
    <3>1. CASE i <= 2
      BY <1>2, <1>6, <3>1
    <3>2. CASE i > 2
      <4>1. PICK k : k = i - 2
        OBVIOUS
      <4>2. k \in 1..n /\ k + 2 = i
        BY <1>2, <1>6, <3>2, <4>1
      <4> QED
        BY <1>6, <4>2
    <3> QED
      BY <1>2, <1>6, <3>1, <3>2
  <2>4. Member(b, 7) /\ Member(b, 12)
    BY <1>6, <2>2, Zenon DEF Member
  <2>5. \A k \in 1..n : Member(b, w[k])
    BY <1>6, <2>1, Zenon DEF Member
  <2>6. ASSUME NEW l, Member(b, l) PROVE l \in {7, 12} \/ \E i \in 1..n : w[i] = l
    <3>1. PICK i \in 1..Len(b) : b[i] = l
      BY <2>6, Zenon DEF Member
    <3> QED
      BY <2>3, <3>1
  <2> QED
    BY <2>4, <2>5, <2>6
<1>14. Fits(a, TargetEnd(r))
  <2>1. TargetEnd(r) = r.total
    BY DEF TargetEnd
  <2>2. ASSUME NEW i \in 1..Len(s) PROVE s[i] < r.total
    <3>1. i \in 1..n + 2
      BY <1>5
    <3>2. \/ i \in 1..n /\ s[i] = w[i]
          \/ s[i] = 7
          \/ s[i] = 12
      BY <1>10, <3>1
    <3>3. r.total >= 63
      BY <1>2, <1>3
    <3> QED
      BY <1>2, <1>7, <3>2, <3>3
  <2>3. b # << >>
    BY <1>2, <1>6
  <2>4. \A l : Member(s, l) <=> Member(b, l)
    BY <1>12, <1>13
  <2> QED
    BY <1>4, <1>5, <1>6, <1>9, <1>11, <2>1, <2>2, <2>3, <2>4 DEF Fits
<1>15. DataThenMetadataThenMbr(r, a)
  <2>1. \A l \in Nat : StageRank[Stage(r, l)] = IF l = 0 THEN 3 ELSE IF l <= 12 THEN 2 ELSE 1
    BY DEF Stage, MetadataStage, MetadataLast, StageRank
  <2>2. \A i \in 1..n : StageRank[Stage(r, s[i])] = 1
    BY <1>2, <1>10, <2>1
  <2>3. StageRank[Stage(r, s[n + 1])] = 2 /\ StageRank[Stage(r, s[n + 2])] = 2
    BY <1>5, <2>1
  <2>4. ASSUME NEW i \in 1..n + 2, NEW j \in 1..n + 2, i < j
        PROVE  StageRank[Stage(r, s[i])] <= StageRank[Stage(r, s[j])]
    <3>1. i \in 1..n \/ (i = n + 1 /\ j = n + 2)
      BY <1>2, <2>4
    <3>2. j \in 1..n \/ j = n + 1 \/ j = n + 2
      BY <1>2
    <3>3. StageRank[Stage(r, s[j])] \in {1, 2}
      BY <2>2, <2>3, <3>2
    <3> QED
      BY <2>2, <2>3, <3>1, <3>3
  <2>5. \A i \in 1..n + 2 : s[i] # 0
    BY <1>10
  <2> QED
    BY <1>4, <1>5, <2>4, <2>5 DEF DataThenMetadataThenMbr
<1>16. WithinScope(r, a)
  <2>1. Written(a) = {l \in Nat : Member(s, l)}
    BY <1>4, <1>5 DEF Written, Member
  <2>2. Written(a) \cap 0..62 = {7, 12}
    BY <1>7, <1>12, <2>1
  <2>3. \A l \in Written(a) \ {7, 12} : l >= r.start /\ l - r.start < r.sectors
    BY <1>2, <1>7, <1>12, <2>1
  <2> QED
    BY <2>2, <2>3 DEF WithinScope
<1> QED
  BY <1>14, <1>15, <1>16, FittingPlanRollsBack
-----------------------------------------------------------------------------
(***************************************************************************)
(* The layout: every partition of the mode has an extent, the others none. *)
(***************************************************************************)
Extents == [start : Int, count : Int]
Sizes == Nat \union {None}
ExtentsUnless(absent) == IF absent THEN {None} ELSE Extents

IsLayout(mode, l) ==
  /\ l.boot \in ExtentsUnless(mode = "BootShareCombined")
  /\ l.share \in ExtentsUnless(mode = "WholeDiskEncrypted")
  /\ l.encrypt \in ExtentsUnless(mode = "IntranetExtranetDualPartition")

Modes == {"DefaultThreePartition", "BootShareCombined", "WholeDiskEncrypted",
          "IntranetExtranetDualPartition"}

LEMMA ModesOfRoles == DOMAIN Roles = Modes
BY DEF Roles, Modes

LEMMA NoneIsNoExtent == None \notin Extents
BY NoneIsNothing DEF Extents

LEMMA PrefillIsLayout ==
  ASSUME NEW old, IsSource(old), NEW mode \in Modes, NEW usable \in Nat
  PROVE  IsLayout(mode, Prefill(old, mode, usable))
<1> DEFINE
  was(role)  == IF role \in DOMAIN old THEN old[role] ELSE None
  keepsBoot  == mode \in {"DefaultThreePartition", "IntranetExtranetDualPartition"}
  combined   == mode = "BootShareCombined"
  whole      == mode = "WholeDiskEncrypted"
  dual       == mode = "IntranetExtranetDualPartition"
  oldBoot    == was("Boot")
  oldEncrypt == was("Encrypt")
  oldShare   == was(IF combined THEN "BootShareCombined" ELSE "Share")
  bootStart  == IF oldBoot # None THEN oldBoot.start ELSE First
  bootCount  == IF whole THEN CompatBoot
                ELSE IF keepsBoot /\ oldBoot # None THEN oldBoot.count
                ELSE DefaultBoot
  boot       == [start |-> bootStart, count |-> bootCount]
  bootEnd    == IF combined THEN First ELSE End(boot)
  anchored   == /\ oldEncrypt # None
                /\ ~ dual
                /\ IF whole THEN oldEncrypt.start >= bootEnd ELSE oldEncrypt.start > bootEnd
  encryptCount == IF anchored THEN oldEncrypt.count ELSE DefaultEncrypt
  shareStart == IF oldShare # None THEN oldShare.start ELSE bootEnd
  boundary   == CASE anchored -> oldEncrypt.start
                  [] dual -> usable
                  [] OTHER -> usable - encryptCount
  room       == boundary - shareStart
  squeezed   == /\ mode = "DefaultThreePartition" /\ ~ anchored
                /\ usable - End(oldShare) < DefaultEncrypt
  shareCount == CASE oldShare = None -> IF DOMAIN old # {} THEN room ELSE (room \div MiB) * MiB
                  [] OTHER -> IF squeezed THEN room ELSE oldShare.count
  encryptStart == IF anchored THEN oldEncrypt.start
                  ELSE IF whole THEN bootEnd
                  ELSE shareStart + shareCount
  lastCount  == IF whole /\ ~ anchored THEN usable - encryptStart ELSE encryptCount
  share      == [start |-> shareStart, count |-> shareCount]
  encrypt    == [start |-> encryptStart, count |-> lastCount]
<1>1. Prefill(old, mode, usable) =
        [boot    |-> IF combined THEN None ELSE boot,
         share   |-> IF whole THEN None ELSE share,
         encrypt |-> IF dual THEN None ELSE encrypt]
  BY DEF Prefill
<1>2. First \in Int /\ DefaultBoot \in Int /\ CompatBoot \in Int /\ DefaultEncrypt \in Int /\ MiB \in Nat \ {0}
  BY SizesArePositive
<1>3. ASSUME NEW role, was(role) # None
      PROVE  was(role).start \in Int /\ was(role).count \in Int
  BY <1>3 DEF IsSource
<1>4. /\ oldBoot # None => oldBoot.start \in Int /\ oldBoot.count \in Int
      /\ oldEncrypt # None => oldEncrypt.start \in Int /\ oldEncrypt.count \in Int
      /\ oldShare # None => oldShare.start \in Int /\ oldShare.count \in Int
  BY <1>3, Zenon
<1> HIDE DEF was, oldBoot, oldEncrypt, oldShare
<1>5. bootStart \in Int /\ bootCount \in Int
  BY <1>2, <1>4
<1> HIDE DEF bootStart, bootCount
<1>6. boot \in Extents /\ End(boot) \in Int
  BY <1>5 DEF Extents, End
<1> HIDE DEF boot
<1>7. bootEnd \in Int
  BY <1>2, <1>6
<1> HIDE DEF bootEnd
<1>8. anchored => oldEncrypt # None
  OBVIOUS
<1> HIDE DEF anchored
<1>9. encryptCount \in Int /\ shareStart \in Int
  BY <1>2, <1>4, <1>7, <1>8
<1> HIDE DEF encryptCount, shareStart
<1>10. boundary \in Int
  BY <1>4, <1>8, <1>9
<1> HIDE DEF boundary
<1>11. room \in Int
  BY <1>9, <1>10
<1> HIDE DEF room
<1>12. (room \div MiB) * MiB \in Int
  <2>1. room \div MiB \in Int
    BY <1>2, <1>11
  <2> QED
    BY <1>2, <2>1
<1> HIDE DEF squeezed
<1>13. shareCount \in Int
  BY <1>4, <1>11, <1>12
<1> HIDE DEF shareCount
<1>14. encryptStart \in Int
  BY <1>4, <1>7, <1>8, <1>9, <1>13
<1> HIDE DEF encryptStart
<1>15. lastCount \in Int
  BY <1>9, <1>14
<1> HIDE DEF lastCount
<1>16. share \in Extents /\ encrypt \in Extents
  BY <1>9, <1>13, <1>14, <1>15 DEF Extents
<1> HIDE DEF share, encrypt
<1> QED
  BY <1>1, <1>6, <1>16 DEF IsLayout, ExtentsUnless

LEMMA EditIsExtent ==
  ASSUME NEW e \in Extents, NEW count \in Sizes, NEW start \in Sizes
  PROVE  Edit(e, count, start) \in Extents
<1>1. e # None
  BY NoneIsNoExtent
<1>2. Or(start, e.start) \in Int /\ Or(count, e.count) \in Int
  BY DEF Or, Sizes, Extents
<1> QED
  BY <1>1, <1>2 DEF Edit, Extents

LEMMA OverriddenIsLayout ==
  ASSUME NEW old, NEW mode \in Modes, NEW edits, IsGeometry(edits),
         NEW l, IsLayout(mode, l)
  PROVE  IsLayout(mode, Overridden(l, old, mode, edits))
<1>1. /\ edits.boot \in Sizes /\ edits.share \in Sizes /\ edits.encrypt \in Sizes
      /\ edits.bootStart \in Sizes /\ edits.shareStart \in Sizes /\ edits.encryptStart \in Sizes
  BY DEF IsGeometry, Sizes
<1>2. PICK boot, share0, encrypt0 :
           /\ boot = Edit(l.boot, edits.boot, edits.bootStart)
           /\ share0 = Edit(l.share, edits.share, edits.shareStart)
           /\ encrypt0 = Edit(l.encrypt, edits.encrypt, edits.encryptStart)
  OBVIOUS
<1>3. \A count, start : Edit(None, count, start) = None
  BY DEF Edit
<1>4. /\ boot \in ExtentsUnless(mode = "BootShareCombined")
      /\ share0 \in ExtentsUnless(mode = "WholeDiskEncrypted")
      /\ encrypt0 \in ExtentsUnless(mode = "IntranetExtranetDualPartition")
  <2>1. boot \in ExtentsUnless(mode = "BootShareCombined")
    BY <1>1, <1>2, <1>3, EditIsExtent DEF IsLayout, ExtentsUnless
  <2>2. share0 \in ExtentsUnless(mode = "WholeDiskEncrypted")
    BY <1>1, <1>2, <1>3, EditIsExtent DEF IsLayout, ExtentsUnless
  <2>3. encrypt0 \in ExtentsUnless(mode = "IntranetExtranetDualPartition")
    BY <1>1, <1>2, <1>3, EditIsExtent DEF IsLayout, ExtentsUnless
  <2> QED
    BY <2>1, <2>2, <2>3
<1>5. ASSUME NEW e \in Extents, NEW s \in Int
      PROVE  [e EXCEPT !.start = s] \in Extents
  BY DEF Extents
<1>6. ASSUME NEW e \in Extents PROVE End(e) \in Int
  BY DEF End, Extents
<1>7. PICK follows, share :
           /\ follows = (/\ share0 # None /\ edits.shareStart = None
                         /\ "Share" \notin DOMAIN old /\ mode # "BootShareCombined")
           /\ share = IF follows THEN [share0 EXCEPT !.start = End(boot)] ELSE share0
  OBVIOUS
<1>8. share \in ExtentsUnless(mode = "WholeDiskEncrypted")
  BY <1>4, <1>5, <1>6, <1>7 DEF ExtentsUnless
<1>9. PICK trails, front :
           /\ trails = (/\ encrypt0 # None /\ edits.encryptStart = None
                        /\ "Encrypt" \notin DOMAIN old)
           /\ front = IF mode = "WholeDiskEncrypted" THEN boot ELSE share
  OBVIOUS
<1>10. front \in Extents
  BY <1>4, <1>8, <1>9 DEF ExtentsUnless
<1>11. PICK encrypt : encrypt = IF trails THEN [encrypt0 EXCEPT !.start = End(front)] ELSE encrypt0
  OBVIOUS
<1>12. encrypt \in ExtentsUnless(mode = "IntranetExtranetDualPartition")
  BY <1>4, <1>5, <1>6, <1>9, <1>10, <1>11 DEF ExtentsUnless
<1>13. Overridden(l, old, mode, edits) = [boot |-> boot, share |-> share, encrypt |-> encrypt]
  BY <1>2, <1>7, <1>9, <1>11, Zenon DEF Overridden
<1> QED
  BY <1>4, <1>8, <1>12, <1>13 DEF IsLayout

\* The partitions of a mode, and that a layout places each of them.
LEMMA RolesOfModes ==
  ASSUME NEW mode \in Modes
  PROVE  /\ 1 \in DOMAIN Roles[mode] /\ DOMAIN Roles[mode] \subseteq 1..3
         /\ \A i \in DOMAIN Roles[mode] :
              Roles[mode][i] \in {"Boot", "Share", "Encrypt", "BootShareCombined", "CompatibilityReserve"}
         /\ \A i, j \in DOMAIN Roles[mode] : Roles[mode][i] = Roles[mode][j] => i = j
<1>1. CASE mode = "DefaultThreePartition"
  <2>1. Roles[mode] = <<"Boot", "Share", "Encrypt">>
    BY <1>1 DEF Roles
  <2> QED
    BY <2>1
<1>2. CASE mode = "BootShareCombined"
  <2>1. Roles[mode] = <<"BootShareCombined", "Encrypt">>
    BY <1>2 DEF Roles
  <2> QED
    BY <2>1
<1>3. CASE mode = "WholeDiskEncrypted"
  <2>1. Roles[mode] = <<"CompatibilityReserve", "Encrypt">>
    BY <1>3 DEF Roles
  <2> QED
    BY <2>1
<1>4. CASE mode = "IntranetExtranetDualPartition"
  <2>1. Roles[mode] = <<"Boot", "Share">>
    BY <1>4 DEF Roles
  <2> QED
    BY <2>1
<1> QED
  BY <1>1, <1>2, <1>3, <1>4 DEF Modes

LEMMA SlotsAreExtents ==
  ASSUME NEW mode \in Modes, NEW l, IsLayout(mode, l), NEW i \in DOMAIN Roles[mode]
  PROVE  Slots(mode, l)[i] = l[Field(Roles[mode][i])] /\ Slots(mode, l)[i] \in Extents
<1>1. Slots(mode, l)[i] = l[Field(Roles[mode][i])]
  BY DEF Slots
<1>2. CASE mode = "DefaultThreePartition"
  <2>1. Roles[mode] = <<"Boot", "Share", "Encrypt">>
    BY <1>2 DEF Roles
  <2>2. Field(Roles[mode][i]) \in {"boot", "share", "encrypt"}
    BY <2>1 DEF Field
  <2> QED
    BY <1>1, <1>2, <2>2 DEF IsLayout, ExtentsUnless
<1>3. CASE mode = "BootShareCombined"
  <2>1. Roles[mode] = <<"BootShareCombined", "Encrypt">>
    BY <1>3 DEF Roles
  <2>2. Field(Roles[mode][i]) \in {"share", "encrypt"}
    BY <2>1 DEF Field
  <2> QED
    BY <1>1, <1>3, <2>2 DEF IsLayout, ExtentsUnless
<1>4. CASE mode = "WholeDiskEncrypted"
  <2>1. Roles[mode] = <<"CompatibilityReserve", "Encrypt">>
    BY <1>4 DEF Roles
  <2>2. Field(Roles[mode][i]) \in {"boot", "encrypt"}
    BY <2>1 DEF Field
  <2> QED
    BY <1>1, <1>4, <2>2 DEF IsLayout, ExtentsUnless
<1>5. CASE mode = "IntranetExtranetDualPartition"
  <2>1. Roles[mode] = <<"Boot", "Share">>
    BY <1>5 DEF Roles
  <2>2. Field(Roles[mode][i]) \in {"boot", "share"}
    BY <2>1 DEF Field
  <2> QED
    BY <1>1, <1>5, <2>2 DEF IsLayout, ExtentsUnless
<1> QED
  BY <1>2, <1>3, <1>4, <1>5 DEF Modes

LEMMA LayoutsAreTyped ==
  ASSUME NEW old, IsSource(old), NEW mode \in Modes, NEW usable \in Nat,
         NEW edits, IsGeometry(edits)
  PROVE  IsLayout(mode, Overridden(Prefill(old, mode, usable), old, mode, edits))
BY PrefillIsLayout, OverriddenIsLayout, Zenon
-----------------------------------------------------------------------------
(***************************************************************************)
(* What a valid layout says of its extents.                                *)
(***************************************************************************)
Placed(e, usable) ==
  /\ e.start \in Nat /\ e.count \in Nat \ {0}
  /\ 63 <= e.start /\ e.start + e.count <= usable

LEMMA ValidSlotsArePlaced ==
  ASSUME NEW mode \in Modes, NEW l, IsLayout(mode, l), NEW usable \in Nat,
         Valid(Slots(mode, l), usable)
  PROVE  /\ \A i \in DOMAIN Roles[mode] : Placed(Slots(mode, l)[i], usable)
         /\ \A i, j \in DOMAIN Roles[mode] :
              i # j => Disjoint(Slots(mode, l)[i], Slots(mode, l)[j])
<1>1. PICK s : s = Slots(mode, l)
  OBVIOUS
<1>2. DOMAIN s = DOMAIN Roles[mode]
  BY <1>1 DEF Slots
<1>3. \A i \in DOMAIN s : s[i].start \in Int /\ s[i].count \in Int
  BY <1>1, <1>2, SlotsAreExtents DEF Extents
<1>4. First = 63
  BY TargetsAssumption DEF ReserveEnd
<1>5. ASSUME NEW i \in DOMAIN s
      PROVE  Placed(s[i], usable)
  <2>1. s[i].count > 0 /\ s[i].start >= First /\ End(s[i]) <= usable
    BY <1>1, Zenon DEF Valid
  <2>2. s[i].start \in Int /\ s[i].count \in Int
    BY <1>3
  <2>3. s[i].start + s[i].count <= usable
    BY <2>1 DEF End
  <2> QED
    BY <1>4, <2>1, <2>2, <2>3 DEF Placed
<1>6. ASSUME NEW i \in DOMAIN s, NEW j \in DOMAIN s, i # j
      PROVE  Disjoint(s[i], s[j])
  <2>1. i \in 1..3 /\ j \in 1..3
    BY <1>2, RolesOfModes
  <2>2. CASE i < j
    BY <1>1, <2>2, Zenon DEF Valid
  <2>3. CASE j < i
    <3>1. Disjoint(s[j], s[i])
      BY <1>1, <2>3, Zenon DEF Valid
    <3> QED
      BY <3>1, Zenon DEF Disjoint
  <2> QED
    BY <1>6, <2>1, <2>2, <2>3
<1> QED
  BY <1>1, <1>2, <1>5, <1>6

-----------------------------------------------------------------------------
(***************************************************************************)
(* One partition of an accepted plan.                                      *)
(***************************************************************************)
AllRoles == {"Boot", "Share", "Encrypt", "BootShareCombined", "CompatibilityReserve"}

\* What Planning gives a partition that is neither refused for its format nor
\* for its key.
Decided(r, p) ==
  /\ p.password = None <=> Domain(p.role) = None
  /\ p.password # "Blocked"
  /\ p.password = "Rewrap" <=> p.disposition = "RewrapVerified"
  /\ p.password = "Rebuild" => p.disposition = "Rebuild"
  /\ p.password = "Passthrough" =>
       p.disposition = IF VerifiedPassword(r, p.role) = None
                       THEN "PreserveOpaque" ELSE "PreserveVerified"
  /\ Preserves(p.disposition) => ~ p.formatted
  /\ p.disposition = "Rebuild" => p.formatted \/ p.role = "CompatibilityReserve"
  /\ Domain(p.role) # None => p.material # NoRecord

LEMMA DomainsOfRoles ==
  ASSUME NEW role \in AllRoles
  PROVE  /\ Encrypted(role) => role \in {"Share", "Encrypt"} /\ Domain(role) # None
         /\ Domain(role) # None => role \in {"Share", "Encrypt", "BootShareCombined"}
BY NoneIsNothing DEF AllRoles, Encrypted, Domain, Field

\* The disposition of a partition that is not blocked.
LEMMA DispositionOfKept ==
  ASSUME NEW r, NEW role \in AllRoles, NEW e, NEW d, d = Disposition(r, role, e)
  PROVE  /\ Domain(role) # None /\ d[2] # "Blocked" =>
              /\ Kept(r, role, e) /\ d[1] # "Rebuild"
              /\ \/ /\ d[1] = "PreserveOpaque" /\ d[2] = "Passthrough"
                    /\ VerifiedPassword(r, role) = None /\ PasswordOf(r.target, role) = None
                 \/ /\ d[1] = "PreserveVerified" /\ d[2] = "Passthrough"
                    /\ VerifiedPassword(r, role) # None
                    /\ PasswordOf(r.target, role) \in {None, VerifiedPassword(r, role)}
                 \/ /\ d[1] = "RewrapVerified" /\ d[2] = "Rewrap"
                    /\ PasswordOf(r.target, role) # None
         /\ Domain(role) = None => d[2] = None /\ d[1] \in {"PreserveVerified", "Rebuild"}
<1>1. PICK asked, known : asked = PasswordOf(r.target, role) /\ known = VerifiedPassword(r, role)
  OBVIOUS
<1>2. CASE Kept(r, role, e)
  <2>1. CASE Domain(role) = None
    <3>1. d = <<"PreserveVerified", None>>
      BY <1>2, <2>1 DEF Disposition
    <3> QED
      BY <2>1, <3>1
  <2>2. CASE Domain(role) # None /\ known = None
    <3>1. d = <<"PreserveOpaque", IF asked = None THEN "Passthrough" ELSE "Blocked">>
      BY <1>1, <1>2, <2>2 DEF Disposition
    <3> QED
      BY <1>1, <1>2, <2>2, <3>1
  <2>3. CASE Domain(role) # None /\ known # None /\ asked \in {None, known}
    <3>1. d = <<"PreserveVerified", "Passthrough">>
      BY <1>1, <1>2, <2>3 DEF Disposition
    <3> QED
      BY <1>1, <1>2, <2>3, <3>1
  <2>4. CASE Domain(role) # None /\ known # None /\ asked \notin {None, known}
    <3>1. d = <<"RewrapVerified", "Rewrap">>
      BY <1>1, <1>2, <2>4 DEF Disposition
    <3> QED
      BY <1>1, <1>2, <2>4, <3>1
  <2> QED
    BY <2>1, <2>2, <2>3, <2>4
<1>3. CASE ~ Kept(r, role, e)
  <2>1. d = <<IF KeptPlain(r, role, e) THEN "PreserveVerified" ELSE "Rebuild",
              IF Domain(role) = None THEN None ELSE "Blocked">>
    BY <1>3 DEF Disposition
  <2> QED
    BY <2>1
<1> QED
  BY <1>2, <1>3

LEMMA PlanningDecides ==
  ASSUME NEW r, NEW role \in AllRoles, NEW e, NEW p, p = Planning(r, role, e),
         ~ NeedsFormat(r, p)
  PROVE  Decided(r, p)
<1>1. PICK d : d = IF Chosen(r, role) THEN Rebuilt(r, role) ELSE Disposition(r, role, e)
  OBVIOUS
<1>2. /\ p.role = role /\ p.start = e.start /\ p.count = e.count
      /\ p.disposition = d[1] /\ p.password = d[2]
      /\ p.formatted = Chosen(r, role) /\ p.material = Material(r, role, d[1])
  BY <1>1 DEF Planning
<1>3. p.password # "Blocked"
  BY DEF NeedsFormat
<1>4. p.disposition = "Rebuild" => Chosen(r, role) \/ role = "CompatibilityReserve"
  BY <1>2 DEF NeedsFormat
<1>5. None \notin {"Passthrough", "Rewrap", "Rebuild", "Blocked"}
  BY NoneIsNothing
<1>6. Domain(role) # None => p.material # NoRecord
  <2>1. \A k1, k2, k3 : KeyRecord(k1, k2, k3).key = k1
    BY DEF KeyRecord
  <2>2. Domain(role) # None => p.material.key \in {<<"old", role>>, <<"new", role>>}
    BY <1>2, <2>1 DEF Material
  <2>3. NoRecord.key = <<"none">>
    BY <2>1 DEF NoRecord
  <2>4. <<"none">> # <<"old", role>> /\ <<"none">> # <<"new", role>>
    OBVIOUS
  <2> QED
    BY <2>2, <2>3, <2>4
<1>7. CASE Chosen(r, role)
  <2>1. d = <<"Rebuild", IF Domain(role) = None THEN None ELSE "Rebuild">>
    BY <1>1, <1>7 DEF Rebuilt
  <2>2. d[1] = "Rebuild" /\ d[2] = IF Domain(role) = None THEN None ELSE "Rebuild"
    BY <2>1
  <2> QED
    BY <1>2, <1>3, <1>5, <1>6, <1>7, <2>2 DEF Decided, Preserves
<1>8. CASE ~ Chosen(r, role)
  <2>1. d = Disposition(r, role, e)
    BY <1>1, <1>8
  <2>2. CASE Domain(role) # None
    <3>1. \/ /\ d[1] = "PreserveOpaque" /\ d[2] = "Passthrough"
             /\ VerifiedPassword(r, role) = None
          \/ /\ d[1] = "PreserveVerified" /\ d[2] = "Passthrough"
             /\ VerifiedPassword(r, role) # None
          \/ /\ d[1] = "RewrapVerified" /\ d[2] = "Rewrap"
      BY <1>2, <1>3, <2>1, <2>2, DispositionOfKept
    <3> QED
      BY <1>2, <1>3, <1>5, <1>6, <1>8, <2>2, <3>1 DEF Decided, Preserves
  <2>3. CASE Domain(role) = None
    <3>1. d[2] = None /\ d[1] \in {"PreserveVerified", "Rebuild"}
      BY <2>1, <2>3, DispositionOfKept
    <3> QED
      BY <1>2, <1>3, <1>4, <1>5, <1>8, <2>3, <3>1 DEF Decided, Preserves
  <2> QED
    BY <2>2, <2>3
<1> QED
  BY <1>7, <1>8

\* A kept partition lies where the disk's partition of its role lies, and no
\* other partition of the disk does.
LEMMA KeptHasItsOwnKey ==
  ASSUME NEW r, IsSource(r.old), NEW role \in AllRoles, Encrypted(role),
         NEW e, Kept(r, role, e), NEW p,
         p.role = role, p.start = e.start, p.count = e.count, ~ p.formatted
  PROVE  ContentsKey(r, p) = <<"old", role>>
<1>1. /\ role \in DOMAIN r.old /\ r.old[role].start = e.start /\ r.old[role].count = e.count
  BY DEF Kept, Compatible
<1>2. PICK there : there = {q \in DOMAIN r.old :
                      /\ Encrypted(q)
                      /\ r.old[q].start = p.start /\ r.old[q].count = p.count}
  OBVIOUS
<1>3. ASSUME NEW q \in there PROVE q = role
  <2>1. q \in DOMAIN r.old /\ r.old[q].start = e.start /\ r.old[q].count = e.count
    BY <1>2
  <2>2. e.start \in Nat /\ e.count \in Nat \ {0}
    BY <1>1 DEF IsSource
  <2>3. q # role => Disjoint(r.old[q], r.old[role])
    BY <1>1, <2>1 DEF IsSource
  <2> QED
    BY <1>1, <2>1, <2>2, <2>3 DEF Disjoint, End
<1>4. role \in there
  BY <1>1, <1>2
<1>5. there = {role}
  BY <1>3, <1>4
<1>6. (CHOOSE q \in there : TRUE) = role /\ there # {}
  BY <1>5
<1> QED
  BY <1>2, <1>6 DEF ContentsKey

LEMMA PlanningOpensAsAsked ==
  ASSUME NEW r, IsSource(r.old), NEW role \in AllRoles, NEW e,
         NEW p, p = Planning(r, role, e), ~ NeedsFormat(r, p), ~ NoMaterial(r, p)
  PROVE  OpensAsAsked(r, p)
<1>1. PICK d : d = IF Chosen(r, role) THEN Rebuilt(r, role) ELSE Disposition(r, role, e)
  OBVIOUS
<1>2. /\ p.role = role /\ p.start = e.start /\ p.count = e.count
      /\ p.disposition = d[1] /\ p.password = d[2]
      /\ p.formatted = Chosen(r, role) /\ p.material = Material(r, role, d[1])
  BY <1>1 DEF Planning
<1>3. p.password # "Blocked"
  BY DEF NeedsFormat
<1>4. PICK asked : asked = PasswordOf(r.target, role)
  OBVIOUS
<1> SUFFICES ASSUME Domain(role) # None
             PROVE  /\ Encrypted(role) => p.material.key = ContentsKey(r, p)
                    /\ p.material.pw = IF asked # None THEN asked ELSE r.old[role].pw
  BY <1>2, <1>4, DomainsOfRoles DEF OpensAsAsked
<1>5. \A k1, k2, k3 : KeyRecord(k1, k2, k3).key = k1 /\ KeyRecord(k1, k2, k3).pw = k2
  BY DEF KeyRecord
<1>6. CASE Chosen(r, role)
  <2>1. d = <<"Rebuild", "Rebuild">>
    BY <1>1, <1>6 DEF Rebuilt
  <2>2. d[1] = "Rebuild"
    BY <2>1
  <2>3. asked # None
    BY <1>2, <1>4, <2>2 DEF NoMaterial
  <2>4. p.material = KeyRecord(<<"new", role>>, asked, asked)
    BY <1>2, <1>4, <2>2 DEF Material
  <2>5. ContentsKey(r, p) = <<"new", role>>
    BY <1>2, <1>6 DEF ContentsKey
  <2> QED
    BY <1>5, <2>3, <2>4, <2>5
<1>7. CASE ~ Chosen(r, role)
  <2>1. d = Disposition(r, role, e)
    BY <1>1, <1>7
  <2>2. /\ Kept(r, role, e)
        /\ \/ d[1] = "PreserveOpaque" /\ asked = None
           \/ /\ d[1] = "PreserveVerified" /\ VerifiedPassword(r, role) # None
              /\ asked \in {None, VerifiedPassword(r, role)}
           \/ d[1] = "RewrapVerified" /\ asked # None
    BY <1>2, <1>3, <1>4, <2>1, DispositionOfKept
  <2>3. VerifiedPassword(r, role) # None => VerifiedPassword(r, role) = r.old[role].pw
    BY DEF VerifiedPassword
  <2>4. Encrypted(role) => ContentsKey(r, p) = <<"old", role>>
    BY <1>2, <1>7, <2>2, KeptHasItsOwnKey
  <2>5. CASE d[1] \in {"PreserveOpaque", "PreserveVerified"}
    <3>1. p.material = KeyRecord(<<"old", role>>, r.old[role].pw, r.old[role].legacy)
      BY <1>2, <2>5 DEF Material
    <3>2. asked # None => asked = r.old[role].pw
      BY <2>2, <2>3, <2>5
    <3> QED
      BY <1>5, <2>4, <3>1, <3>2
  <2>6. CASE d[1] = "RewrapVerified"
    <3>1. p.material = KeyRecord(<<"old", role>>, asked, asked)
      BY <1>2, <1>4, <2>6 DEF Material
    <3> QED
      BY <1>5, <2>2, <2>4, <2>6, <3>1
  <2> QED
    BY <2>2, <2>5, <2>6
<1> QED
  BY <1>6, <1>7
-----------------------------------------------------------------------------
(***************************************************************************)
(* The plan as a whole.                                                    *)
(***************************************************************************)
PlanStands(r, parts) ==
  /\ 1 \in DOMAIN parts /\ DOMAIN parts \subseteq 1..3
  /\ r.lce + LceSectors <= r.total
  /\ \A i \in DOMAIN parts :
       /\ Placed(parts[i], r.lce)
       /\ OpensAsAsked(r, parts[i])
       /\ Preserves(parts[i].disposition) => ~ parts[i].formatted
  /\ \A i, j \in DOMAIN parts : i # j => Disjoint(parts[i], parts[j])

LEMMA PlacedOffThePatch ==
  ASSUME NEW r, r.lce \in Nat, NEW p, Placed(p, r.lce)
  PROVE  Sectors(p) \intersect Patch(r) = {}
<1> SUFFICES ASSUME NEW l, l \in Sectors(p), l \in Patch(r) PROVE FALSE
  OBVIOUS
<1>1. p.start \in Nat /\ p.count \in Nat /\ 63 <= p.start /\ p.start + p.count <= r.lce
  BY DEF Placed
<1>2. l \in Int /\ p.start <= l /\ l <= p.start + p.count - 1
  BY <1>1 DEF Sectors, End
<1>3. l <= 12 \/ l >= r.lce
  BY <1>2 DEF Patch, MetadataLast
<1> QED
  BY <1>1, <1>2, <1>3

LEMMA PreparedPlanStands ==
  ASSUME NEW r, IsTarget(r), NEW o, o = Prepare(r)
  PROVE  /\ o.kind \in {"Refused", "Ready"}
         /\ o.kind = "Ready" => PlanStands(r, o.parts)
<1>1. /\ r.mode \in Modes /\ r.lce \in Nat /\ IsSource(r.old) /\ IsGeometry(r.edits)
  BY ModesOfRoles DEF IsTarget
<1>2. PICK layout, slots, parts :
        /\ layout = Prefill(r.old, r.mode, r.lce)
        /\ slots = Slots(r.mode, Overridden(layout, r.old, r.mode, r.edits))
        /\ parts = [i \in DOMAIN slots |-> Planning(r, Roles[r.mode][i], slots[i])]
  OBVIOUS
<1> DEFINE
  Refusal == \/ ~ Valid(Slots(r.mode, layout), r.lce) \/ ~ Valid(slots, r.lce)
             \/ \E i \in DOMAIN parts : NeedsFormat(r, parts[i]) \/ NoMaterial(r, parts[i])
             \/ ~ FormatsExist(r) \/ ~ ImageFits(r, slots)
<1>3. o = IF Refusal THEN Outcome("Refused", << >>)
          ELSE Outcome(IF Consistent(r, parts) THEN "Ready" ELSE "Inconsistent", parts)
  BY <1>2, Zenon DEF Prepare
<1>4. CASE Refusal
  <2>1. o = Outcome("Refused", << >>)
    BY <1>3, <1>4, Zenon
  <2> QED
    BY <2>1 DEF Outcome
<1>5. CASE ~ Refusal
  <2>1. Valid(slots, r.lce) /\ ImageFits(r, slots)
    BY <1>5, Zenon
  <2>2. IsLayout(r.mode, Overridden(layout, r.old, r.mode, r.edits))
    BY <1>1, <1>2, LayoutsAreTyped, Zenon
  <2>3. DOMAIN slots = DOMAIN Roles[r.mode] /\ DOMAIN parts = DOMAIN Roles[r.mode]
    BY <1>2 DEF Slots
  <2>4. /\ \A i \in DOMAIN Roles[r.mode] : Placed(slots[i], r.lce)
        /\ \A i, j \in DOMAIN Roles[r.mode] : i # j => Disjoint(slots[i], slots[j])
    BY <1>1, <1>2, <2>1, <2>2, ValidSlotsArePlaced, Zenon
  <2>5. ASSUME NEW i \in DOMAIN parts
        PROVE  /\ parts[i] = Planning(r, Roles[r.mode][i], slots[i])
               /\ parts[i].start = slots[i].start /\ parts[i].count = slots[i].count
               /\ Roles[r.mode][i] \in AllRoles
               /\ Decided(r, parts[i]) /\ OpensAsAsked(r, parts[i])
               /\ Placed(parts[i], r.lce)
    <3>1. parts[i] = Planning(r, Roles[r.mode][i], slots[i])
      BY <1>2, <2>3
    <3>2. parts[i].start = slots[i].start /\ parts[i].count = slots[i].count
      BY <3>1 DEF Planning
    <3>3. Roles[r.mode][i] \in AllRoles
      BY <1>1, <2>3, RolesOfModes DEF AllRoles
    <3>4. ~ NeedsFormat(r, parts[i]) /\ ~ NoMaterial(r, parts[i])
      BY <1>5, Zenon
    <3>5. Decided(r, parts[i])
      BY <3>1, <3>3, <3>4, PlanningDecides, Zenon
    <3>6. OpensAsAsked(r, parts[i])
      BY <1>1, <3>1, <3>3, <3>4, PlanningOpensAsAsked, Zenon
    <3>7. Placed(parts[i], r.lce)
      BY <2>3, <2>4, <3>2 DEF Placed
    <3> QED
      BY <3>1, <3>2, <3>3, <3>5, <3>6, <3>7
  <2>6. ASSUME NEW i \in DOMAIN parts, NEW j \in DOMAIN parts, i # j
        PROVE  Disjoint(parts[i], parts[j])
    <3>1. Disjoint(slots[i], slots[j])
      BY <2>3, <2>4, <2>6
    <3> QED
      BY <2>5, <3>1 DEF Disjoint, End
  <2>7. Consistent(r, parts)
    <3>1. ASSUME NEW i \in DOMAIN parts, Preserves(parts[i].disposition)
          PROVE  /\ Sectors(parts[i]) \intersect Patch(r) = {}
                 /\ \A j \in DOMAIN parts : parts[j].formatted => Disjoint(parts[i], parts[j])
      <4>1. Sectors(parts[i]) \intersect Patch(r) = {}
        BY <1>1, <2>5, PlacedOffThePatch
      <4>2. ASSUME NEW j \in DOMAIN parts, parts[j].formatted
            PROVE  Disjoint(parts[i], parts[j])
        <5>1. ~ parts[i].formatted
          BY <2>5, <3>1 DEF Decided
        <5>2. i # j
          BY <4>2, <5>1
        <5> QED
          BY <2>6, <5>2
      <4> QED
        BY <4>1, <4>2
    <3> QED
      BY <2>5, <3>1, Zenon DEF Consistent, Decided
  <2>8. o = Outcome("Ready", parts)
    BY <1>3, <1>5, <2>7, Zenon
  <2>9. r.lce + LceSectors <= r.total
    BY <2>1 DEF ImageFits
  <2>10. 1 \in DOMAIN parts /\ DOMAIN parts \subseteq 1..3
    BY <1>1, <2>3, RolesOfModes
  <2>11. \A i \in DOMAIN parts : Preserves(parts[i].disposition) => ~ parts[i].formatted
    BY <2>5 DEF Decided
  <2>12. PlanStands(r, parts)
    BY <2>5, <2>6, <2>9, <2>10, <2>11 DEF PlanStands
  <2> QED
    BY <2>8, <2>12 DEF Outcome
<1> QED
  BY <1>4, <1>5

\* The commit of a plan is accepted, and touches nothing that is kept.
LEMMA CommitStands ==
  ASSUME NEW r, IsTarget(r), NEW parts, PlanStands(r, parts),
         NEW a, a = ProvisionPlan([patch |-> Patch(r), total |-> r.total])
  PROVE  /\ a.kind = "Run"
         /\ CanBeRolledBack(r, a) /\ DataThenMetadataThenMbr(r, a)
         /\ \A i \in DOMAIN parts : LeftAlone(parts[i], a)
<1>1. /\ r.entry = "target" /\ r.lce \in Nat /\ r.total \in Nat
      /\ r.total > 0 /\ r.total <= MaxTotal
      /\ LceSectors \in Nat \ {0} /\ r.lce + LceSectors <= r.total
  BY TargetsAssumption, RequestsAssumption DEF IsTarget, PlanStands
<1>2. 63 <= r.lce
  <2>1. Placed(parts[1], r.lce)
    BY DEF PlanStands
  <2> QED
    BY <1>1, <2>1 DEF Placed
<1>3. PICK q : q = [patch |-> Patch(r), total |-> r.total]
  OBVIOUS
<1>4. q.patch = Patch(r) /\ q.total = r.total
  BY <1>3
<1>5. /\ Patch(r) \subseteq Nat /\ 0..MetadataLast \subseteq Patch(r)
      /\ r.lce \in Patch(r) /\ ~ (r.lce <= MetadataLast)
      /\ \A l \in Patch(r) : ~ (l >= r.total)
  BY <1>1, <1>2 DEF Patch, MetadataLast
<1>6. TotalSupported(r.total)
  BY <1>1 DEF TotalSupported
<1>7. a = Planned(MetadataStages(q.patch), q.total)
  BY <1>3, <1>4, <1>5, <1>6, Zenon DEF ProvisionPlan, MetadataStages
<1>8. DOMAIN MetadataStages(q.patch) = Patch(r)
  BY <1>4 DEF MetadataStages
<1>9. a.kind = "Run"
  <2>1. a = Run(OrderedLbas(MetadataStages(q.patch)), Ascending(DOMAIN MetadataStages(q.patch)))
    BY <1>4, <1>5, <1>6, <1>7, <1>8, Zenon DEF Planned
  <2> QED
    BY <2>1 DEF Run
<1>10. CanBeRolledBack(r, a) /\ DataThenMetadataThenMbr(r, a)
  BY <1>1, <1>3, <1>4, <1>5, <1>9, ProvisionPlanIsSound
<1>11. Written(a) \subseteq Patch(r)
  <2>1. /\ MetadataStages(Patch(r)) \in [Patch(r) -> Stages]
        /\ \A l \in Patch(r) : MetadataStages(Patch(r))[l] = "Commit" <=> l = 0
    BY <1>5, MetadataStaging
  <2>2. \A i \in 1..Len(a.order) : a.order[i] \in Patch(r)
    <3>1. a = Planned(MetadataStages(Patch(r)), r.total) /\ r.total \in Nat /\ Patch(r) \subseteq Nat
      BY <1>1, <1>4, <1>5, <1>7
    <3>2. InStages(a.order, Patch(r), MetadataStages(Patch(r)))
      BY <1>9, <2>1, <3>1, PlannedFits
    <3> QED
      BY <3>2, Zenon DEF InStages
  <2> QED
    BY <2>2 DEF Written
<1>12. ASSUME NEW i \in DOMAIN parts PROVE LeftAlone(parts[i], a)
  <2>1. Sectors(parts[i]) \intersect Patch(r) = {}
    BY <1>1, PlacedOffThePatch DEF PlanStands
  <2> QED
    BY <1>11, <2>1, Zenon DEF LeftAlone
<1> QED
  BY <1>9, <1>10, <1>12

\* So are the formats after it.
LEMMA FormatStands ==
  ASSUME NEW r, IsTarget(r), NEW parts, PlanStands(r, parts),
         NEW n \in DOMAIN parts, parts[n].formatted,
         NEW a, a = FormatPlan([layout |-> "Edp", start |-> parts[n].start,
                                end |-> End(parts[n]), total |-> r.total,
                                writes |-> [i \in 1..parts[n].count |-> parts[n].start + i - 1]])
  PROVE  /\ a.kind = "Run"
         /\ CanBeRolledBack(r, a) /\ DataThenMetadataThenMbr(r, a)
         /\ \A i \in DOMAIN parts : LeftAlone(parts[i], a)
<1>1. /\ r.entry = "target" /\ r.lce \in Nat /\ r.total \in Nat
      /\ r.total > 0 /\ r.total <= MaxTotal
      /\ LceSectors \in Nat \ {0} /\ r.lce + LceSectors <= r.total
  BY TargetsAssumption, RequestsAssumption DEF IsTarget, PlanStands
<1>2. PICK b, c : b = parts[n].start /\ c = parts[n].count
  OBVIOUS
<1>3. b \in Nat /\ c \in Nat \ {0} /\ 63 <= b /\ b + c <= r.lce
  BY <1>2 DEF PlanStands, Placed
<1>4. PICK w : w = [i \in 1..c |-> b + i - 1]
  OBVIOUS
<1>5. PICK q : q = [layout |-> "Edp", start |-> b, end |-> b + c, total |-> r.total, writes |-> w]
  OBVIOUS
<1>6. /\ q.layout = "Edp" /\ q.start = b /\ q.end = b + c
      /\ q.total = r.total /\ q.writes = w
  BY <1>5
<1>7. a = FormatPlan(q)
  BY <1>2, <1>4, <1>5 DEF End
<1>8. \A i \in 1..c : w[i] = b + i - 1 /\ w[i] \in Nat /\ b <= w[i] /\ w[i] < b + c
  BY <1>3, <1>4
<1>9. w \in Seq(Nat) /\ Len(w) = c /\ w # << >>
  <2>1. w \in [1..c -> Nat]
    BY <1>4, <1>8
  <2> QED
    BY <1>3, <2>1
<1>10. Within(w, q.start, q.end) /\ StrictlyIncreasing(w)
  <2>1. Within(w, q.start, q.end)
    BY <1>6, <1>8, <1>9 DEF Within
  <2>2. \A i, j \in 1..c : i < j => w[i] < w[j]
    BY <1>3, <1>8
  <2> QED
    BY <1>9, <2>1, <2>2 DEF StrictlyIncreasing
<1>11. a = Run(w, w)
  <2>1. TotalSupported(q.total)
    BY <1>1, <1>6 DEF TotalSupported
  <2>2. /\ ~ (q.start < FirstFormatLba(q.layout)) /\ ~ (q.start >= q.end)
        /\ ~ (q.end > q.total) /\ q.layout # "Plain"
    BY <1>1, <1>3, <1>6 DEF FirstFormatLba, ReserveEnd
  <2> QED
    BY <1>6, <1>7, <1>9, <1>10, <2>1, <2>2, Zenon DEF FormatPlan
<1>12. a.kind = "Run" /\ a.order = w
  BY <1>11 DEF Run
<1>13. CanBeRolledBack(r, a) /\ DataThenMetadataThenMbr(r, a)
  <2>1. q.start >= ReserveEnd /\ q.start \in Nat /\ q.end \in Nat /\ q.total \in Nat /\ q.writes \in Seq(Nat)
    BY <1>1, <1>3, <1>6, <1>9 DEF ReserveEnd
  <2> QED
    BY <1>1, <1>6, <1>7, <1>12, <2>1, FormatPlanIsSound
<1>14. ASSUME NEW i \in DOMAIN parts PROVE LeftAlone(parts[i], a)
  <2> SUFFICES ASSUME Preserves(parts[i].disposition), NEW l \in Sectors(parts[i]), l \in Written(a)
               PROVE  FALSE
    BY DEF LeftAlone
  <2>1. i # n /\ Disjoint(parts[i], parts[n])
    BY DEF PlanStands
  <2>2. parts[i].start \in Nat /\ parts[i].count \in Nat
    BY DEF PlanStands, Placed
  <2>3. l \in Int /\ parts[i].start <= l /\ l < parts[i].start + parts[i].count
    BY <2>2 DEF Sectors, End
  <2>4. b <= l /\ l < b + c
    BY <1>8, <1>9, <1>12 DEF Written
  <2> QED
    BY <1>2, <1>3, <2>1, <2>2, <2>3, <2>4 DEF Disjoint, End
<1> QED
  BY <1>12, <1>13, <1>14
-----------------------------------------------------------------------------
(***************************************************************************)
(* The form, and the request it submits.                                   *)
(***************************************************************************)
PasswordFields == {"source", "check", "known", "touched", "aim", "target",
                   "drafted", "cipher", "opaque"}

IsEntry(p) ==
  /\ PasswordFields \subseteq DOMAIN p
  /\ p.source # None /\ p.target # None /\ p.aim \in {"Explicit", "Passthrough"}
  /\ p.check \in {"Idle", "Verifying", "Failed"}

IsForm(f) ==
  /\ {"old", "extents", "mode", "edits", "lce", "total", "domain", "format", "fs", "algorithm", "chosen"}
       \subseteq DOMAIN f
  /\ f.mode \in Modes /\ f.total \in 1..MaxTotal /\ f.lce \in Nat
  /\ f.lce + LceSectors <= f.total
  /\ IsSource(f.old) /\ IsGeometry(f.edits)
  /\ DOMAIN f.domain = Domains
  /\ \A d \in Domains : IsEntry(f.domain[d])

LEMMA OpenedIsForm ==
  ASSUME NEW f \in Forms
  PROVE  IsForm(Opened(f))
<1>1. /\ f.mode \in Modes /\ f.total \in 1..MaxTotal /\ f.lce \in Nat
      /\ f.lce + LceSectors <= f.total
      /\ IsSource(f.old) /\ IsGeometry(f.edits)
  BY FormsAssumption, ModesOfRoles
<1>2. PICK g : g = Opened(f)
  OBVIOUS
<1>3. /\ {"old", "extents", "mode", "edits", "lce", "total", "domain", "format", "fs", "algorithm", "chosen"}
           \subseteq DOMAIN g
      /\ g.old = f.old /\ g.mode = f.mode /\ g.edits = f.edits /\ g.lce = f.lce /\ g.total = f.total
      /\ g.domain = [d \in Domains |-> FreshDomain(f, d)]
  BY <1>2 DEF Opened
<1>4. ASSUME NEW d \in Domains PROVE IsEntry(FreshDomain(f, d))
  BY FormsAssumption DEF FreshDomain, PasswordFields, IsEntry
<1> QED
  BY <1>1, <1>2, <1>3, <1>4 DEF IsForm

\* Setting the fields of one domain leaves everything else of a form.
With(f, d, p) == [f EXCEPT !.domain[d] = p]

LEMMA SetDomain ==
  ASSUME NEW f, IsForm(f), NEW d \in Domains, NEW p, IsEntry(p)
  PROVE  /\ IsForm(With(f, d, p)) /\ With(f, d, p).domain[d] = p
         /\ \A e \in Domains : e # d => With(f, d, p).domain[e] = f.domain[e]
<1>0. PICK g : g = With(f, d, p)
  OBVIOUS
<1>1. PICK h : h = [f.domain EXCEPT ![d] = p]
  OBVIOUS
<1>2. g = [f EXCEPT !.domain = h]
  BY <1>0, <1>1 DEF With
<1>3. DOMAIN g = DOMAIN f /\ g.domain = h
  BY <1>2 DEF IsForm
<1>4. /\ g.old = f.old /\ g.mode = f.mode /\ g.edits = f.edits
      /\ g.lce = f.lce /\ g.total = f.total
  BY <1>2 DEF IsForm
<1>5. DOMAIN h = Domains /\ h[d] = p /\ \A e \in Domains : e # d => h[e] = f.domain[e]
  BY <1>1 DEF IsForm
<1> QED
  BY <1>0, <1>3, <1>4, <1>5 DEF IsForm

\* What the answers and edits make of a domain keeps its text and knowledge.
LEMMA NormalizedKeeps ==
  ASSUME NEW f, NEW d, IsEntry(f.domain[d])
  PROVE  /\ IsEntry(Normalized(f, d))
         /\ Normalized(f, d).source = f.domain[d].source
         /\ Normalized(f, d).known = f.domain[d].known
         /\ Normalized(f, d).check = f.domain[d].check
BY DEF Normalized, IsEntry, PasswordFields

LEMMA PreparedKeeps ==
  ASSUME NEW f, NEW d, IsEntry(f.domain[d])
  PROVE  /\ IsEntry(Prepared(f, d))
         /\ Prepared(f, d).source = f.domain[d].source
         /\ Prepared(f, d).known = f.domain[d].known
         /\ Prepared(f, d).check = f.domain[d].check
<1>1. PICK p : p = f.domain[d]
  OBVIOUS
<1>2. None # "Default"
  BY FormsAssumption
<1>3. CASE p.aim = "Explicit"
  BY <1>1, <1>3 DEF Prepared
<1>4. CASE p.aim # "Explicit"
  <2>1. PICK text \in {p.source, "Default", p.target} :
          Prepared(f, d) = [p EXCEPT !.aim = "Explicit", !.target = text]
    BY <1>1, <1>4 DEF Prepared
  <2> QED
    BY <1>1, <1>2, <2>1 DEF IsEntry, PasswordFields
<1> QED
  BY <1>3, <1>4

LEMMA FormLayoutIsTyped ==
  ASSUME NEW f, f.mode \in Modes, f.lce \in Nat, IsSource(f.old), IsGeometry(f.edits)
  PROVE  IsLayout(f.mode, FormLayout(f))
<1>1. IsGeometry(Editable(f.mode, f.edits))
  BY DEF Editable, IsGeometry
<1> QED
  BY <1>1, LayoutsAreTyped, Zenon DEF FormLayout

LEMMA RequestOfForm ==
  ASSUME NEW f, IsForm(f), MaySubmit(f)
  PROVE  IsTarget(RequestOf(f))
<1>1. PICK l : l = FormLayout(f)
  OBVIOUS
<1>2. /\ f.mode \in Modes /\ f.total \in 1..MaxTotal /\ f.lce \in Nat
      /\ IsSource(f.old) /\ IsGeometry(f.edits)
  BY DEF IsForm
<1>3. IsLayout(f.mode, l)
  BY <1>1, <1>2, FormLayoutIsTyped
<1>4. Valid(Slots(f.mode, l), f.lce)
  BY <1>1, Zenon DEF MaySubmit
<1>5. \A i \in DOMAIN Roles[f.mode] : Placed(l[Field(Roles[f.mode][i])], f.lce)
  BY <1>2, <1>3, <1>4, ValidSlotsArePlaced, SlotsAreExtents
<1>6. \/ f.mode = "WholeDiskEncrypted"
      \/ /\ l.boot = None \/ (l.boot.start \in Nat /\ l.boot.count \in Nat)
         /\ l.share = None \/ (l.share.start \in Nat /\ l.share.count \in Nat)
         /\ l.encrypt = None \/ (l.encrypt.start \in Nat /\ l.encrypt.count \in Nat)
  <2>1. CASE f.mode = "DefaultThreePartition"
    <3>1. Roles[f.mode] = <<"Boot", "Share", "Encrypt">>
      BY <2>1 DEF Roles
    <3>2. /\ 1 \in DOMAIN Roles[f.mode] /\ Field(Roles[f.mode][1]) = "boot"
          /\ 2 \in DOMAIN Roles[f.mode] /\ Field(Roles[f.mode][2]) = "share"
          /\ 3 \in DOMAIN Roles[f.mode] /\ Field(Roles[f.mode][3]) = "encrypt"
      BY <3>1 DEF Field
    <3> QED
      BY <1>5, <3>2 DEF Placed
  <2>2. CASE f.mode = "BootShareCombined"
    <3>1. Roles[f.mode] = <<"BootShareCombined", "Encrypt">>
      BY <2>2 DEF Roles
    <3>2. /\ 1 \in DOMAIN Roles[f.mode] /\ Field(Roles[f.mode][1]) = "share"
          /\ 2 \in DOMAIN Roles[f.mode] /\ Field(Roles[f.mode][2]) = "encrypt"
      BY <3>1 DEF Field
    <3>3. l.boot = None
      BY <1>3, <2>2 DEF IsLayout, ExtentsUnless
    <3> QED
      BY <1>5, <3>2, <3>3 DEF Placed
  <2>3. CASE f.mode = "IntranetExtranetDualPartition"
    <3>1. Roles[f.mode] = <<"Boot", "Share">>
      BY <2>3 DEF Roles
    <3>2. /\ 1 \in DOMAIN Roles[f.mode] /\ Field(Roles[f.mode][1]) = "boot"
          /\ 2 \in DOMAIN Roles[f.mode] /\ Field(Roles[f.mode][2]) = "share"
      BY <3>1 DEF Field
    <3>3. l.encrypt = None
      BY <1>3, <2>3 DEF IsLayout, ExtentsUnless
    <3> QED
      BY <1>5, <3>2, <3>3 DEF Placed
  <2> QED
    BY <1>2, <2>1, <2>2, <2>3 DEF Modes
<1>7. f.mode = "WholeDiskEncrypted" =>
        l.share = None /\ l.encrypt.start \in Nat /\ l.encrypt.count \in Nat
  <2> SUFFICES ASSUME f.mode = "WholeDiskEncrypted"
               PROVE  l.share = None /\ l.encrypt.start \in Nat /\ l.encrypt.count \in Nat
    OBVIOUS
  <2>1. Roles[f.mode] = <<"CompatibilityReserve", "Encrypt">>
    BY DEF Roles
  <2>2. 2 \in DOMAIN Roles[f.mode] /\ Field(Roles[f.mode][2]) = "encrypt"
    BY <2>1 DEF Field
  <2>3. l.share = None
    BY <1>3 DEF IsLayout, ExtentsUnless
  <2> QED
    BY <1>5, <2>2, <2>3 DEF Placed
<1>8. PICK whole : whole = (f.mode = "WholeDiskEncrypted")
  OBVIOUS
<1>9. PICK s, t : s = SpeltOut(l) /\ t = Editable(f.mode, s)
  OBVIOUS
<1>10. IsGeometry(t)
  <2> DEFINE count(extent) == IF extent = None THEN None ELSE extent.count
             start(extent) == IF extent = None THEN None ELSE extent.start
  <2>1. s = [boot |-> count(l.boot), bootStart |-> start(l.boot),
             share |-> count(l.share), shareStart |-> start(l.share),
             encrypt |-> count(l.encrypt), encryptStart |-> start(l.encrypt)]
    BY <1>9 DEF SpeltOut
  <2> HIDE DEF count, start
  <2>2. /\ t.share = count(l.share) /\ t.shareStart = start(l.share)
        /\ t.encrypt = count(l.encrypt) /\ t.encryptStart = start(l.encrypt)
        /\ t.boot = IF whole THEN None ELSE count(l.boot)
        /\ t.bootStart = IF whole THEN None ELSE start(l.boot)
    <3>1. CASE whole
      <4>1. t = [s EXCEPT !.boot = None, !.bootStart = None]
        BY <1>8, <1>9, <3>1 DEF Editable
      <4> QED
        BY <2>1, <3>1, <4>1
    <3>2. CASE ~ whole
      <4>1. t = s
        BY <1>8, <1>9, <3>2 DEF Editable
      <4> QED
        BY <2>1, <3>2, <4>1
    <3> QED
      BY <3>1, <3>2
  <2>3. /\ {t.share, t.shareStart, t.encrypt, t.encryptStart} \subseteq Nat \union {None}
        /\ {t.boot, t.bootStart} \subseteq Nat \union {None}
    BY <1>6, <1>7, <1>8, <2>2 DEF count, start
  <2>4. t = [boot |-> t.boot, bootStart |-> t.bootStart,
             share |-> t.share, shareStart |-> t.shareStart,
             encrypt |-> t.encrypt, encryptStart |-> t.encryptStart]
    <3>1. t = [s EXCEPT !.boot = None, !.bootStart = None] \/ t = s
      BY <1>9 DEF Editable
    <3> QED
      BY <2>1, <3>1
  <2> QED
    BY <2>3, <2>4 DEF IsGeometry
<1>11. PICK r : r = RequestOf(f)
  OBVIOUS
<1>12. /\ r.entry = "target" /\ r.old = f.old /\ r.mode = f.mode
       /\ r.lce = f.lce /\ r.total = f.total
  BY <1>11 DEF RequestOf
<1>13. r.edits = t
  BY <1>1, <1>8, <1>9, <1>11 DEF RequestOf
<1> QED
  BY <1>2, <1>10, <1>11, <1>12, <1>13, ModesOfRoles DEF IsTarget
-----------------------------------------------------------------------------
(***************************************************************************)
(* The answers a form still waits for: the verification of a text that is  *)
(* current is of the text in the field, and none comes to a form that is   *)
(* not on the screen.                                                      *)
(***************************************************************************)
CheckInv ==
  /\ editing \in Domains \union {None}
  /\ DOMAIN checking = Domains
  /\ stage # "Form" => \A d \in Domains : checking[d] = None
  /\ \A d \in Domains : checking[d] # None =>
       /\ "current" \in DOMAIN checking[d]
       /\ checking[d].current => checking[d].text = form.domain[d].source

KnownHere(g) ==
  \A d \in Domains : g.domain[d].known =>
    form.domain[d].known \/ g.domain[d].source = DiskDomain(d).pw

OnScreen ==
  \/ \E d \in Domains : EditSource(d) \/ EditTarget(d) \/ ToggleTarget(d) \/ VerifyDone(d)
  \/ EndInsert \/ ToggleFormat \/ SwitchAlgorithm \/ EditGeometry \/ KeyProbeDone

\* Nothing that leaves the texts and the pending answers alone disturbs them.
LEMMA ChecksStay ==
  ASSUME CheckInv, UNCHANGED <<stage, editing, checking>>,
         \A d \in Domains : form'.domain[d].source = form.domain[d].source
  PROVE  CheckInv'
BY DEF CheckInv

\* A domain whose new fields p have the text of the old ones.
LEMMA TextStays ==
  ASSUME IsForm(form), NEW d \in Domains, NEW p, IsEntry(p),
         p.source = form.domain[d].source,
         p.known => form.domain[d].known \/ p.source = DiskDomain(d).pw,
         Set(d, p)
  PROVE  /\ IsForm(form') /\ KnownHere(form')
         /\ \A e \in Domains : form'.domain[e].source = form.domain[e].source
<1>1. form' = With(form, d, p)
  BY DEF Set, With
<1>2. /\ IsForm(form') /\ form'.domain[d] = p
      /\ \A e \in Domains : e # d => form'.domain[e] = form.domain[e]
  BY <1>1, SetDomain
<1>3. ASSUME NEW e \in Domains
      PROVE  /\ form'.domain[e].source = form.domain[e].source
             /\ form'.domain[e].known =>
                  form.domain[e].known \/ form'.domain[e].source = DiskDomain(e).pw
  <2>1. CASE e = d
    BY <1>2, <2>1
  <2>2. CASE e # d
    BY <1>2, <2>2
  <2> QED
    BY <2>1, <2>2
<1> QED
  BY <1>2, <1>3 DEF KnownHere

LEMMA EditSourceStep ==
  ASSUME IsForm(form), CheckInv, NEW d \in Domains, EditSource(d)
  PROVE  IsForm(form') /\ CheckInv' /\ KnownHere(form')
<1>1. PICK text, p :
        /\ text \in Texts
        /\ p = [form.domain[d] EXCEPT !.source = text, !.known = FALSE,
                                      !.touched = TRUE, !.check = "Idle"]
        /\ Set(d, p)
  BY DEF EditSource
<1>2. IsEntry(p) /\ ~ p.known
  <2>1. text # None
    BY <1>1, FormsAssumption
  <2> QED
    BY <1>1, <2>1 DEF IsForm, IsEntry, PasswordFields
<1>3. /\ IsForm(form') /\ form'.domain[d] = p
      /\ \A e \in Domains : e # d => form'.domain[e] = form.domain[e]
  <2>1. form' = With(form, d, p)
    BY <1>1 DEF Set, With
  <2> QED
    BY <1>2, <2>1, SetDomain
<1>4. KnownHere(form')
  BY <1>2, <1>3 DEF KnownHere
<1>5. /\ stage = "Form" /\ stage' = "Form" /\ editing' = d
      /\ checking' = [checking EXCEPT ![d] = IF @ = None THEN None ELSE [@ EXCEPT !.current = FALSE]]
  BY DEF EditSource, Input
<1>6. CheckInv'
  <2>1. DOMAIN checking' = Domains
    BY <1>5 DEF CheckInv
  <2>2. ASSUME NEW e \in Domains, checking'[e] # None
        PROVE  /\ "current" \in DOMAIN checking'[e]
               /\ checking'[e].current => checking'[e].text = form'.domain[e].source
    <3>1. CASE e # d
      BY <1>3, <1>5, <2>2, <3>1 DEF CheckInv
    <3>2. CASE e = d
      <4>1. checking[d] # None /\ checking'[d] = [checking[d] EXCEPT !.current = FALSE]
        BY <1>5, <2>2, <3>2 DEF CheckInv
      <4> QED
        BY <3>2, <4>1 DEF CheckInv
    <3> QED
      BY <3>1, <3>2
  <2> QED
    BY <1>5, <2>1, <2>2 DEF CheckInv
<1> QED
  BY <1>3, <1>4, <1>6

LEMMA EditTargetStep ==
  ASSUME IsForm(form), CheckInv, NEW d \in Domains, EditTarget(d)
  PROVE  IsForm(form') /\ CheckInv' /\ KnownHere(form')
<1>1. PICK text, typed, g, p :
        /\ text \in Texts
        /\ typed = [Prepared(form, d) EXCEPT !.target = text, !.drafted = TRUE]
        /\ g = With(form, d, typed)
        /\ p = Normalized(g, d) /\ Set(d, p)
  BY DEF EditTarget, With
<1>2. IsEntry(form.domain[d])
  BY DEF IsForm
<1>3. /\ IsEntry(typed)
      /\ typed.source = form.domain[d].source /\ typed.known = form.domain[d].known
  <2>1. text # None
    BY <1>1, FormsAssumption
  <2>2. PICK q : q = Prepared(form, d)
    OBVIOUS
  <2>3. IsEntry(q) /\ q.source = form.domain[d].source /\ q.known = form.domain[d].known
    BY <1>2, <2>2, PreparedKeeps
  <2> QED
    BY <1>1, <2>1, <2>2, <2>3 DEF IsEntry, PasswordFields
<1>4. g.domain[d] = typed
  <2>1. With(form, d, typed).domain[d] = typed
    BY <1>3, SetDomain
  <2> QED
    BY <1>1, <2>1
<1>5. /\ IsEntry(p)
      /\ p.source = form.domain[d].source /\ p.known = form.domain[d].known
  <2>1. IsEntry(g.domain[d])
    BY <1>3, <1>4
  <2>2. /\ IsEntry(Normalized(g, d))
        /\ Normalized(g, d).source = g.domain[d].source
        /\ Normalized(g, d).known = g.domain[d].known
    BY <2>1, NormalizedKeeps, Zenon
  <2> QED
    BY <1>1, <1>3, <1>4, <2>2
<1>6. UNCHANGED <<stage, editing, checking>>
  BY DEF EditTarget, Input
<1> QED
  BY <1>1, <1>5, <1>6, TextStays, ChecksStay

LEMMA ToggleTargetStep ==
  ASSUME IsForm(form), CheckInv, NEW d \in Domains, ToggleTarget(d)
  PROVE  IsForm(form') /\ CheckInv' /\ KnownHere(form')
<1>1. PICK p : /\ p = IF form.domain[d].aim = "Passthrough" THEN Prepared(form, d)
                      ELSE [form.domain[d] EXCEPT !.aim = "Passthrough"]
               /\ Set(d, p)
  BY DEF ToggleTarget
<1>2. IsEntry(form.domain[d])
  BY DEF IsForm
<1>3. /\ IsEntry(p)
      /\ p.source = form.domain[d].source /\ p.known = form.domain[d].known
  BY <1>1, <1>2, PreparedKeeps DEF IsEntry, PasswordFields
<1>4. UNCHANGED <<stage, editing, checking>>
  BY DEF ToggleTarget, Input
<1> QED
  BY <1>1, <1>3, <1>4, TextStays, ChecksStay

LEMMA VerifyDoneStep ==
  ASSUME IsForm(form), CheckInv, NEW d \in Domains, VerifyDone(d)
  PROVE  IsForm(form') /\ CheckInv' /\ KnownHere(form')
<1>1. PICK p, opens, verified, g :
        /\ p = form.domain[d]
        /\ opens = (checking[d].text = DiskDomain(d).pw /\ DiskDomain(d).wrap = "Sm4")
        /\ verified = [p EXCEPT !.known = TRUE, !.check = "Idle"]
        /\ g = With(form, d, verified)
  OBVIOUS
<1>2. /\ stage = "Form" /\ checking[d] # None
      /\ checking' = [checking EXCEPT ![d] = None]
      /\ UNCHANGED <<stage, editing>>
  BY DEF VerifyDone
<1>3. IsEntry(p)
  BY <1>1 DEF IsForm
<1>4. /\ IsForm(form') /\ KnownHere(form')
      /\ \A e \in Domains : form'.domain[e].source = form.domain[e].source
  <2>1. CASE form' = form
    BY <2>1 DEF KnownHere
  <2>2. CASE /\ checking[d].current /\ opens
             /\ Set(d, Normalized(g, d))
    <3>1. IsEntry(verified) /\ verified.source = p.source
      BY <1>1, <1>3 DEF IsEntry, PasswordFields
    <3>2. g.domain[d] = verified
      <4>1. With(form, d, verified).domain[d] = verified
        BY <3>1, SetDomain
      <4> QED
        BY <1>1, <4>1
    <3>3. /\ IsEntry(Normalized(g, d))
          /\ Normalized(g, d).source = p.source
      BY <3>1, <3>2, NormalizedKeeps
    <3>4. p.source = DiskDomain(d).pw
      BY <1>1, <1>2, <2>2 DEF CheckInv
    <3> QED
      BY <1>1, <2>2, <3>3, <3>4, TextStays
  <2>3. CASE Set(d, [p EXCEPT !.known = FALSE, !.check = "Failed"])
    <3>1. PICK q : q = [p EXCEPT !.known = FALSE, !.check = "Failed"]
      OBVIOUS
    <3>2. IsEntry(q) /\ q.source = p.source /\ ~ q.known
      BY <1>3, <3>1 DEF IsEntry, PasswordFields
    <3> QED
      BY <1>1, <2>3, <3>1, <3>2, TextStays
  <2> QED
    BY <1>1, <2>1, <2>2, <2>3, Zenon DEF VerifyDone, With
<1>5. CheckInv'
  BY <1>2, <1>4 DEF CheckInv
<1> QED
  BY <1>4, <1>5

LEMMA EndInsertStep ==
  ASSUME IsForm(form), CheckInv, EndInsert
  PROVE  IsForm(form') /\ CheckInv' /\ KnownHere(form')
<1>1. PICK d : d = editing
  OBVIOUS
<1>2. stage = "Form" /\ stage' = "Form" /\ d \in Domains /\ editing' = None
  BY <1>1 DEF EndInsert, CheckInv
<1>3. PICK p : p = form.domain[d]
  OBVIOUS
<1>4. IsEntry(p)
  BY <1>2, <1>3 DEF IsForm
<1>5. PICK state, q :
        /\ state \in {"Verifying", "Failed"}
        /\ q = [p EXCEPT !.check = state] /\ Set(d, q)
        /\ \/ UNCHANGED checking
           \/ checking' = [checking EXCEPT ![d] = [text |-> p.source, current |-> TRUE]]
  BY <1>1, <1>3 DEF EndInsert
<1>6. IsEntry(q) /\ q.source = p.source /\ q.known = p.known
  BY <1>4, <1>5 DEF IsEntry, PasswordFields
<1>7. /\ IsForm(form') /\ KnownHere(form')
      /\ \A e \in Domains : form'.domain[e].source = form.domain[e].source
  BY <1>2, <1>3, <1>5, <1>6, TextStays
<1>8. CASE UNCHANGED checking
  BY <1>2, <1>7, <1>8 DEF CheckInv
<1>9. CASE checking' = [checking EXCEPT ![d] = [text |-> p.source, current |-> TRUE]]
  <2>1. DOMAIN checking' = Domains
    BY <1>9 DEF CheckInv
  <2>2. ASSUME NEW e \in Domains, checking'[e] # None
        PROVE  /\ "current" \in DOMAIN checking'[e]
               /\ checking'[e].current => checking'[e].text = form'.domain[e].source
    <3>1. CASE e # d
      BY <1>7, <1>9, <2>2, <3>1 DEF CheckInv
    <3>2. CASE e = d
      <4>1. checking'[d] = [text |-> p.source, current |-> TRUE]
        BY <1>2, <1>9 DEF CheckInv
      <4> QED
        BY <1>2, <1>3, <1>7, <3>2, <4>1
    <3> QED
      BY <3>1, <3>2
  <2> QED
    BY <1>2, <1>7, <2>1, <2>2 DEF CheckInv
<1> QED
  BY <1>5, <1>7, <1>8, <1>9

\* What is neither a source password nor an answer.
LEMMA OtherEditsStep ==
  ASSUME IsForm(form), CheckInv, ToggleFormat \/ SwitchAlgorithm \/ EditGeometry
  PROVE  IsForm(form') /\ CheckInv' /\ KnownHere(form')
<1>1. IsForm(form') /\ form'.domain = form.domain
  <2>1. CASE ToggleFormat
    <3>1. PICK x : form' = [form EXCEPT !.format = x]
      BY <2>1 DEF ToggleFormat
    <3> QED
      BY <3>1 DEF IsForm
  <2>2. CASE SwitchAlgorithm
    <3>1. PICK x : form' = [form EXCEPT !.chosen = TRUE, !.algorithm = x]
      BY <2>2 DEF SwitchAlgorithm
    <3> QED
      BY <3>1 DEF IsForm
  <2>3. CASE EditGeometry
    <3>1. PICK x \in Layouts : form' = [form EXCEPT !.edits = x]
      BY <2>3 DEF EditGeometry
    <3>2. IsGeometry(x)
      BY FormsAssumption
    <3> QED
      BY <3>1, <3>2 DEF IsForm
  <2> QED
    BY <2>1, <2>2, <2>3
<1>2. UNCHANGED <<stage, editing, checking>>
  BY DEF ToggleFormat, SwitchAlgorithm, EditGeometry, Input
<1> QED
  BY <1>1, <1>2, ChecksStay DEF KnownHere

LEMMA KeyProbeDoneStep ==
  ASSUME IsForm(form), CheckInv, KeyProbeDone
  PROVE  IsForm(form') /\ CheckInv' /\ KnownHere(form')
<1>1. PICK h : h = [d \in Domains |-> Probed(d)]
  OBVIOUS
<1>2. PICK f : f = [form EXCEPT !.domain = h, !.algorithm = AdoptedAlgorithm]
  OBVIOUS
<1>3. ASSUME NEW d \in Domains
      PROVE  /\ IsEntry(h[d]) /\ h[d].source = form.domain[d].source
             /\ h[d].known => form.domain[d].known \/ h[d].source = DiskDomain(d).pw
  <2>1. IsEntry(form.domain[d])
    BY DEF IsForm
  <2>2. PICK facts :
          facts = [form.domain[d] EXCEPT
                     !.cipher = IF HasDomain(form, d) THEN DiskDomain(d).wrap ELSE None,
                     !.opaque = HasDomain(form, d) /\ DiskDomain(d).wrap = "Sm4"]
    OBVIOUS
  <2>3. h[d] = IF ~ HasDomain(form, d)
               THEN [facts EXCEPT !.check = IF form.domain[d].touched THEN @ ELSE "Idle"]
               ELSE IF form.domain[d].touched \/ form.domain[d].source # "Default" THEN facts
               ELSE [facts EXCEPT
                       !.known = HasDomain(form, d) /\ DiskDomain(d).pw = "Default",
                       !.check = IF HasDomain(form, d) /\ DiskDomain(d).pw = "Default"
                                 THEN "Idle" ELSE "Failed"]
    BY <1>1, <2>2, Zenon DEF Probed
  <2>4. /\ IsEntry(facts) /\ facts.source = form.domain[d].source
        /\ facts.known = form.domain[d].known
    BY <2>1, <2>2 DEF IsEntry, PasswordFields
  <2>5. CASE ~ HasDomain(form, d)
    <3>1. PICK x : h[d] = [facts EXCEPT !.check = x] /\ x \in {facts.check, "Idle"}
      BY <2>3, <2>5
    <3> QED
      BY <2>4, <3>1 DEF IsEntry, PasswordFields
  <2>6. CASE HasDomain(form, d) /\ (form.domain[d].touched \/ form.domain[d].source # "Default")
    BY <2>3, <2>4, <2>6
  <2>7. CASE HasDomain(form, d) /\ ~ form.domain[d].touched /\ form.domain[d].source = "Default"
    <3>1. PICK knows : knows = (HasDomain(form, d) /\ DiskDomain(d).pw = "Default")
      OBVIOUS
    <3>2. PICK x : /\ h[d] = [facts EXCEPT !.known = knows, !.check = x]
                   /\ x \in {"Idle", "Failed"}
      BY <2>3, <2>7, <3>1
    <3> QED
      BY <2>4, <2>7, <3>1, <3>2 DEF IsEntry, PasswordFields
  <2> QED
    BY <2>5, <2>6, <2>7
<1>4. /\ DOMAIN f = DOMAIN form /\ f.domain = h
      /\ f.old = form.old /\ f.mode = form.mode /\ f.edits = form.edits
      /\ f.lce = form.lce /\ f.total = form.total
  BY <1>2 DEF IsForm
<1>5. UNCHANGED <<stage, editing, checking>>
  BY DEF KeyProbeDone
<1>6. CASE form' = [f EXCEPT !.domain = [d \in Domains |-> Normalized(f, d)]]
  <2>1. /\ DOMAIN form' = DOMAIN form
        /\ form'.old = form.old /\ form'.mode = form.mode /\ form'.edits = form.edits
        /\ form'.lce = form.lce /\ form'.total = form.total
    BY <1>4, <1>6 DEF IsForm
  <2>2. form'.domain = [d \in Domains |-> Normalized(f, d)]
    BY <1>4, <1>6 DEF IsForm
  <2>3. ASSUME NEW d \in Domains
        PROVE  /\ IsEntry(form'.domain[d])
               /\ form'.domain[d].source = h[d].source /\ form'.domain[d].known = h[d].known
    <3>1. IsEntry(f.domain[d])
      BY <1>3, <1>4
    <3> QED
      BY <1>4, <2>2, <3>1, NormalizedKeeps
  <2>4. IsForm(form')
    <3>1. DOMAIN form'.domain = Domains
      BY <2>2
    <3> QED
      BY <2>1, <2>3, <3>1 DEF IsForm
  <2>5. KnownHere(form')
    BY <1>3, <2>3 DEF KnownHere
  <2>6. \A d \in Domains : form'.domain[d].source = form.domain[d].source
    BY <1>3, <2>3
  <2> QED
    BY <1>5, <2>4, <2>5, <2>6, ChecksStay
<1>7. CASE form' = [form EXCEPT !.domain = [d \in Domains |->
              [form.domain[d] EXCEPT !.check = IF @ = "Verifying" THEN "Idle" ELSE @]]]
  <2>1. PICK k : k = [d \in Domains |->
              [form.domain[d] EXCEPT !.check = IF @ = "Verifying" THEN "Idle" ELSE @]]
    OBVIOUS
  <2>2. form' = [form EXCEPT !.domain = k]
    BY <1>7, <2>1
  <2>3. ASSUME NEW d \in Domains
        PROVE  /\ IsEntry(k[d])
               /\ k[d].source = form.domain[d].source /\ k[d].known = form.domain[d].known
    <3>1. IsEntry(form.domain[d])
      BY DEF IsForm
    <3>2. k[d] = [form.domain[d] EXCEPT !.check = IF @ = "Verifying" THEN "Idle" ELSE @]
      BY <2>1
    <3> QED
      BY <3>1, <3>2 DEF IsEntry, PasswordFields
  <2>4. IsForm(form') /\ form'.domain = k
    BY <2>1, <2>2, <2>3 DEF IsForm
  <2> QED
    BY <1>5, <2>3, <2>4, ChecksStay DEF KnownHere
<1> QED
  BY <1>1, <1>2, <1>6, <1>7, Zenon DEF KeyProbeDone
-----------------------------------------------------------------------------
(***************************************************************************)
(* The request, its plan, and what has been written of it.                 *)
(***************************************************************************)
AnswerInv ==
  answer.kind = "Run" =>
    /\ CanBeRolledBack(request, answer)
    /\ DataThenMetadataThenMbr(request, answer)
    /\ WithinScope(request, answer)

PlanInv ==
  /\ prepared.kind \in {"Pending", "Refused", "Ready"}
  /\ prepared.kind # "Pending" => IsTarget(request)
  /\ request.entry = "target" /\ prepared.kind = "Pending" => answer.kind = "Pending"
  /\ left # {} => Ready
  /\ Ready =>
       /\ PlanStands(request, prepared.parts)
       /\ left \subseteq DOMAIN prepared.parts
       /\ \A i \in left : prepared.parts[i].formatted
       /\ answer.kind \in {"Pending", "Run"}
       /\ answer.kind = "Run" =>
            \A i \in DOMAIN prepared.parts : LeftAlone(prepared.parts[i], answer)

StageInv ==
  /\ stage \in {"None", "Form", "Away", "Planning", "Refused", "Review"}
  /\ stage = "None" => request \in Requests \union Targets
  /\ stage # "None" => answer.kind = "Pending" /\ left = {} /\ IsForm(form)
  /\ stage \in {"Form", "Away", "Planning"} => prepared.kind = "Pending"
  /\ stage = "Planning" =>
       /\ IsTarget(request) /\ MaySubmit(form) /\ request = RequestOf(form)
       /\ editing = None

FormInv == StageInv /\ CheckInv /\ PlanInv /\ AnswerInv

LEMMA EntriesOfRequests ==
  ASSUME NEW r \in Requests
  PROVE  IsRequest(r) /\ r.entry # "target"
<1>1. IsRequest(r)
  BY RequestsAssumption
<1> QED
  BY <1>1 DEF IsRequest

LEMMA AnsweredSoundly ==
  ASSUME NEW r, IsRequest(r), NEW a, a.kind = "Run",
         \/ r.entry = "metadata" /\ a = MetadataPlan(r)
         \/ r.entry = "provision" /\ a = ProvisionPlan(r)
         \/ r.entry = "plain" /\ a = PlainPlan(r)
         \/ r.entry = "reinitialize" /\ a = ReinitializePlan(r)
         \/ r.entry = "format" /\ a = FormatPlan(r)
  PROVE  /\ CanBeRolledBack(r, a) /\ DataThenMetadataThenMbr(r, a)
         /\ WithinScope(r, a)
<1>1. r.entry \notin {"reinitialize", "format"} => WithinScope(r, a)
  BY DEF WithinScope
<1>2. CASE r.entry = "metadata" /\ a = MetadataPlan(r)
  BY <1>1, <1>2, MetadataPlanIsSound
<1>3. CASE r.entry = "provision" /\ a = ProvisionPlan(r)
  <2>1. r.patch \subseteq Nat /\ r.total \in Nat
    BY <1>3 DEF IsRequest
  <2> QED
    BY <1>1, <1>3, <2>1, ProvisionPlanIsSound
<1>4. CASE r.entry = "plain" /\ a = PlainPlan(r)
  BY <1>1, <1>4, PlainPlanIsSound
<1>5. CASE r.entry = "reinitialize" /\ a = ReinitializePlan(r)
  BY <1>5, ReinitializePlanIsSound
<1>6. CASE r.entry = "format" /\ a = FormatPlan(r)
  <2>1. r.start \in Nat /\ r.end \in Nat /\ r.total \in Nat /\ r.writes \in Seq(Nat)
    BY <1>6 DEF IsRequest
  <2> QED
    BY <1>6, <2>1, FormatPlanIsSound, FormatPlanStays
<1> QED
  BY <1>2, <1>3, <1>4, <1>5, <1>6

LEMMA NextStep ==
  ASSUME PlanInv, AnswerInv, request \in Requests \union Targets, Next,
         UNCHANGED <<prepared, left>>
  PROVE  PlanInv' /\ AnswerInv'
<1>1. /\ UNCHANGED request /\ answer.kind = "Pending"
      /\ \/ request.entry = "metadata" /\ answer' = MetadataPlan(request)
         \/ request.entry = "provision" /\ answer' = ProvisionPlan(request)
         \/ request.entry = "plain" /\ answer' = PlainPlan(request)
         \/ request.entry = "reinitialize" /\ answer' = ReinitializePlan(request)
         \/ request.entry = "format" /\ answer' = FormatPlan(request)
  BY DEF Next, Answer, WriteMetadata, WriteProvision, WritePlain, Reinitialize, Format
<1>2. request.entry # "target"
  BY <1>1
<1>3. request \in Requests
  BY <1>2, TargetsAssumption DEF IsTarget
<1>4. prepared.kind = "Pending"
  BY <1>2 DEF PlanInv, IsTarget
<1>5. PlanInv'
  BY <1>1, <1>2, <1>4 DEF PlanInv, Ready
<1>6. AnswerInv'
  <2>1. IsRequest(request)
    BY <1>3, EntriesOfRequests
  <2>2. PICK r, a : r = request /\ a = answer'
    OBVIOUS
  <2>3. a.kind = "Run" => /\ CanBeRolledBack(r, a) /\ DataThenMetadataThenMbr(r, a)
                          /\ WithinScope(r, a)
    BY <1>1, <2>1, <2>2, AnsweredSoundly
  <2> QED
    BY <1>1, <2>2, <2>3 DEF AnswerInv
<1> QED
  BY <1>5, <1>6

LEMMA PrepareStep ==
  ASSUME PlanInv, AnswerInv, IsTarget(request), PrepareTarget
  PROVE  PlanInv' /\ AnswerInv'
<1>1. /\ request.entry = "target" /\ prepared.kind = "Pending"
      /\ prepared' = Prepare(request)
      /\ UNCHANGED <<request, answer, left>>
  BY DEF PrepareTarget
<1>2. answer.kind = "Pending" /\ left = {}
  BY <1>1 DEF PlanInv, Ready
<1>3. PICK r, o : r = request /\ o = prepared'
  OBVIOUS
<1>4. /\ o.kind \in {"Refused", "Ready"}
      /\ o.kind = "Ready" => PlanStands(r, o.parts)
  BY <1>1, <1>3, PreparedPlanStands
<1>5. PlanInv'
  BY <1>1, <1>2, <1>3, <1>4 DEF PlanInv, Ready
<1>6. AnswerInv'
  BY <1>1, <1>2 DEF AnswerInv
<1> QED
  BY <1>5, <1>6

LEMMA TargetIsInScope ==
  ASSUME NEW r, r.entry = "target", NEW a
  PROVE  WithinScope(r, a)
BY DEF WithinScope

LEMMA CommitStep ==
  ASSUME PlanInv, AnswerInv, CommitTarget
  PROVE  PlanInv' /\ AnswerInv'
<1>1. /\ Ready /\ UNCHANGED <<request, prepared>>
      /\ answer' = ProvisionPlan([patch |-> Patch(request), total |-> request.total])
      /\ left' = {i \in DOMAIN prepared.parts : prepared.parts[i].formatted}
  BY DEF CommitTarget
<1>2. PICK r, parts, a : r = request /\ parts = prepared.parts /\ a = answer'
  OBVIOUS
<1>3. IsTarget(r) /\ PlanStands(r, parts)
  BY <1>1, <1>2 DEF PlanInv, Ready
<1>4. /\ a.kind = "Run"
      /\ CanBeRolledBack(r, a) /\ DataThenMetadataThenMbr(r, a)
      /\ \A i \in DOMAIN parts : LeftAlone(parts[i], a)
  BY <1>1, <1>2, <1>3, CommitStands
<1>5. WithinScope(r, a)
  BY <1>3, TargetIsInScope DEF IsTarget
<1>6. PlanInv'
  BY <1>1, <1>2, <1>3, <1>4 DEF PlanInv, Ready
<1>7. AnswerInv'
  BY <1>1, <1>2, <1>4, <1>5 DEF AnswerInv
<1> QED
  BY <1>6, <1>7

LEMMA MinIsMember ==
  ASSUME NEW S, S \subseteq 1..3, S # {}
  PROVE  Min(S) \in S
<1>1. \E x \in S : \A y \in S : x <= y
  <2>1. CASE 1 \in S
    BY <2>1
  <2>2. CASE 1 \notin S /\ 2 \in S
    BY <2>2
  <2>3. CASE 1 \notin S /\ 2 \notin S
    <3>1. \A y \in S : y = 3
      BY <2>3
    <3>2. 3 \in S /\ \A y \in S : 3 <= y
      <4>1. PICK x \in S : x = 3
        BY <3>1
      <4> QED
        BY <3>1, <4>1
    <3> QED
      BY <3>2
  <2> QED
    BY <2>1, <2>2, <2>3
<1> QED
  BY <1>1 DEF Min

LEMMA FormatStep ==
  ASSUME PlanInv, AnswerInv, FormatTarget
  PROVE  PlanInv' /\ AnswerInv'
<1>1. /\ left # {} /\ left' = left \ {Min(left)}
      /\ UNCHANGED <<request, prepared>>
  BY DEF FormatTarget
<1>2. PICK r, parts, a, n : r = request /\ parts = prepared.parts /\ a = answer' /\ n = Min(left)
  OBVIOUS
<1>3. /\ Ready /\ IsTarget(r) /\ PlanStands(r, parts)
      /\ left \subseteq DOMAIN parts /\ \A i \in left : parts[i].formatted
  BY <1>1, <1>2 DEF PlanInv, Ready
<1>4. n \in left
  <2>1. left \subseteq 1..3
    BY <1>3 DEF PlanStands
  <2> QED
    BY <1>1, <1>2, <2>1, MinIsMember
<1>5. n \in DOMAIN parts /\ parts[n].formatted
  BY <1>3, <1>4
<1>6. a = FormatPlan([layout |-> "Edp", start |-> parts[n].start, end |-> End(parts[n]),
                      total |-> r.total,
                      writes |-> [i \in 1..parts[n].count |-> parts[n].start + i - 1]])
  BY <1>2 DEF FormatTarget
<1>7. /\ a.kind = "Run"
      /\ CanBeRolledBack(r, a) /\ DataThenMetadataThenMbr(r, a)
      /\ \A i \in DOMAIN parts : LeftAlone(parts[i], a)
  BY <1>3, <1>5, <1>6, FormatStands
<1>8. WithinScope(r, a)
  BY <1>3, TargetIsInScope DEF IsTarget
<1>9. PlanInv'
  BY <1>1, <1>2, <1>3, <1>7 DEF PlanInv, Ready
<1>10. AnswerInv'
  BY <1>1, <1>2, <1>7, <1>8 DEF AnswerInv
<1> QED
  BY <1>9, <1>10

LEMMA PlanStays ==
  ASSUME PlanInv, AnswerInv, UNCHANGED targetVars
  PROVE  PlanInv' /\ AnswerInv'
BY DEF PlanInv, AnswerInv, Ready, targetVars, vars

-----------------------------------------------------------------------------
LEMMA FormInitially == FormInit => FormInv
<1> SUFFICES ASSUME FormInit PROVE FormInv
  OBVIOUS
<1>1. CASE stage = "None"
  <2>1. /\ TargetInit /\ form = NoForm /\ editing = None /\ checking = NoChecks
    BY <1>1 DEF FormInit
  <2>2. /\ request \in Requests \union Targets /\ answer.kind = "Pending"
        /\ prepared.kind = "Pending" /\ left = {}
    BY <2>1 DEF TargetInit, Outcome
  <2>3. StageInv /\ CheckInv
    BY <1>1, <2>1, <2>2 DEF StageInv, CheckInv, NoChecks
  <2>4. PlanInv /\ AnswerInv
    BY <2>2 DEF PlanInv, AnswerInv, Ready
  <2> QED
    BY <2>3, <2>4 DEF FormInv
<1>2. CASE stage # "None"
  <2>1. /\ stage = "Form" /\ editing = None /\ checking = NoChecks
        /\ answer.kind = "Pending" /\ left = {} /\ prepared.kind = "Pending"
    BY <1>2 DEF FormInit, Outcome
  <2>2. PICK f \in Forms : form = Opened(f)
    BY <1>2 DEF FormInit
  <2>3. IsForm(form)
    BY <2>2, OpenedIsForm
  <2>4. StageInv /\ CheckInv
    BY <2>1, <2>3 DEF StageInv, CheckInv, NoChecks
  <2>5. PlanInv /\ AnswerInv
    BY <2>1 DEF PlanInv, AnswerInv, Ready
  <2> QED
    BY <2>4, <2>5 DEF FormInv
<1> QED
  BY <1>1, <1>2

\* What the user and the answers do to a form that is on the screen.
LEMMA OnScreenStep ==
  ASSUME FormInv, OnScreen
  PROVE  FormInv' /\ KnownHere(form')
<1>1. stage = "Form" /\ stage' = "Form" /\ UNCHANGED targetVars
  BY DEF OnScreen, EditSource, EditTarget, ToggleTarget, VerifyDone, EndInsert,
         ToggleFormat, SwitchAlgorithm, EditGeometry, KeyProbeDone, Input
<1>2. IsForm(form) /\ CheckInv /\ PlanInv /\ AnswerInv
  BY <1>1 DEF FormInv, StageInv
<1>3. IsForm(form') /\ CheckInv' /\ KnownHere(form')
  <2>1. CASE \E d \in Domains : EditSource(d)
    BY <1>2, <2>1, EditSourceStep
  <2>2. CASE \E d \in Domains : EditTarget(d)
    BY <1>2, <2>2, EditTargetStep
  <2>3. CASE \E d \in Domains : ToggleTarget(d)
    BY <1>2, <2>3, ToggleTargetStep
  <2>4. CASE \E d \in Domains : VerifyDone(d)
    BY <1>2, <2>4, VerifyDoneStep
  <2>5. CASE EndInsert
    BY <1>2, <2>5, EndInsertStep
  <2>6. CASE ToggleFormat \/ SwitchAlgorithm \/ EditGeometry
    BY <1>2, <2>6, OtherEditsStep
  <2>7. CASE KeyProbeDone
    BY <1>2, <2>7, KeyProbeDoneStep
  <2> QED
    BY <2>1, <2>2, <2>3, <2>4, <2>5, <2>6, <2>7 DEF OnScreen
<1>4. PlanInv' /\ AnswerInv'
  BY <1>1, <1>2, PlanStays
<1>5. StageInv'
  BY <1>1, <1>3 DEF FormInv, StageInv, targetVars, vars
<1> QED
  BY <1>3, <1>4, <1>5 DEF FormInv

\* Leaving the screen, for a while or with a request.
LEMMA LeaveStep ==
  ASSUME FormInv, NEW place \in {"Away", "Planning"}, LeaveTo(place)
  PROVE  CheckInv' /\ IsForm(form') /\ stage' = place
<1>1. /\ stage = "Form" /\ stage' = place /\ editing = None
      /\ checking' = NoChecks /\ UNCHANGED <<form, editing>>
  BY DEF LeaveTo
<1> QED
  BY <1>1 DEF FormInv, StageInv, CheckInv, NoChecks

LEMMA SubmitStep ==
  ASSUME FormInv, Submit
  PROVE  FormInv'
<1>1. /\ LeaveTo("Planning") /\ MaySubmit(form) /\ request' = RequestOf(form)
      /\ stage = "Form" /\ editing' = None /\ UNCHANGED <<answer, prepared, left, form>>
  BY DEF Submit, LeaveTo
<1>2. CheckInv' /\ IsForm(form') /\ stage' = "Planning"
  BY <1>1, LeaveStep
<1>3. IsForm(form) /\ answer.kind = "Pending" /\ left = {} /\ prepared.kind = "Pending"
  BY <1>1 DEF FormInv, StageInv
<1>4. PICK r : r = request'
  OBVIOUS
<1>5. IsTarget(r)
  BY <1>1, <1>3, <1>4, RequestOfForm
<1>6. StageInv'
  BY <1>1, <1>2, <1>3, <1>4, <1>5 DEF StageInv
<1>7. PlanInv' /\ AnswerInv'
  BY <1>1, <1>3, <1>4, <1>5 DEF PlanInv, AnswerInv, Ready
<1> QED
  BY <1>2, <1>6, <1>7 DEF FormInv

LEMMA FinishPlanStep ==
  ASSUME FormInv, FinishPlan
  PROVE  FormInv'
<1>1. /\ stage = "Planning" /\ PrepareTarget /\ stage' \in {"Review", "Refused"}
      /\ UNCHANGED <<editing, checking>>
  BY DEF FinishPlan
<1>2. /\ IsForm(form) /\ IsTarget(request) /\ PlanInv /\ AnswerInv
      /\ answer.kind = "Pending" /\ left = {}
  BY <1>1 DEF FormInv, StageInv
<1>3. PlanInv' /\ AnswerInv'
  BY <1>1, <1>2, PrepareStep
<1>4. UNCHANGED <<request, answer, left>>
  BY <1>1 DEF PrepareTarget
<1>5. /\ IsForm(form')
      /\ \A d \in Domains : form'.domain[d].source = form.domain[d].source
  <2>1. CASE UNCHANGED form
    BY <1>2, <2>1
  <2>2. CASE form' = [form EXCEPT !.domain = [d \in Domains |-> Learned(d)]]
    <3>1. PICK h : h = [d \in Domains |-> Learned(d)]
      OBVIOUS
    <3>2. form' = [form EXCEPT !.domain = h]
      BY <2>2, <3>1
    <3>3. ASSUME NEW d \in Domains
          PROVE  /\ IsEntry(h[d])
                 /\ h[d].source = form.domain[d].source
      <4>1. IsEntry(form.domain[d])
        BY <1>2 DEF IsForm
      <4>2. PICK knows : \/ h[d] = [form.domain[d] EXCEPT !.known = knows]
                         \/ h[d] = form.domain[d]
        BY <3>1 DEF Learned
      <4> QED
        BY <4>1, <4>2 DEF IsEntry, PasswordFields
    <3>4. DOMAIN h = Domains
      BY <3>1
    <3>5. IsForm(form') /\ form'.domain = h
      BY <1>2, <3>2, <3>3, <3>4 DEF IsForm
    <3> QED
      BY <3>3, <3>5
  <2> QED
    BY <2>1, <2>2 DEF FinishPlan
<1>6. CheckInv'
  BY <1>1, <1>5 DEF FormInv, CheckInv
<1>7. StageInv'
  BY <1>1, <1>2, <1>4, <1>5 DEF StageInv
<1> QED
  BY <1>3, <1>6, <1>7 DEF FormInv

LEMMA ReturnStep ==
  ASSUME FormInv, ReturnToForm
  PROVE  FormInv'
<1>1. /\ stage \in {"Review", "Refused"} /\ stage' = "Form"
      /\ request' = NoForm /\ prepared' = Outcome("Pending", << >>)
      /\ UNCHANGED <<answer, left, form, editing, checking>>
  BY DEF ReturnToForm
<1>2. /\ IsForm(form) /\ CheckInv /\ answer.kind = "Pending" /\ left = {}
  BY <1>1 DEF FormInv, StageInv
<1>3. prepared'.kind = "Pending"
  BY <1>1 DEF Outcome
<1>4. StageInv' /\ CheckInv'
  BY <1>1, <1>2, <1>3 DEF StageInv, CheckInv
<1>5. PlanInv' /\ AnswerInv'
  BY <1>1, <1>2, <1>3 DEF PlanInv, AnswerInv, Ready
<1> QED
  BY <1>4, <1>5 DEF FormInv

LEMMA ReenterStep ==
  ASSUME FormInv, Reenter
  PROVE  FormInv'
<1>1. /\ stage = "Away" /\ stage' = "Form"
      /\ UNCHANGED <<targetVars, form, editing, checking>>
  BY DEF Reenter
<1>2. PlanInv' /\ AnswerInv'
  BY <1>1, PlanStays DEF FormInv
<1>3. StageInv' /\ CheckInv'
  BY <1>1 DEF FormInv, StageInv, CheckInv, targetVars, vars
<1> QED
  BY <1>2, <1>3 DEF FormInv

\* A request that does not come from a form.
LEMMA TargetStep ==
  ASSUME FormInv, stage = "None", TargetNext, UNCHANGED formVars
  PROVE  FormInv'
<1>1. /\ request \in Requests \union Targets /\ PlanInv /\ AnswerInv /\ CheckInv
  BY DEF FormInv, StageInv
<1>2. /\ UNCHANGED request /\ PlanInv' /\ AnswerInv'
  <2>1. CASE Next /\ UNCHANGED <<prepared, left>>
    <3>1. UNCHANGED request
      BY <2>1 DEF Next, Answer, WriteMetadata, WriteProvision, WritePlain, Reinitialize, Format
    <3> QED
      BY <1>1, <2>1, <3>1, NextStep
  <2>2. CASE PrepareTarget
    <3>1. IsTarget(request) /\ UNCHANGED request
      BY <1>1, <2>2, EntriesOfRequests, TargetsAssumption DEF PrepareTarget
    <3> QED
      BY <1>1, <2>2, <3>1, PrepareStep
  <2>3. CASE CommitTarget
    BY <1>1, <2>3, CommitStep DEF CommitTarget
  <2>4. CASE FormatTarget
    BY <1>1, <2>4, FormatStep DEF FormatTarget
  <2> QED
    BY <2>1, <2>2, <2>3, <2>4 DEF TargetNext
<1>3. StageInv' /\ CheckInv'
  BY <1>1, <1>2 DEF StageInv, CheckInv, formVars
<1> QED
  BY <1>2, <1>3 DEF FormInv

LEMMA FormStep ==
  ASSUME FormInv, FormNext
  PROVE  /\ FormInv'
         /\ stage = "Form" /\ stage' = "Form" => KnownHere(form')
<1>1. CASE stage = "None" /\ TargetNext /\ UNCHANGED formVars
  BY <1>1, TargetStep
<1>2. CASE OnScreen
  BY <1>2, OnScreenStep
<1>3. CASE Leave
  <2>1. stage = "Form" /\ LeaveTo("Away") /\ UNCHANGED targetVars
    BY <1>3 DEF Leave, LeaveTo
  <2>2. CheckInv' /\ IsForm(form') /\ stage' = "Away"
    BY <2>1, LeaveStep
  <2>3. PlanInv' /\ AnswerInv'
    BY <2>1, PlanStays DEF FormInv
  <2>4. StageInv'
    BY <2>1, <2>2 DEF FormInv, StageInv, targetVars, vars
  <2> QED
    BY <2>2, <2>3, <2>4 DEF FormInv
<1>4. CASE Reenter
  <2>1. stage = "Away"
    BY <1>4 DEF Reenter
  <2> QED
    BY <1>4, <2>1, ReenterStep
<1>5. CASE Submit
  <2>1. stage' = "Planning"
    BY <1>5 DEF Submit, LeaveTo
  <2> QED
    BY <1>5, <2>1, SubmitStep
<1>6. CASE FinishPlan
  <2>1. stage = "Planning"
    BY <1>6 DEF FinishPlan
  <2> QED
    BY <1>6, <2>1, FinishPlanStep
<1>7. CASE ReturnToForm
  <2>1. stage # "Form"
    BY <1>7 DEF ReturnToForm
  <2> QED
    BY <1>7, <2>1, ReturnStep
<1> QED
  BY <1>1, <1>2, <1>3, <1>4, <1>5, <1>6, <1>7 DEF FormNext, OnScreen

LEMMA FormStays ==
  ASSUME FormInv, UNCHANGED allVars
  PROVE  FormInv'
<1>1. PlanInv' /\ AnswerInv'
  BY PlanStays DEF FormInv, allVars
<1>2. StageInv' /\ CheckInv'
  BY DEF FormInv, StageInv, CheckInv, allVars, targetVars, vars, formVars
<1> QED
  BY <1>1, <1>2 DEF FormInv
-----------------------------------------------------------------------------
\* The invariant of the form, its request, the plan and what was written of
\* it (src/src/tui/provision, src/src/application/provision,
\* src/src/diskio/transaction.rs).
THEOREM FormInvariant == FormSpec => []FormInv
<1>1. FormInv /\ [FormNext]_allVars => FormInv'
  BY FormStep, FormStays
<1> QED
  BY <1>1, FormInitially, PTL DEF FormSpec

\* Whatever an entry point hands to the sector executor, for every request
\* and every size of the target, can be rolled back and is written data
\* before metadata before the MBR (execute_sector_transaction_observed and
\* the plans of diskio and application/provision).
THEOREM PlansCanBeRolledBack == FormSpec => []ExecutorCanRollBack
<1>1. FormInv => ExecutorCanRollBack
  BY DEF FormInv, AnswerInv, ExecutorCanRollBack
<1> QED
  BY <1>1, FormInvariant, PTL

\* A format writes nothing outside its partition, and the rebuilding of a key
\* adds LBA7 and LBA12 to its own and nothing else
\* (execute_borrowed_data_transaction_scoped_observed,
\* execute_borrowed_reinitialize_transaction), for every partition and write list.
THEOREM PlansStayInScope == FormSpec => []ScopeRespected
<1>1. FormInv => ScopeRespected
  BY DEF FormInv, AnswerInv, ScopeRespected
<1> QED
  BY <1>1, FormInvariant, PTL

\* Every accepted plan, whether asked for directly or submitted by a form,
\* puts each encrypted partition under the key of its contents, opens with
\* the password asked for, and is carried out without a later rejection and
\* without touching what it keeps (TargetProvisionPlan, prepare.rs,
\* validate_target_write_set), for every disk, geometry and password.
THEOREM PlansOpenAsAsked == FormSpec => []DataOpensAsAsked
<1>1. FormInv => DataOpensAsAsked
  BY DEF FormInv, PlanInv, PlanStands, DataOpensAsAsked, Ready
<1> QED
  BY <1>1, FormInvariant, PTL

\* However the user's keys, the probe's and the verifications' answers
\* interleave, a password becomes verified on the form only when the text in
\* its field opens the disk (tui/provision: the revision a verification
\* carries, the default password the probe tried).
THEOREM VerificationsMatchTheText == FormSpec => AnswersMatchTheText
<1>1. ASSUME FormInv, [FormNext]_allVars
      PROVE  [\A d \in Domains :
                stage = "Form" /\ stage' = "Form" /\ ~ form.domain[d].known
                  /\ form'.domain[d].known
                => form'.domain[d].source = DiskDomain(d).pw]_allVars
  <2>1. CASE FormNext
    BY <1>1, <2>1, FormStep DEF KnownHere
  <2>2. CASE UNCHANGED allVars
    BY <2>2
  <2> QED
    BY <1>1, <2>1, <2>2
<1> QED
  BY <1>1, FormInvariant, PTL DEF FormSpec, AnswersMatchTheText
-----------------------------------------------------------------------------
(***************************************************************************)
(* The form and the plan it asks for. First: the request spells out the    *)
(* form's layout, so the planner arrives at the same one.                  *)
(***************************************************************************)
LEMMA EditedToItself ==
  ASSUME NEW e \in Extents, NEW x \in Extents
  PROVE  Edit(e, x.count, x.start) = x
<1>1. e # None /\ x.start # None /\ x.count # None
  BY NoneIsNoExtent, NoneIsNothing DEF Extents
<1>2. Edit(e, x.count, x.start) = [start |-> x.start, count |-> x.count]
  BY <1>1 DEF Edit, Or
<1> QED
  BY <1>2 DEF Extents

LEMMA OverriddenFields ==
  ASSUME NEW l0, NEW old, NEW mode, NEW t
  PROVE  LET l       == Overridden(l0, old, mode, t)
             share0  == Edit(l0.share, t.share, t.shareStart)
             encrypt0 == Edit(l0.encrypt, t.encrypt, t.encryptStart)
         IN /\ l = [boot |-> l.boot, share |-> l.share, encrypt |-> l.encrypt]
            /\ l.boot = Edit(l0.boot, t.boot, t.bootStart)
            /\ share0 = None \/ t.shareStart # None => l.share = share0
            /\ encrypt0 = None \/ t.encryptStart # None => l.encrypt = encrypt0
BY DEF Overridden

LEMMA SpeltOutAgain ==
  ASSUME NEW old, NEW mode \in Modes, NEW edits, IsGeometry(edits),
         NEW l0, IsLayout(mode, l0),
         NEW l, l = Overridden(l0, old, mode, Editable(mode, edits))
  PROVE  Overridden(l0, old, mode, Editable(mode, SpeltOut(l))) = l
<1>1. PICK e, s, t, m :
        /\ e = Editable(mode, edits) /\ s = SpeltOut(l) /\ t = Editable(mode, s)
        /\ m = Overridden(l0, old, mode, t)
  OBVIOUS
<1>2. IsGeometry(e)
  BY <1>1 DEF Editable, IsGeometry
<1>3. IsLayout(mode, l)
  BY <1>1, <1>2, OverriddenIsLayout, Zenon
<1>4. /\ l = [boot |-> l.boot, share |-> l.share, encrypt |-> l.encrypt]
      /\ l.boot = Edit(l0.boot, e.boot, e.bootStart)
      /\ Edit(l0.share, e.share, e.shareStart) = None => l.share = None
      /\ Edit(l0.encrypt, e.encrypt, e.encryptStart) = None => l.encrypt = None
  BY <1>1, OverriddenFields
<1>5. /\ m = [boot |-> m.boot, share |-> m.share, encrypt |-> m.encrypt]
      /\ m.boot = Edit(l0.boot, t.boot, t.bootStart)
      /\ \/ Edit(l0.share, t.share, t.shareStart) = None
         \/ t.shareStart # None
         => m.share = Edit(l0.share, t.share, t.shareStart)
      /\ \/ Edit(l0.encrypt, t.encrypt, t.encryptStart) = None
         \/ t.encryptStart # None
         => m.encrypt = Edit(l0.encrypt, t.encrypt, t.encryptStart)
  BY <1>1, OverriddenFields
<1>6. \A x, y : Edit(None, x, y) = None
  BY DEF Edit
<1>7. /\ s.boot = IF l.boot = None THEN None ELSE l.boot.count
      /\ s.bootStart = IF l.boot = None THEN None ELSE l.boot.start
      /\ s.share = IF l.share = None THEN None ELSE l.share.count
      /\ s.shareStart = IF l.share = None THEN None ELSE l.share.start
      /\ s.encrypt = IF l.encrypt = None THEN None ELSE l.encrypt.count
      /\ s.encryptStart = IF l.encrypt = None THEN None ELSE l.encrypt.start
  BY <1>1 DEF SpeltOut
<1>8. /\ t.share = s.share /\ t.shareStart = s.shareStart
      /\ t.encrypt = s.encrypt /\ t.encryptStart = s.encryptStart
      /\ mode # "WholeDiskEncrypted" => t.boot = s.boot /\ t.bootStart = s.bootStart
  BY <1>1 DEF Editable, SpeltOut
<1>9. mode = "WholeDiskEncrypted" =>
        t.boot = None /\ t.bootStart = None /\ e.boot = None /\ e.bootStart = None
  <2> SUFFICES ASSUME mode = "WholeDiskEncrypted"
               PROVE  t.boot = None /\ t.bootStart = None /\ e.boot = None /\ e.bootStart = None
    OBVIOUS
  <2>1. t = [s EXCEPT !.boot = None, !.bootStart = None]
    BY <1>1 DEF Editable
  <2>2. e = [edits EXCEPT !.boot = None, !.bootStart = None]
    BY <1>1 DEF Editable
  <2> QED
    BY <1>1, <2>1, <2>2 DEF SpeltOut, IsGeometry
<1>10. m.boot = l.boot
  <2>1. CASE mode = "BootShareCombined"
    BY <1>3, <1>5, <1>6, <2>1 DEF IsLayout, ExtentsUnless
  <2>2. CASE mode = "WholeDiskEncrypted"
    BY <1>4, <1>5, <1>9, <2>2
  <2>3. CASE mode \notin {"BootShareCombined", "WholeDiskEncrypted"}
    <3>1. l.boot \in Extents /\ l0.boot \in Extents
      BY <1>3, <2>3 DEF IsLayout, ExtentsUnless
    <3>2. t.boot = l.boot.count /\ t.bootStart = l.boot.start
      BY <1>7, <1>8, <2>3, <3>1, NoneIsNoExtent
    <3> QED
      BY <1>5, <3>1, <3>2, EditedToItself
  <2> QED
    BY <2>1, <2>2, <2>3
<1>11. m.share = l.share
  <2>1. CASE mode = "WholeDiskEncrypted"
    BY <1>3, <1>5, <1>6, <2>1 DEF IsLayout, ExtentsUnless
  <2>2. CASE mode # "WholeDiskEncrypted"
    <3>1. l.share \in Extents /\ l0.share \in Extents
      BY <1>3, <2>2 DEF IsLayout, ExtentsUnless
    <3>2. t.share = l.share.count /\ t.shareStart = l.share.start
      BY <1>7, <1>8, <3>1, NoneIsNoExtent
    <3>3. t.shareStart # None
      BY <3>1, <3>2, NoneIsNothing DEF Extents
    <3> QED
      BY <1>5, <3>1, <3>2, <3>3, EditedToItself
  <2> QED
    BY <2>1, <2>2
<1>12. m.encrypt = l.encrypt
  <2>1. CASE mode = "IntranetExtranetDualPartition"
    BY <1>3, <1>5, <1>6, <2>1 DEF IsLayout, ExtentsUnless
  <2>2. CASE mode # "IntranetExtranetDualPartition"
    <3>1. l.encrypt \in Extents /\ l0.encrypt \in Extents
      BY <1>3, <2>2 DEF IsLayout, ExtentsUnless
    <3>2. t.encrypt = l.encrypt.count /\ t.encryptStart = l.encrypt.start
      BY <1>7, <1>8, <3>1, NoneIsNoExtent
    <3>3. t.encryptStart # None
      BY <3>1, <3>2, NoneIsNothing DEF Extents
    <3> QED
      BY <1>5, <3>1, <3>2, <3>3, EditedToItself
  <2> QED
    BY <2>1, <2>2
<1> QED
  BY <1>1, <1>4, <1>5, <1>10, <1>11, <1>12
-----------------------------------------------------------------------------
(***************************************************************************)
(* The form's partitions, and the request's fields for each.               *)
(***************************************************************************)
Slot(f, i) ==
  LET extent == Slots(f.mode, FormLayout(f))[i]
  IN [role |-> Roles[f.mode][i], start |-> extent.start, count |-> extent.count]

LEMMA PartsOfForm ==
  ASSUME NEW f
  PROVE  FormParts(f) = {Slot(f, i) : i \in DOMAIN Roles[f.mode]}
<1>1. PICK slots, parts : /\ slots = Slots(f.mode, FormLayout(f))
                          /\ parts = WithRoles(Roles[f.mode], slots)
  OBVIOUS
<1>2. DOMAIN slots = DOMAIN Roles[f.mode]
  BY <1>1 DEF Slots
<1>3. /\ DOMAIN parts = DOMAIN Roles[f.mode]
      /\ \A i \in DOMAIN Roles[f.mode] : parts[i] = Slot(f, i)
  BY <1>1, <1>2 DEF WithRoles, Slot
<1>4. FormParts(f) = {parts[i] : i \in DOMAIN parts}
  BY <1>1 DEF FormParts, Range
<1> QED
  BY <1>3, <1>4

\* No two partitions of a mode are entered in the same field.
LEMMA FieldsOfModes ==
  ASSUME NEW mode \in Modes, NEW i \in DOMAIN Roles[mode], NEW j \in DOMAIN Roles[mode],
         Field(Roles[mode][i]) = Field(Roles[mode][j])
  PROVE  i = j
<1>1. CASE mode = "DefaultThreePartition"
  <2>1. Roles[mode] = <<"Boot", "Share", "Encrypt">>
    BY <1>1 DEF Roles
  <2> QED
    BY <2>1 DEF Field
<1>2. CASE mode = "BootShareCombined"
  <2>1. Roles[mode] = <<"BootShareCombined", "Encrypt">>
    BY <1>2 DEF Roles
  <2> QED
    BY <2>1 DEF Field
<1>3. CASE mode = "WholeDiskEncrypted"
  <2>1. Roles[mode] = <<"CompatibilityReserve", "Encrypt">>
    BY <1>3 DEF Roles
  <2> QED
    BY <2>1 DEF Field
<1>4. CASE mode = "IntranetExtranetDualPartition"
  <2>1. Roles[mode] = <<"Boot", "Share">>
    BY <1>4 DEF Roles
  <2> QED
    BY <2>1 DEF Field
<1> QED
  BY <1>1, <1>2, <1>3, <1>4 DEF Modes

LEMMA ChosenIsFormatted ==
  ASSUME NEW f, IsForm(f), NEW i \in DOMAIN Roles[f.mode], NEW r, r = RequestOf(f)
  PROVE  Chosen(r, Roles[f.mode][i]) <=> Formatted(f, Slot(f, i))
<1>1. PICK role : role = Roles[f.mode][i]
  OBVIOUS
<1>2. \A j : Slot(f, j).role = Roles[f.mode][j]
  BY DEF Slot
<1>3. r.format = {Field(p.role) : p \in {q \in FormParts(f) : Formatted(f, q)}}
  BY DEF RequestOf
<1>4. ASSUME Formatted(f, Slot(f, i)) PROVE Chosen(r, role)
  <2>1. role # "CompatibilityReserve"
    BY <1>1, <1>2, <1>4 DEF Formatted
  <2>2. Slot(f, i) \in {q \in FormParts(f) : Formatted(f, q)}
    BY <1>4, PartsOfForm
  <2>3. Field(Slot(f, i).role) \in r.format
    BY <1>3, <2>2
  <2> QED
    BY <1>1, <1>2, <2>1, <2>3 DEF Chosen
<1>5. ASSUME Chosen(r, role) PROVE Formatted(f, Slot(f, i))
  <2>1. PICK p \in FormParts(f) : Formatted(f, p) /\ Field(p.role) = Field(role)
    BY <1>3, <1>5 DEF Chosen
  <2>2. PICK j \in DOMAIN Roles[f.mode] : p = Slot(f, j)
    BY PartsOfForm
  <2>3. f.mode \in Modes /\ Field(Roles[f.mode][i]) = Field(Roles[f.mode][j])
    BY <1>1, <1>2, <2>1, <2>2 DEF IsForm
  <2>4. i = j
    BY <2>3, FieldsOfModes
  <2> QED
    BY <2>1, <2>2, <2>4
<1> QED
  BY <1>1, <1>4, <1>5

LEMMA AskedOfPart ==
  ASSUME NEW f, IsForm(f), NEW i \in DOMAIN Roles[f.mode], NEW r, r = RequestOf(f),
         NEW role, role = Roles[f.mode][i], Domain(role) # None
  PROVE  /\ Domain(role) \in Domains
         /\ Asks(f, Domain(role)) <=> Shown(f, Slot(f, i)).asks
         /\ PasswordOf(r.target, role) =
              IF Shown(f, Slot(f, i)).asks THEN TargetText(f, Domain(role)) ELSE None
         /\ PasswordOf(r.source, role) =
              IF f.domain[Domain(role)].source = Empty THEN None
              ELSE f.domain[Domain(role)].source
<1>1. \A j : Slot(f, j).role = Roles[f.mode][j]
  BY DEF Slot
<1>2. f.mode \in Modes
  BY DEF IsForm
<1>3. Domain(role) = Field(role)
  BY DEF Domain
<1>4. Domain(role) \in Domains
  <2>1. role \in AllRoles
    BY <1>2, RolesOfModes DEF AllRoles
  <2> QED
    BY <1>3, <2>1, DomainsOfRoles DEF Field, Domains
<1>5. ASSUME Asks(f, Domain(role)) PROVE Shown(f, Slot(f, i)).asks
  <2>1. PICK p \in FormParts(f) : Domain(p.role) = Domain(role) /\ Shown(f, p).asks
    BY <1>5 DEF Asks
  <2>2. PICK j \in DOMAIN Roles[f.mode] : p = Slot(f, j)
    BY PartsOfForm
  <2>3. Field(p.role) = Domain(p.role)
    BY <2>1 DEF Domain
  <2>4. Field(Roles[f.mode][i]) = Field(Roles[f.mode][j])
    BY <1>1, <1>3, <2>1, <2>2, <2>3
  <2>5. i = j
    BY <1>2, <2>4, FieldsOfModes
  <2> QED
    BY <2>1, <2>2, <2>5
<1>6. ASSUME Shown(f, Slot(f, i)).asks PROVE Asks(f, Domain(role))
  BY <1>1, <1>6, PartsOfForm DEF Asks
<1>7. PICK d : d = Domain(role)
  OBVIOUS
<1>8. /\ r.target = [e \in Domains |-> IF Asks(f, e) THEN TargetText(f, e) ELSE None]
      /\ r.source = [e \in Domains |-> IF f.domain[e].source = Empty THEN None
                                       ELSE f.domain[e].source]
  BY DEF RequestOf
<1>9. PasswordOf(r.target, role) = r.target[d] /\ PasswordOf(r.source, role) = r.source[d]
  BY <1>7 DEF PasswordOf
<1>10. /\ r.target[d] = IF Asks(f, d) THEN TargetText(f, d) ELSE None
       /\ r.source[d] = IF f.domain[d].source = Empty THEN None ELSE f.domain[d].source
  BY <1>4, <1>7, <1>8
<1> QED
  BY <1>4, <1>5, <1>6, <1>7, <1>9, <1>10, Zenon
-----------------------------------------------------------------------------
(***************************************************************************)
(* What the form shows depends on a partition's place only.                *)
(***************************************************************************)
LEMMA ForecastByPlace ==
  ASSUME NEW f, NEW p, NEW q, p.role = q.role, p.start = q.start, p.count = q.count
  PROVE  Shown(f, p) = Shown(f, q)
<1>1. Candidate(f, p) = Candidate(f, q)
  BY DEF Candidate
<1>2. PlainCandidate(f, p) = PlainCandidate(f, q)
  BY DEF PlainCandidate, KeptPlain
<1>3. ASSUME NEW b PROVE Forecast(f, p, b) = Forecast(f, q, b)
  <2>1. ForecastPlain(f, p, b) = ForecastPlain(f, q, b)
    BY <1>1, <1>2, Zenon DEF ForecastPlain
  <2>2. \A x : ForecastOld(f, p, b, x) = ForecastOld(f, q, b, x)
    BY <1>1, Zenon DEF ForecastOld
  <2> QED
    BY <2>1, <2>2, Zenon DEF Forecast
<1>4. MustRebuild(f, p) <=> MustRebuild(f, q)
  <2>1. Forecast(f, p, FALSE).kind = Forecast(f, q, FALSE).kind
    BY <1>3
  <2> QED
    BY <1>1, <1>2, <2>1 DEF MustRebuild
<1>5. Formatted(f, p) = Formatted(f, q)
  BY <1>4, Zenon DEF Formatted
<1> QED
  BY <1>3, <1>5, Zenon DEF Shown

\* What may not be shown when the form is submitted.
Refusals == {"Waiting", "NeedsFormat", "NeedsTargetPassword"}

LEMMA StateOfOld ==
  ASSUME NEW f, IsForm(f), NEW role \in DOMAIN f.old, NEW d \in Domains, d = Domain(role)
  PROVE  /\ SourceState(f, d) \in {"Verifying", "Failed", "Verified", "Unknown"}
         /\ SourceState(f, d) = "Verified" => f.domain[d].known /\ f.domain[d].check = "Idle"
<1>1. HasDomain(f, d)
  BY DEF HasDomain
<1>2. f.domain[d].check \in {"Idle", "Verifying", "Failed"}
  BY DEF IsForm, IsEntry
<1> QED
  BY <1>1, <1>2 DEF SourceState

LEMMA ShownFormatted ==
  ASSUME NEW f, IsForm(f), NEW q, Formatted(f, q), Shown(f, q).kind \notin Refusals,
         Domain(q.role) \in Domains \union {None}
  PROVE  /\ Shown(f, q).kind = "Rebuild"
         /\ Domain(q.role) # None => Shown(f, q).asks
<1>1. PICK v, d : v = Shown(f, q) /\ d = Domain(q.role)
  OBVIOUS
<1>2. v = Forecast(f, q, TRUE)
  <2>1. Formatted(f, q) = TRUE
    BY Zenon DEF Formatted
  <2> QED
    BY <1>1, <2>1, Zenon DEF Shown
<1>3. \A k, a : Verdict(k, a).kind = k /\ Verdict(k, a).asks = a
  BY DEF Verdict
<1>4. CASE d = None
  <2>1. v = ForecastPlain(f, q, TRUE)
    BY <1>1, <1>2, <1>4 DEF Forecast
  <2>2. v.kind = "Rebuild"
    BY <1>3, <2>1 DEF ForecastPlain, RebuildIf
  <2> QED
    BY <1>1, <1>4, <2>2
<1>5. CASE d # None /\ q.role \notin DOMAIN f.old
  <2>1. PICK intent : v = ForecastNew(f, TRUE, intent)
    BY <1>1, <1>2, <1>5 DEF Forecast
  <2>2. v = Verdict("Rebuild", TRUE) \/ v = Verdict("NeedsTargetPassword", FALSE)
    BY <2>1 DEF ForecastNew, RebuildIf
  <2>3. v = Verdict("Rebuild", TRUE)
    BY <1>1, <1>3, <2>2, ZenonT(40) DEF Refusals
  <2> QED
    BY <1>1, <1>3, <2>3
<1>6. CASE d # None /\ q.role \in DOMAIN f.old
  <2>1. PICK intent : intent = Intent(f, d, TRUE) /\ v = ForecastOld(f, q, TRUE, intent)
    BY <1>1, <1>2, <1>6 DEF Forecast
  <2>2. SourceState(f, d) # "NotApplicable"
    BY <1>1, <1>6, StateOfOld
  <2>3. intent \in {"Rebuild", "NeedsTargetPassword"}
    BY <2>1, <2>2 DEF Intent, Decide
  <2>4. v = Verdict(intent, intent \in {"Rebuild", "Rewrap"})
    BY <2>1, <2>3 DEF ForecastOld
  <2>5. intent = "Rebuild"
    BY <1>1, <1>3, <2>3, <2>4 DEF Refusals
  <2> QED
    BY <1>1, <1>3, <2>4, <2>5
<1> QED
  BY <1>4, <1>5, <1>6

LEMMA ShownPlain ==
  ASSUME NEW f, NEW q, ~ Formatted(f, q), q.role # "CompatibilityReserve", Domain(q.role) = None
  PROVE  /\ Shown(f, q).kind = "Preserve"
         /\ IF q.role \in DOMAIN f.old THEN Candidate(f, q)
            ELSE Plain(f) /\ PlainCandidate(f, q)
<1>1. /\ ~ MustRebuild(f, q)
      /\ Formatted(f, q) = FALSE
  BY DEF Formatted
<1>2. IF q.role \in DOMAIN f.old THEN Candidate(f, q)
      ELSE Plain(f) /\ PlainCandidate(f, q)
  BY <1>1 DEF MustRebuild
<1>3. Shown(f, q) = ForecastPlain(f, q, FALSE)
  BY <1>1 DEF Shown, Forecast
<1>4. Shown(f, q).kind = "Preserve"
  <2>1. Shown(f, q) = Verdict("Preserve", FALSE)
    BY <1>2, <1>3, Zenon DEF ForecastPlain
  <2> QED
    BY <2>1 DEF Verdict
<1> QED
  BY <1>2, <1>4

LEMMA ShownKept ==
  ASSUME NEW f, IsForm(f), NEW q, ~ Formatted(f, q), Shown(f, q).kind \notin Refusals,
         NEW d \in Domains, d = Domain(q.role), d # None
  PROVE  /\ q.role \in DOMAIN f.old /\ Candidate(f, q)
         /\ \/ Shown(f, q).kind = "Passthrough" /\ ~ Shown(f, q).asks
            \/ /\ Shown(f, q).kind = "Rewrap" /\ Shown(f, q).asks
               /\ SourceState(f, d) = "Verified"
               /\ f.domain[d].aim = "Explicit" /\ f.domain[d].target # f.domain[d].source
<1>1. q.role # "CompatibilityReserve"
  BY DEF Domain
<1>2. ~ MustRebuild(f, q) /\ Formatted(f, q) = FALSE
  BY <1>1 DEF Formatted
<1>3. /\ q.role \in DOMAIN f.old /\ Candidate(f, q)
      /\ SameCipher(f, d) \/ SourceState(f, d) = "Verifying"
  BY <1>1, <1>2 DEF MustRebuild
<1>4. PICK v, intent : /\ v = Shown(f, q) /\ intent = Intent(f, d, FALSE)
                       /\ v = ForecastOld(f, q, FALSE, intent)
  BY <1>2, <1>3 DEF Shown, Forecast
<1>5. \A k, a : Verdict(k, a).kind = k /\ Verdict(k, a).asks = a
  BY DEF Verdict
<1>6. SourceState(f, d) \in {"Verifying", "Failed", "Verified", "Unknown"}
  BY <1>3, StateOfOld
<1>7. SourceState(f, d) # "Verifying"
  <2>1. SUFFICES ASSUME SourceState(f, d) = "Verifying" PROVE FALSE
    OBVIOUS
  <2>2. intent = "Waiting"
    BY <1>4, <2>1 DEF Intent, Decide
  <2>3. v = Verdict(intent, intent \in {"Rebuild", "Rewrap"})
    BY <1>3, <1>4, <2>2 DEF ForecastOld
  <2>4. v.kind = "Waiting"
    BY <1>5, <2>2, <2>3, Zenon
  <2> QED
    BY <1>4, <2>4 DEF Refusals
<1>8. /\ intent \in {"NeedsFormat", "Passthrough", "Rewrap"}
      /\ intent = "Rewrap" => /\ SourceState(f, d) = "Verified"
                              /\ f.domain[d].aim # "Passthrough"
                              /\ f.domain[d].target # f.domain[d].source
  BY <1>4, <1>6, <1>7 DEF Intent, Decide
<1>9. CASE intent = "Passthrough"
  <2>1. v = Verdict("Passthrough", FALSE) \/ v = Verdict("NeedsFormat", FALSE)
    BY <1>3, <1>4, <1>7, <1>9 DEF ForecastOld, SameCipher
  <2>2. v = Verdict("Passthrough", FALSE)
    BY <1>4, <1>5, <2>1 DEF Refusals
  <2> QED
    BY <1>3, <1>4, <1>5, <2>2, ZenonT(40)
<1>10. CASE intent # "Passthrough"
  <2>1. v = Verdict(intent, intent \in {"Rebuild", "Rewrap"})
    BY <1>3, <1>4, <1>7, <1>8, <1>10 DEF ForecastOld
  <2>2. intent = "Rewrap"
    <3>1. v.kind = intent
      BY <1>5, <2>1, Zenon
    <3> QED
      BY <1>4, <1>8, <1>10, <3>1 DEF Refusals
  <2>3. f.domain[d].aim = "Explicit"
    BY <1>8, <2>2 DEF IsForm, IsEntry
  <2>4. v.kind = "Rewrap" /\ v.asks
    <3>1. v.kind = intent /\ v.asks = (intent \in {"Rebuild", "Rewrap"})
      BY <1>5, <2>1, Zenon
    <3> QED
      BY <2>2, <3>1
  <2> QED
    BY <1>3, <1>4, <1>8, <2>2, <2>3, <2>4
<1> QED
  BY <1>9, <1>10
-----------------------------------------------------------------------------
(***************************************************************************)
(* One partition of the plan: its fate is the one shown, and nothing but   *)
(* what is hidden from the form can have it refused.                       *)
(***************************************************************************)
LEMMA RequestFields ==
  ASSUME NEW f, NEW r, r = RequestOf(f)
  PROVE  /\ r.old = f.old /\ r.extents = f.extents /\ r.mode = f.mode
         /\ r.lce = f.lce /\ r.total = f.total
         /\ r.edits = Editable(f.mode, SpeltOut(FormLayout(f)))
BY DEF RequestOf

LEMMA SlotIsPlaced ==
  ASSUME NEW f, IsForm(f), NEW i \in DOMAIN Roles[f.mode]
  PROVE  /\ Slot(f, i).role = Roles[f.mode][i] /\ Slot(f, i).role \in AllRoles
         /\ Domain(Slot(f, i).role) \in Domains \union {None}
         /\ Slot(f, i).start = Slots(f.mode, FormLayout(f))[i].start
         /\ Slot(f, i).count = Slots(f.mode, FormLayout(f))[i].count
<1>1. f.mode \in Modes
  BY DEF IsForm
<1>2. Roles[f.mode][i] \in AllRoles
  BY <1>1, RolesOfModes DEF AllRoles
<1>3. Domain(Roles[f.mode][i]) \in Domains \union {None}
  BY <1>2, DomainsOfRoles DEF Domains, Domain, Field
<1> QED
  BY <1>2, <1>3 DEF Slot

LEMMA ReserveIsRebuilt ==
  ASSUME NEW f, NEW q, q.role = "CompatibilityReserve",
         NEW r, NEW e, NEW p, p = Planning(r, q.role, e)
  PROVE  Shown(f, q).kind = "Rebuild" /\ p.disposition = "Rebuild" /\ p.password = None
<1>1. Domain(q.role) = None /\ Formatted(f, q) = FALSE /\ ~ Chosen(r, q.role)
  BY DEF Domain, Formatted, Chosen
<1>2. PICK asks : Shown(f, q) = Verdict("Rebuild", asks)
  BY <1>1 DEF Shown, Forecast, ForecastPlain
<1>3. ~ Kept(r, q.role, e) /\ ~ KeptPlain(r, q.role, e)
  BY DEF Kept, Compatible, KeptPlain
<1>4. PICK d : d = Disposition(r, q.role, e)
  OBVIOUS
<1>5. d = <<"Rebuild", None>>
  BY <1>1, <1>3, <1>4 DEF Disposition
<1>6. p.disposition = d[1] /\ p.password = d[2]
  BY <1>1, <1>4 DEF Planning
<1> QED
  BY <1>2, <1>5, <1>6 DEF Verdict

LEMMA FateIsShown ==
  ASSUME NEW f, IsForm(f), NEW r, r = RequestOf(f), NEW i \in DOMAIN Roles[f.mode],
         NEW q, q = Slot(f, i), Shown(f, q).kind \notin Refusals,
         NEW e, NEW p, p = Planning(r, q.role, e), ~ NeedsFormat(r, p)
  PROVE  \/ Shown(f, q).kind = Fate(p)
         \/ /\ Mistaken(f, q.role)
            /\ Shown(f, q).kind = "Rewrap" /\ Fate(p) = "Passthrough"
<1>1. PICK role, d, w : role = q.role /\ d = Domain(role)
                        /\ w = IF Chosen(r, role) THEN Rebuilt(r, role)
                               ELSE Disposition(r, role, e)
  OBVIOUS
<1>2. role \in AllRoles /\ role = Roles[f.mode][i] /\ d \in Domains \union {None}
  BY <1>1, SlotIsPlaced
<1>3. p.role = role /\ p.disposition = w[1] /\ p.password = w[2]
  BY <1>1 DEF Planning
<1>4. /\ w[2] # "Blocked"
      /\ w[1] = "Rebuild" => Chosen(r, role) \/ role = "CompatibilityReserve"
  BY <1>3 DEF NeedsFormat
<1>5. Chosen(r, role) <=> Formatted(f, q)
  BY <1>2, ChosenIsFormatted
<1>6. CASE Formatted(f, q)
  <2>1. Shown(f, q).kind = "Rebuild"
    BY <1>1, <1>2, <1>6, ShownFormatted
  <2>2. w[1] = "Rebuild"
    BY <1>1, <1>5, <1>6 DEF Rebuilt
  <2> QED
    BY <1>3, <2>1, <2>2 DEF Fate
<1>7. CASE role = "CompatibilityReserve"
  <2>1. Shown(f, q).kind = "Rebuild" /\ p.disposition = "Rebuild"
    BY <1>1, <1>7, ReserveIsRebuilt
  <2> QED
    BY <2>1 DEF Fate
<1>8. CASE ~ Formatted(f, q) /\ role # "CompatibilityReserve" /\ d = None
  <2>1. Shown(f, q).kind = "Preserve"
    BY <1>1, <1>8, ShownPlain
  <2>2. w = Disposition(r, role, e)
    BY <1>1, <1>5, <1>8
  <2>3. w[1] \in {"PreserveVerified", "Rebuild"}
    <3>1. Domain(role) = None
      BY <1>1, <1>8
    <3> QED
      BY <1>2, <2>2, <3>1, DispositionOfKept
  <2>4. w[1] = "PreserveVerified"
    BY <1>4, <1>5, <1>8, <2>3
  <2> QED
    BY <1>1, <1>3, <1>8, <2>1, <2>4 DEF Fate
<1>9. CASE ~ Formatted(f, q) /\ d # None
  <2>1. PICK known, asked : known = VerifiedPassword(r, role) /\ asked = PasswordOf(r.target, role)
    OBVIOUS
  <2>2. w = Disposition(r, role, e)
    BY <1>1, <1>5, <1>9
  <2>3. \/ w[1] = "PreserveOpaque" /\ asked = None
        \/ w[1] = "PreserveVerified" /\ known # None /\ asked \in {None, known}
        \/ w[1] = "RewrapVerified" /\ asked # None
    <3>1. role \in AllRoles /\ Domain(role) # None /\ w[2] # "Blocked"
      BY <1>1, <1>2, <1>4, <1>9
    <3>2. \/ w[1] = "PreserveOpaque" /\ PasswordOf(r.target, role) = None
          \/ /\ w[1] = "PreserveVerified" /\ VerifiedPassword(r, role) # None
             /\ PasswordOf(r.target, role) \in {None, VerifiedPassword(r, role)}
          \/ w[1] = "RewrapVerified" /\ PasswordOf(r.target, role) # None
      BY <2>2, <3>1, DispositionOfKept
    <3> QED
      BY <2>1, <3>2
  <2>4. Fate(p) = IF w[1] = "RewrapVerified" THEN "Rewrap" ELSE "Passthrough"
    BY <1>1, <1>3, <1>9, <2>3 DEF Fate
  <2>5. /\ d \in Domains /\ role \in DOMAIN f.old
        /\ \/ Shown(f, q).kind = "Passthrough" /\ ~ Shown(f, q).asks
           \/ /\ Shown(f, q).kind = "Rewrap" /\ Shown(f, q).asks
              /\ SourceState(f, d) = "Verified"
              /\ f.domain[d].aim = "Explicit" /\ f.domain[d].target # f.domain[d].source
    BY <1>1, <1>2, <1>9, ShownKept, ZenonT(40)
  <2>6. asked = IF Shown(f, q).asks THEN TargetText(f, d) ELSE None
    BY <1>1, <1>2, <1>9, <2>1, AskedOfPart
  <2>7. CASE ~ Shown(f, q).asks
    <3>1. asked = None /\ Shown(f, q).kind = "Passthrough"
      BY <2>5, <2>6, <2>7, Zenon
    <3>2. w[1] # "RewrapVerified"
      BY <2>3, <3>1
    <3> QED
      BY <2>4, <3>1, <3>2
  <2>8. CASE Shown(f, q).asks
    <3>1. asked = f.domain[d].target
      BY <2>5, <2>6, <2>8 DEF TargetText
    <3>2. asked # None
      BY <2>5, <3>1 DEF IsForm, IsEntry
    <3>3. CASE w[1] = "RewrapVerified"
      BY <2>4, <2>5, <2>8, <3>3
    <3>4. CASE w[1] = "PreserveVerified" /\ known # None /\ asked = known
      <4>1. known = f.old[role].pw
        BY <2>1, <3>4, RequestFields DEF VerifiedPassword
      <4>2. f.domain[d].source # f.old[role].pw
        BY <2>5, <2>8, <3>1, <3>4, <4>1
      <4>3. Mistaken(f, role)
        BY <1>1, <1>9, <2>5, <2>8, <4>2 DEF Mistaken
      <4> QED
        BY <1>1, <2>4, <2>5, <2>8, <3>4, <4>3
    <3> QED
      BY <2>3, <3>2, <3>3, <3>4
  <2> QED
    BY <2>7, <2>8
<1> QED
  BY <1>2, <1>6, <1>7, <1>8, <1>9

\* A source password that is verified is not an empty field.
Spelt(f) ==
  \A d \in Domains :
    HasDomain(f, d) /\ Active(f.mode, d) /\ SourceState(f, d) = "Verified"
    => f.domain[d].source # Empty

LEMMA KeptAsShown ==
  ASSUME NEW r, NEW role \in DOMAIN r.old, NEW e, ~ Chosen(r, role),
         role # "CompatibilityReserve",
         r.old[role].start = e.start, r.old[role].count = e.count, r.old[role].fs # None,
         Domain(role) # None => r.old[role].wrap = "Sm4",
         Encrypted(role) => Domain(role) # None
  PROVE  Kept(r, role, e)
<1>1. Compatible(r, role, e)
  BY DEF Compatible
<1>2. TargetFs(r, role) = SeenFs(r, role)
  BY DEF TargetFs
<1>3. CASE SeenFs(r, role) # None
  BY <1>1, <1>2, <1>3 DEF Kept, SameFs
<1>4. CASE SeenFs(r, role) = None
  <2>1. Encrypted(role) /\ (VerifiedPassword(r, role) = None \/ r.old[role].wrap # "Sm4")
    BY <1>4 DEF SeenFs
  <2>2. Domain(role) # None /\ VerifiedPassword(r, role) = None
    BY <2>1
  <2> QED
    BY <1>1, <1>4, <2>2 DEF Kept, MayBeSameFs
<1> QED
  BY <1>3, <1>4

LEMMA PlannedAsShown ==
  ASSUME NEW f, IsForm(f), Spelt(f), NEW r, r = RequestOf(f), NEW i \in DOMAIN Roles[f.mode],
         NEW q, q = Slot(f, i), Shown(f, q).kind \notin Refusals,
         q.role \in DOMAIN f.old => ~ Hidden(f, q.role),
         NEW e, e.start = q.start, e.count = q.count, NEW p, p = Planning(r, q.role, e)
  PROVE  ~ NeedsFormat(r, p) /\ ~ NoMaterial(r, p)
<1>1. PICK role, d, w : role = q.role /\ d = Domain(role)
                        /\ w = IF Chosen(r, role) THEN Rebuilt(r, role)
                               ELSE Disposition(r, role, e)
  OBVIOUS
<1>2. role \in AllRoles /\ role = Roles[f.mode][i] /\ d \in Domains \union {None}
  BY <1>1, SlotIsPlaced
<1>3. p.role = role /\ p.disposition = w[1] /\ p.password = w[2]
  BY <1>1 DEF Planning
<1>4. Chosen(r, role) <=> Formatted(f, q)
  BY <1>2, ChosenIsFormatted
<1>5. None \notin {"Passthrough", "Rewrap", "Rebuild", "Blocked"}
  BY NoneIsNothing
<1>6. r.old = f.old /\ r.extents = f.extents
  BY RequestFields
<1>7. PICK known, asked : known = VerifiedPassword(r, role) /\ asked = PasswordOf(r.target, role)
  OBVIOUS
<1>8. d # None => asked = IF Shown(f, q).asks THEN TargetText(f, d) ELSE None
  BY <1>1, <1>2, <1>7, AskedOfPart
<1>9. d # None => TargetText(f, d) # None
  BY <1>2 DEF TargetText, IsForm, IsEntry
<1>10. CASE Formatted(f, q)
  <2>1. w = <<"Rebuild", IF d = None THEN None ELSE "Rebuild">>
    BY <1>1, <1>4, <1>10 DEF Rebuilt
  <2>2. w[1] = "Rebuild" /\ w[2] # "Blocked"
    BY <1>5, <2>1
  <2>3. ~ NeedsFormat(r, p)
    BY <1>3, <1>4, <1>10, <2>2 DEF NeedsFormat
  <2>4. d # None => asked # None
    BY <1>1, <1>2, <1>8, <1>9, <1>10, ShownFormatted
  <2>5. ~ NoMaterial(r, p)
    BY <1>1, <1>3, <1>7, <2>2, <2>4 DEF NoMaterial
  <2> QED
    BY <2>3, <2>5
<1>11. CASE role = "CompatibilityReserve"
  <2>1. p.disposition = "Rebuild" /\ p.password = None
    BY <1>1, <1>11, ReserveIsRebuilt
  <2>2. d = None
    BY <1>1, <1>11 DEF Domain
  <2> QED
    BY <1>1, <1>3, <1>5, <1>11, <2>1, <2>2 DEF NeedsFormat, NoMaterial
<1>12. CASE ~ Formatted(f, q) /\ role # "CompatibilityReserve" /\ d = None
  <2>1. w = Disposition(r, role, e)
    BY <1>1, <1>4, <1>12
  <2>2. IF role \in DOMAIN f.old THEN Candidate(f, q) ELSE Plain(f) /\ PlainCandidate(f, q)
    BY <1>1, <1>12, ShownPlain
  <2>3. Kept(r, role, e) \/ KeptPlain(r, role, e)
    <3>1. CASE role \in DOMAIN f.old
      <4>1. f.old[role].start = e.start /\ f.old[role].count = e.count
        BY <1>1, <2>2, <3>1 DEF Candidate
      <4>2. f.old[role].fs # None
        BY <1>1, <3>1 DEF Hidden
      <4>3. ~ Encrypted(role)
        BY <1>1, <1>2, <1>12, DomainsOfRoles
      <4> QED
        BY <1>1, <1>4, <1>6, <1>12, <3>1, <4>1, <4>2, <4>3, KeptAsShown
    <3>2. CASE role \notin DOMAIN f.old
      <4>1. PICK g : g = [f EXCEPT !.format = {}]
        OBVIOUS
      <4>2. KeptPlain(g, role, q) /\ DOMAIN f.old = {}
        BY <1>1, <2>2, <3>2, <4>1 DEF PlainCandidate, Plain
      <4>3. g.old = f.old /\ g.extents = f.extents /\ g.format = {}
        BY <4>1 DEF IsForm
      <4>4. role = "Boot"
        BY <4>2 DEF KeptPlain
      <4>5. TargetFs(g, role) = "Fat16" /\ TargetFs(r, role) = "Fat16"
        BY <1>4, <1>6, <1>12, <3>2, <4>3, <4>4 DEF TargetFs, Chosen
      <4> QED
        BY <1>6, <4>2, <4>3, <4>4, <4>5 DEF KeptPlain
    <3> QED
      BY <3>1, <3>2
  <2>4. w[1] = "PreserveVerified" /\ w[2] = None
    <3>1. w = <<"PreserveVerified", None>>
      BY <1>1, <1>12, <2>1, <2>3 DEF Disposition
    <3> QED
      BY <3>1
  <2> QED
    BY <1>1, <1>3, <1>5, <1>12, <2>4 DEF NeedsFormat, NoMaterial
<1>13. CASE ~ Formatted(f, q) /\ d # None
  <2>1. w = Disposition(r, role, e)
    BY <1>1, <1>4, <1>13
  <2>2. /\ d \in Domains /\ role \in DOMAIN f.old /\ Candidate(f, q)
        /\ \/ Shown(f, q).kind = "Passthrough" /\ ~ Shown(f, q).asks
           \/ Shown(f, q).asks /\ SourceState(f, d) = "Verified"
    BY <1>1, <1>2, <1>13, ShownKept
  <2>3. /\ f.old[role].fs # None /\ f.old[role].wrap = "Sm4"
        /\ f.old[role].legacy = f.old[role].pw /\ ~ Mistaken(f, role)
    BY <1>1, <1>13, <2>2 DEF Hidden
  <2>4. Kept(r, role, e)
    <3>1. f.old[role].start = e.start /\ f.old[role].count = e.count
      BY <1>1, <2>2 DEF Candidate
    <3>2. role # "CompatibilityReserve"
      BY <1>1, <1>13 DEF Domain
    <3> QED
      BY <1>1, <1>4, <1>6, <1>13, <2>2, <2>3, <3>1, <3>2, KeptAsShown
  <2>5. asked # None => known # None
    <3>1. SUFFICES ASSUME asked # None PROVE known # None
      OBVIOUS
    <3>2. SourceState(f, d) = "Verified"
      BY <1>8, <1>13, <2>2, <3>1
    <3>3. f.domain[d].source = f.old[role].pw
      BY <1>1, <1>13, <2>2, <2>3, <3>2 DEF Mistaken
    <3>4. HasDomain(f, d) /\ Active(f.mode, d)
      BY <1>1, <1>2, <2>2 DEF HasDomain, Active
    <3>5. f.domain[d].source # Empty /\ f.domain[d].source # None
      BY <2>2, <3>2, <3>4 DEF Spelt, IsForm, IsEntry
    <3>6. PasswordOf(r.source, role) = f.old[role].pw
      <4>1. Domain(role) = d /\ role = Roles[f.mode][i] /\ Domain(role) # None
        BY <1>1, <1>2, <1>13
      <4>2. PasswordOf(r.source, role) =
              IF f.domain[d].source = Empty THEN None ELSE f.domain[d].source
        BY <4>1, AskedOfPart
      <4> QED
        BY <3>3, <3>5, <4>2
    <3>7. VerifiedPassword(r, role) = f.old[role].pw
      BY <1>1, <1>6, <1>13, <3>6 DEF VerifiedPassword
    <3> QED
      BY <1>7, <3>3, <3>5, <3>7
  <2>6. /\ w[1] \in {"PreserveOpaque", "PreserveVerified", "RewrapVerified"}
        /\ w[2] # "Blocked"
        /\ w[1] = "RewrapVerified" => known # None
    <3>1. CASE known = None
      <4>1. w = <<"PreserveOpaque", "Passthrough">>
        BY <1>1, <1>7, <1>13, <2>1, <2>4, <2>5, <3>1 DEF Disposition
      <4> QED
        BY <4>1
    <3>2. CASE known # None /\ asked \in {None, known}
      <4>1. w = <<"PreserveVerified", "Passthrough">>
        BY <1>1, <1>7, <1>13, <2>1, <2>4, <3>2 DEF Disposition
      <4> QED
        BY <4>1
    <3>3. CASE known # None /\ asked \notin {None, known}
      <4>1. w = <<"RewrapVerified", "Rewrap">>
        BY <1>1, <1>7, <1>13, <2>1, <2>4, <3>3 DEF Disposition
      <4> QED
        BY <3>3, <4>1
    <3> QED
      BY <3>1, <3>2, <3>3
  <2>7. ~ NeedsFormat(r, p)
    BY <1>3, <2>6 DEF NeedsFormat
  <2>8. known # None => known = f.old[role].pw
    BY <1>6, <1>7 DEF VerifiedPassword
  <2>9. ~ NoMaterial(r, p)
    BY <1>3, <1>6, <1>7, <2>3, <2>6, <2>8 DEF NoMaterial
  <2> QED
    BY <2>7, <2>9
<1> QED
  BY <1>2, <1>10, <1>11, <1>12, <1>13

LEMMA FormPlansItsLayout ==
  ASSUME NEW f, IsForm(f), NEW r, r = RequestOf(f)
  PROVE  Overridden(Prefill(r.old, r.mode, r.lce), r.old, r.mode, r.edits) = FormLayout(f)
<1>1. PICK l0, l : /\ l0 = Prefill(f.old, f.mode, f.lce)
                   /\ l = FormLayout(f)
  OBVIOUS
<1>2. f.mode \in Modes /\ IsGeometry(f.edits) /\ f.lce \in Nat /\ IsSource(f.old)
  BY DEF IsForm
<1>3. IsLayout(f.mode, l0)
  BY <1>1, <1>2, PrefillIsLayout
<1>4. l = Overridden(l0, f.old, f.mode, Editable(f.mode, f.edits))
  BY <1>1, Zenon DEF FormLayout
<1>5. Overridden(l0, f.old, f.mode, Editable(f.mode, SpeltOut(l))) = l
  BY <1>2, <1>3, <1>4, SpeltOutAgain
<1>6. /\ r.old = f.old /\ r.mode = f.mode /\ r.lce = f.lce
      /\ r.edits = Editable(f.mode, SpeltOut(FormLayout(f)))
  BY RequestFields
<1> QED
  BY <1>1, <1>5, <1>6, Zenon

LEMMA FormatsAreOfTheMode ==
  ASSUME NEW f, NEW r, r = RequestOf(f)
  PROVE  FormatsExist(r)
<1> SUFFICES ASSUME NEW field \in r.format
             PROVE  \E i \in DOMAIN Roles[r.mode] :
                      /\ Field(Roles[r.mode][i]) = field
                      /\ Roles[r.mode][i] # "CompatibilityReserve"
  BY DEF FormatsExist
<1>1. r.mode = f.mode /\ r.format = {Field(p.role) : p \in {q \in FormParts(f) : Formatted(f, q)}}
  BY DEF RequestOf
<1>2. PICK p \in FormParts(f) : Formatted(f, p) /\ Field(p.role) = field
  BY <1>1
<1>3. PICK i \in DOMAIN Roles[f.mode] : p = Slot(f, i)
  BY PartsOfForm
<1>4. p.role = Roles[f.mode][i] /\ p.role # "CompatibilityReserve"
  BY <1>2, <1>3 DEF Slot, Formatted
<1> QED
  BY <1>1, <1>2, <1>4

LEMMA FormFitsTheDisk ==
  ASSUME NEW f, IsForm(f), NEW r, r = RequestOf(f),
         NEW slots, slots = Slots(f.mode, FormLayout(f)), Valid(slots, f.lce)
  PROVE  ImageFits(r, slots)
<1>1. /\ f.mode \in Modes /\ IsGeometry(f.edits) /\ f.lce \in Nat /\ f.total \in Nat
      /\ IsSource(f.old) /\ f.lce + LceSectors <= f.total /\ LceSectors \in Nat
  BY TargetsAssumption, RequestsAssumption DEF IsForm
<1>2. IsLayout(f.mode, FormLayout(f))
  BY <1>1, FormLayoutIsTyped
<1>3. \A i \in DOMAIN Roles[f.mode] : Placed(slots[i], f.lce)
  BY <1>1, <1>2, ValidSlotsArePlaced
<1>4. r.lce = f.lce /\ r.total = f.total /\ DOMAIN slots = DOMAIN Roles[f.mode]
  BY RequestFields DEF Slots
<1>5. ASSUME NEW i \in DOMAIN slots
      PROVE  /\ End(slots[i]) <= r.total
             /\ Disjoint(slots[i], [start |-> r.lce, count |-> LceSectors])
  <2>1. /\ slots[i].start \in Nat /\ slots[i].count \in Nat
        /\ slots[i].start + slots[i].count <= f.lce
    BY <1>3, <1>4 DEF Placed
  <2> QED
    BY <1>1, <1>4, <2>1 DEF End, Disjoint
<1> QED
  BY <1>1, <1>4, <1>5 DEF ImageFits

\* Prepare's refusals, of a layout before and after the edits, and of the parts.
Refuses(r, layout, slots, parts) ==
  \/ ~ Valid(Slots(r.mode, layout), r.lce) \/ ~ Valid(slots, r.lce)
  \/ \E i \in DOMAIN parts : NeedsFormat(r, parts[i]) \/ NoMaterial(r, parts[i])
  \/ ~ FormatsExist(r) \/ ~ ImageFits(r, slots)

LEMMA OutcomeOfParts ==
  ASSUME NEW r, NEW layout, layout = Prefill(r.old, r.mode, r.lce),
         NEW slots, slots = Slots(r.mode, Overridden(layout, r.old, r.mode, r.edits)),
         NEW parts,
         parts = [i \in DOMAIN slots |-> Planning(r, Roles[r.mode][i], slots[i])]
  PROVE  Prepare(r) =
           IF Refuses(r, layout, slots, parts) THEN Outcome("Refused", << >>)
           ELSE Outcome(IF Consistent(r, parts) THEN "Ready" ELSE "Inconsistent", parts)
BY Zenon DEF Prepare, Refuses

LEMMA FormIsPlannedAsShown ==
  ASSUME NEW f, IsForm(f), MaySubmit(f), Spelt(f), NEW r, r = RequestOf(f),
         NEW o, o = Prepare(r)
  PROVE  /\ \A p \in Range(o.parts) :
              \/ Shown(f, p).kind = Fate(p)
              \/ /\ Mistaken(f, p.role)
                 /\ Shown(f, p).kind = "Rewrap" /\ Fate(p) = "Passthrough"
         /\ (\A role \in DOMAIN f.old : ~ Hidden(f, role)) => o.kind = "Ready"
<1>1. PICK layout, slots, parts :
        /\ layout = Prefill(r.old, r.mode, r.lce)
        /\ slots = Slots(r.mode, Overridden(layout, r.old, r.mode, r.edits))
        /\ parts = [i \in DOMAIN slots |-> Planning(r, Roles[r.mode][i], slots[i])]
  OBVIOUS
<1>2. o = IF Refuses(r, layout, slots, parts) THEN Outcome("Refused", << >>)
          ELSE Outcome(IF Consistent(r, parts) THEN "Ready" ELSE "Inconsistent", parts)
  BY <1>1, OutcomeOfParts, ZenonT(40)
<1>3. /\ r.old = f.old /\ r.mode = f.mode /\ r.lce = f.lce
  BY RequestFields
<1>4. slots = Slots(f.mode, FormLayout(f))
  BY <1>1, <1>3, FormPlansItsLayout, Zenon
<1>5. DOMAIN slots = DOMAIN Roles[f.mode] /\ DOMAIN parts = DOMAIN Roles[f.mode]
  BY <1>1, <1>4 DEF Slots
<1>6. ASSUME NEW i \in DOMAIN parts
      PROVE  /\ i \in DOMAIN Roles[f.mode]
             /\ parts[i] = Planning(r, Slot(f, i).role, slots[i])
             /\ parts[i].role = Slot(f, i).role
             /\ slots[i].start = Slot(f, i).start /\ slots[i].count = Slot(f, i).count
             /\ Shown(f, parts[i]) = Shown(f, Slot(f, i))
             /\ Shown(f, Slot(f, i)).kind \notin Refusals
  <2>1. i \in DOMAIN Roles[f.mode]
    BY <1>5
  <2>2. /\ Slot(f, i).role = Roles[f.mode][i]
        /\ slots[i].start = Slot(f, i).start /\ slots[i].count = Slot(f, i).count
    BY <1>4, <2>1, SlotIsPlaced
  <2>3. parts[i] = Planning(r, Slot(f, i).role, slots[i])
    BY <1>1, <1>3, <1>5, <2>1, <2>2
  <2>4. /\ parts[i].role = Slot(f, i).role
        /\ parts[i].start = slots[i].start /\ parts[i].count = slots[i].count
    BY <2>3 DEF Planning
  <2>5. Shown(f, parts[i]) = Shown(f, Slot(f, i))
    BY <2>2, <2>4, ForecastByPlace
  <2>6. Slot(f, i) \in FormParts(f)
    BY <2>1, PartsOfForm
  <2>7. Shown(f, Slot(f, i)).kind \notin Refusals
    BY <2>6, Zenon DEF MaySubmit, Refusals
  <2> QED
    BY <2>1, <2>2, <2>3, <2>4, <2>5, <2>7
<1>7. ASSUME NEW p \in Range(o.parts)
      PROVE  \/ Shown(f, p).kind = Fate(p)
             \/ /\ Mistaken(f, p.role)
                /\ Shown(f, p).kind = "Rewrap" /\ Fate(p) = "Passthrough"
  <2>1. CASE Refuses(r, layout, slots, parts)
    <3>1. o.parts = << >>
      BY <1>2, <2>1 DEF Outcome
    <3> QED
      BY <1>7, <3>1 DEF Range
  <2>2. CASE ~ Refuses(r, layout, slots, parts)
    <3>1. o.parts = parts
      BY <1>2, <2>2 DEF Outcome
    <3>2. PICK i \in DOMAIN parts : p = parts[i]
      BY <1>7, <3>1 DEF Range
    <3>3. ~ NeedsFormat(r, p)
      BY <2>2, <3>2, Zenon DEF Refuses
    <3>4. \/ Shown(f, Slot(f, i)).kind = Fate(p)
          \/ /\ Mistaken(f, Slot(f, i).role)
             /\ Shown(f, Slot(f, i)).kind = "Rewrap" /\ Fate(p) = "Passthrough"
      BY <1>6, <3>2, <3>3, FateIsShown
    <3> QED
      BY <1>6, <3>2, <3>4
  <2> QED
    BY <2>1, <2>2
<1>8. ASSUME \A role \in DOMAIN f.old : ~ Hidden(f, role)
      PROVE  o.kind = "Ready"
  <2>1. Valid(Slots(r.mode, layout), r.lce) /\ Valid(slots, r.lce)
    BY <1>1, <1>3, <1>4, Zenon DEF MaySubmit
  <2>2. ASSUME NEW i \in DOMAIN parts
        PROVE  ~ NeedsFormat(r, parts[i]) /\ ~ NoMaterial(r, parts[i])
    BY <1>6, <1>8, <2>2, PlannedAsShown
  <2>3. FormatsExist(r) /\ ImageFits(r, slots)
    BY <1>3, <1>4, <2>1, FormatsAreOfTheMode, FormFitsTheDisk
  <2>4. ~ Refuses(r, layout, slots, parts)
    BY <2>1, <2>2, <2>3, Zenon DEF Refuses
  <2>5. o.kind # "Refused"
    <3>1. o = Outcome("Ready", parts) \/ o = Outcome("Inconsistent", parts)
      BY <1>2, <2>4
    <3> QED
      BY <3>1 DEF Outcome
  <2>6. IsTarget(r)
    BY RequestOfForm
  <2> QED
    BY <2>5, <2>6, PreparedPlanStands
<1> QED
  BY <1>7, <1>8
-----------------------------------------------------------------------------
(***************************************************************************)
(* An empty source field of a domain that the disk has fails its           *)
(* verification when it is left, so what is verified is not empty.         *)
(***************************************************************************)
EmptyFails(f, d) ==
  HasDomain(f, d) /\ Active(f.mode, d) /\ f.domain[d].source = Empty
  => f.domain[d].check = "Failed"

SettledInv ==
  stage # "None" => \A d \in Domains :
    /\ checking[d] # None => checking[d].text # Empty
    /\ editing # d => EmptyFails(form, d)

\* What only sets the check of fields that are not empty.
LEMMA SettledStays ==
  ASSUME SettledInv, stage # "None",
         form'.old = form.old, form'.mode = form.mode, editing' = editing,
         \A d \in Domains : checking'[d] \in {checking[d], None},
         \A d \in Domains :
           /\ form'.domain[d].source = form.domain[d].source
           /\ HasDomain(form, d) /\ form.domain[d].source = Empty
                /\ form.domain[d].check = "Failed"
              => form'.domain[d].check = "Failed"
  PROVE  SettledInv'
<1> SUFFICES ASSUME NEW d \in Domains
             PROVE  /\ checking'[d] # None => checking'[d].text # Empty
                    /\ editing' # d => EmptyFails(form', d)
  BY DEF SettledInv
<1>1. /\ checking[d] # None => checking[d].text # Empty
      /\ editing # d => EmptyFails(form, d)
  BY DEF SettledInv
<1>2. HasDomain(form', d) = HasDomain(form, d)
  BY DEF HasDomain
<1> QED
  BY <1>1, <1>2 DEF EmptyFails

LEMMA SettledSet ==
  ASSUME SettledInv, stage # "None", IsForm(form), NEW d \in Domains, NEW p, IsEntry(p),
         p.source = form.domain[d].source,
         p.source # Empty \/ p.check = form.domain[d].check \/ p.check = "Failed",
         Set(d, p), editing' = editing,
         \A e \in Domains : checking'[e] \in {checking[e], None}
  PROVE  SettledInv'
<1>1. form' = With(form, d, p)
  BY DEF Set, With
<1>2. /\ form'.domain[d] = p
      /\ \A e \in Domains : e # d => form'.domain[e] = form.domain[e]
  BY <1>1, SetDomain
<1>3. form'.old = form.old /\ form'.mode = form.mode
  BY <1>1 DEF With, IsForm
<1>4. ASSUME NEW e \in Domains
      PROVE  /\ form'.domain[e].source = form.domain[e].source
             /\ HasDomain(form, e) /\ form.domain[e].source = Empty
                  /\ form.domain[e].check = "Failed"
                => form'.domain[e].check = "Failed"
  <2>1. CASE e = d
    BY <1>2, <2>1
  <2>2. CASE e # d
    BY <1>2, <2>2
  <2> QED
    BY <2>1, <2>2
<1> QED
  BY <1>3, <1>4, SettledStays

LEMMA EditSourceSettles ==
  ASSUME IsForm(form), SettledInv, stage # "None", NEW d \in Domains, EditSource(d), CheckInv
  PROVE  SettledInv'
<1>1. PICK p : /\ Set(d, p) /\ p = form'.domain[d]
  <2>1. PICK text, p : /\ p = [form.domain[d] EXCEPT !.source = text, !.known = FALSE,
                                                     !.touched = TRUE, !.check = "Idle"]
                       /\ Set(d, p)
    BY DEF EditSource
  <2>2. form'.domain[d] = p
    BY <2>1 DEF Set, IsForm
  <2> QED
    BY <2>1, <2>2
<1>2. /\ form'.old = form.old /\ form'.mode = form.mode
      /\ \A e \in Domains : e # d => form'.domain[e] = form.domain[e]
  BY <1>1 DEF Set, IsForm
<1>3. /\ editing = None /\ editing' = d
      /\ checking' = [checking EXCEPT ![d] = IF @ = None THEN None ELSE [@ EXCEPT !.current = FALSE]]
  BY DEF EditSource, Input
<1>4. None \notin Domains
  BY NoneIsNothing DEF Domains
<1>5. ASSUME NEW e \in Domains
      PROVE  /\ checking'[e] # None => checking'[e].text # Empty
             /\ editing' # e => EmptyFails(form', e)
  <2>1. /\ checking[e] # None => checking[e].text # Empty
        /\ EmptyFails(form, e)
    BY <1>3, <1>4 DEF SettledInv
  <2>2. checking'[e] # None => checking'[e].text # Empty
    <3>1. CASE e # d
      BY <1>3, <2>1, <3>1 DEF CheckInv
    <3>2. CASE e = d /\ checking[d] # None
      <4>1. checking'[d] = [checking[d] EXCEPT !.current = FALSE]
        BY <1>3, <3>2 DEF CheckInv
      <4>2. checking'[d].text = checking[d].text
        BY <4>1
      <4> QED
        BY <2>1, <3>2, <4>2
    <3>3. CASE e = d /\ checking[d] = None
      BY <1>3, <3>3 DEF CheckInv
    <3> QED
      BY <3>1, <3>2, <3>3
  <2>3. e # d => EmptyFails(form', e)
    BY <1>2, <2>1 DEF EmptyFails, HasDomain
  <2> QED
    BY <1>3, <2>2, <2>3
<1> QED
  BY <1>5 DEF SettledInv

LEMMA EndInsertSettles ==
  ASSUME IsForm(form), SettledInv, CheckInv, EndInsert
  PROVE  SettledInv'
<1>1. PICK d \in Domains : d = editing
  BY DEF EndInsert, CheckInv
<1>2. PICK p : p = form.domain[d]
  OBVIOUS
<1>3. stage = "Form" /\ editing' = None /\ IsEntry(p)
  BY <1>2 DEF EndInsert, IsForm
<1>4. PICK state, q :
        /\ q = [p EXCEPT !.check = state] /\ Set(d, q)
        /\ IF p.source = Empty THEN state = "Failed" /\ UNCHANGED checking
           ELSE checking' = [checking EXCEPT ![d] = [text |-> p.source, current |-> TRUE]]
  BY <1>1, <1>2 DEF EndInsert
<1>5. q.source = p.source /\ q.check = state
  BY <1>3, <1>4 DEF IsEntry, PasswordFields
<1>6. /\ form'.old = form.old /\ form'.mode = form.mode /\ form'.domain[d] = q
      /\ \A e \in Domains : e # d => form'.domain[e] = form.domain[e]
  BY <1>4 DEF Set, IsForm
<1>7. ASSUME NEW e \in Domains
      PROVE  /\ checking'[e] # None => checking'[e].text # Empty
             /\ EmptyFails(form', e)
  <2>1. /\ checking[e] # None => checking[e].text # Empty
        /\ e # d => EmptyFails(form, e)
    BY <1>1, <1>3 DEF SettledInv
  <2>2. CASE e # d
    <3>1. EmptyFails(form', e)
      BY <1>6, <2>1, <2>2 DEF EmptyFails, HasDomain
    <3>2. checking'[e] = checking[e]
      BY <1>4, <2>2 DEF CheckInv
    <3> QED
      BY <2>1, <3>1, <3>2
  <2>3. CASE e = d /\ p.source = Empty
    BY <1>4, <1>5, <1>6, <2>1, <2>3 DEF EmptyFails
  <2>4. CASE e = d /\ p.source # Empty
    <3>1. checking'[d] = [text |-> p.source, current |-> TRUE]
      BY <1>4, <2>4 DEF CheckInv
    <3>2. checking'[d].text = p.source
      BY <3>1
    <3> QED
      BY <1>5, <1>6, <2>4, <3>2 DEF EmptyFails
  <2> QED
    BY <2>2, <2>3, <2>4
<1> QED
  BY <1>7 DEF SettledInv

LEMMA TargetSettles ==
  ASSUME IsForm(form), SettledInv, NEW d \in Domains, EditTarget(d) \/ ToggleTarget(d)
  PROVE  SettledInv'
<1>1. IsEntry(form.domain[d])
  BY DEF IsForm
<1>2. PICK q : q = Prepared(form, d)
  OBVIOUS
<1>3. /\ IsEntry(q) /\ q.source = form.domain[d].source
      /\ q.check = form.domain[d].check
  BY <1>1, <1>2, PreparedKeeps
<1>4. stage = "Form" /\ editing' = editing /\ checking' = checking
  BY DEF EditTarget, ToggleTarget, Input
<1>5. PICK p : /\ Set(d, p) /\ IsEntry(p)
               /\ p.source = form.domain[d].source /\ p.check = form.domain[d].check
  <2>1. CASE EditTarget(d)
    <3>1. PICK text, typed :
            /\ text \in Texts
            /\ typed = [q EXCEPT !.target = text, !.drafted = TRUE]
            /\ Set(d, Normalized(With(form, d, typed), d))
      BY <1>2, <2>1 DEF EditTarget, With
    <3>2. text # None
      BY <3>1, FormsAssumption
    <3>3. IsEntry(typed) /\ typed.source = q.source /\ typed.check = q.check
      BY <1>3, <3>1, <3>2 DEF IsEntry, PasswordFields
    <3>4. With(form, d, typed).domain[d] = typed
      BY <3>3, SetDomain
    <3>5. PICK g, p : g = With(form, d, typed) /\ p = Normalized(g, d)
      OBVIOUS
    <3>6. IsEntry(p) /\ p.source = typed.source /\ p.check = typed.check
      BY <3>3, <3>4, <3>5, NormalizedKeeps
    <3> QED
      BY <1>3, <3>1, <3>3, <3>5, <3>6
  <2>2. CASE ToggleTarget(d) /\ form.domain[d].aim = "Passthrough"
    BY <1>2, <1>3, <2>2 DEF ToggleTarget
  <2>3. CASE ToggleTarget(d) /\ form.domain[d].aim # "Passthrough"
    <3>1. PICK p : p = [form.domain[d] EXCEPT !.aim = "Passthrough"] /\ Set(d, p)
      BY <2>3 DEF ToggleTarget
    <3>2. IsEntry(p) /\ p.source = form.domain[d].source /\ p.check = form.domain[d].check
      BY <1>1, <3>1 DEF IsEntry, PasswordFields
    <3> QED
      BY <3>1, <3>2
  <2> QED
    BY <2>1, <2>2, <2>3
<1> QED
  BY <1>4, <1>5, SettledSet

LEMMA VerifyDoneSettles ==
  ASSUME IsForm(form), SettledInv, CheckInv, NEW d \in Domains, VerifyDone(d)
  PROVE  SettledInv'
<1>1. PICK p, verified : /\ p = form.domain[d]
                         /\ verified = [p EXCEPT !.known = TRUE, !.check = "Idle"]
  OBVIOUS
<1>2. /\ stage = "Form" /\ checking[d] # None /\ editing' = editing
      /\ checking' = [checking EXCEPT ![d] = None]
  BY DEF VerifyDone
<1>3. \A e \in Domains : checking'[e] \in {checking[e], None}
  BY <1>2 DEF CheckInv
<1>4. IsEntry(p)
  BY <1>1 DEF IsForm
<1>5. CASE form' = form
  BY <1>2, <1>3, <1>5, SettledStays
<1>6. CASE checking[d].current /\ Set(d, Normalized(With(form, d, verified), d))
  <2>1. IsEntry(verified) /\ verified.source = p.source
    BY <1>1, <1>4 DEF IsEntry, PasswordFields
  <2>2. With(form, d, verified).domain[d] = verified
    BY <2>1, SetDomain
  <2>3. PICK g, q : g = With(form, d, verified) /\ q = Normalized(g, d)
    OBVIOUS
  <2>4. IsEntry(q) /\ q.source = p.source
    BY <2>1, <2>2, <2>3, NormalizedKeeps
  <2>5. p.source # Empty
    BY <1>1, <1>2, <1>6 DEF CheckInv, SettledInv
  <2> QED
    BY <1>1, <1>2, <1>3, <1>6, <2>3, <2>4, <2>5, SettledSet
<1>7. CASE Set(d, [p EXCEPT !.known = FALSE, !.check = "Failed"])
  <2>1. PICK q : q = [p EXCEPT !.known = FALSE, !.check = "Failed"]
    OBVIOUS
  <2>2. IsEntry(q) /\ q.source = p.source /\ q.check = "Failed"
    BY <1>4, <2>1 DEF IsEntry, PasswordFields
  <2> QED
    BY <1>1, <1>2, <1>3, <1>7, <2>1, <2>2, SettledSet
<1> QED
  BY <1>1, <1>5, <1>6, <1>7, Zenon DEF VerifyDone, With

LEMMA OtherEditsSettle ==
  ASSUME IsForm(form), SettledInv, ToggleFormat \/ SwitchAlgorithm \/ EditGeometry
  PROVE  SettledInv'
<1>1. form'.domain = form.domain /\ form'.old = form.old /\ form'.mode = form.mode
  <2>1. CASE ToggleFormat
    <3>1. PICK x : form' = [form EXCEPT !.format = x]
      BY <2>1 DEF ToggleFormat
    <3> QED
      BY <3>1 DEF IsForm
  <2>2. CASE SwitchAlgorithm
    <3>1. PICK x : form' = [form EXCEPT !.chosen = TRUE, !.algorithm = x]
      BY <2>2 DEF SwitchAlgorithm
    <3> QED
      BY <3>1 DEF IsForm
  <2>3. CASE EditGeometry
    <3>1. PICK x : form' = [form EXCEPT !.edits = x]
      BY <2>3 DEF EditGeometry
    <3> QED
      BY <3>1 DEF IsForm
  <2> QED
    BY <2>1, <2>2, <2>3
<1>2. stage = "Form" /\ editing' = editing /\ checking' = checking
  BY DEF ToggleFormat, SwitchAlgorithm, EditGeometry, Input
<1> QED
  BY <1>1, <1>2, SettledStays

LEMMA KeyProbeSettles ==
  ASSUME IsForm(form), SettledInv, KeyProbeDone
  PROVE  SettledInv'
<1>1. PICK h : h = [d \in Domains |-> Probed(d)]
  OBVIOUS
<1>2. PICK f : f = [form EXCEPT !.domain = h, !.algorithm = AdoptedAlgorithm]
  OBVIOUS
<1>3. stage = "Form" /\ editing' = editing /\ checking' = checking
  BY DEF KeyProbeDone
<1>4. ASSUME NEW d \in Domains
      PROVE  /\ IsEntry(h[d]) /\ h[d].source = form.domain[d].source
             /\ HasDomain(form, d) /\ form.domain[d].source = Empty
                => h[d].check = form.domain[d].check
  <2>1. IsEntry(form.domain[d]) /\ h[d] = Probed(d) /\ Empty # "Default"
    BY <1>1, FormsAssumption DEF IsForm
  <2>2. IsEntry(h[d]) /\ h[d].source = form.domain[d].source
    BY <2>1 DEF Probed, IsEntry, PasswordFields
  <2>3. HasDomain(form, d) /\ form.domain[d].source = Empty
        => h[d].check = form.domain[d].check
    BY <2>1 DEF Probed, IsEntry, PasswordFields
  <2> QED
    BY <2>2, <2>3
<1>5. f.domain = h /\ f.old = form.old /\ f.mode = form.mode /\ DOMAIN f = DOMAIN form
  BY <1>2 DEF IsForm
<1>6. CASE form' = [f EXCEPT !.domain = [d \in Domains |-> Normalized(f, d)]]
  <2>1. /\ form'.domain = [d \in Domains |-> Normalized(f, d)]
        /\ form'.old = form.old /\ form'.mode = form.mode
    BY <1>5, <1>6 DEF IsForm
  <2>2. ASSUME NEW d \in Domains
        PROVE  /\ form'.domain[d].source = h[d].source
               /\ form'.domain[d].check = h[d].check
    BY <1>4, <1>5, <2>1, NormalizedKeeps
  <2> QED
    BY <1>3, <1>4, <2>1, <2>2, SettledStays
<1>7. CASE form' = [form EXCEPT !.domain = [d \in Domains |->
              [form.domain[d] EXCEPT !.check = IF @ = "Verifying" THEN "Idle" ELSE @]]]
  <2>1. PICK k : k = [d \in Domains |->
              [form.domain[d] EXCEPT !.check = IF @ = "Verifying" THEN "Idle" ELSE @]]
    OBVIOUS
  <2>2. form'.domain = k /\ form'.old = form.old /\ form'.mode = form.mode
    BY <1>7, <2>1 DEF IsForm
  <2>3. ASSUME NEW d \in Domains
        PROVE  /\ k[d].source = form.domain[d].source
               /\ form.domain[d].check = "Failed" => k[d].check = "Failed"
    <3>1. IsEntry(form.domain[d])
      BY DEF IsForm
    <3>2. k[d] = [form.domain[d] EXCEPT !.check = IF @ = "Verifying" THEN "Idle" ELSE @]
      BY <2>1
    <3> QED
      BY <3>1, <3>2 DEF IsEntry, PasswordFields
  <2> QED
    BY <1>3, <2>2, <2>3, SettledStays
<1> QED
  BY <1>1, <1>2, <1>6, <1>7, Zenon DEF KeyProbeDone

LEMMA FinishPlanSettles ==
  ASSUME IsForm(form), SettledInv, FinishPlan
  PROVE  SettledInv'
<1>1. stage = "Planning" /\ editing' = editing /\ checking' = checking
  BY DEF FinishPlan
<1>2. CASE UNCHANGED form
  BY <1>1, <1>2, SettledStays
<1>3. CASE form' = [form EXCEPT !.domain = [d \in Domains |-> Learned(d)]]
  <2>1. PICK h : h = [d \in Domains |-> Learned(d)]
    OBVIOUS
  <2>2. form'.domain = h /\ form'.old = form.old /\ form'.mode = form.mode
    BY <1>3, <2>1 DEF IsForm
  <2>3. ASSUME NEW d \in Domains
        PROVE  h[d].source = form.domain[d].source /\ h[d].check = form.domain[d].check
    <3>1. IsEntry(form.domain[d])
      BY DEF IsForm
    <3>2. PICK knows : \/ h[d] = [form.domain[d] EXCEPT !.known = knows]
                       \/ h[d] = form.domain[d]
      BY <2>1 DEF Learned
    <3> QED
      BY <3>1, <3>2 DEF IsEntry, PasswordFields
  <2> QED
    BY <1>1, <2>2, <2>3, SettledStays
<1> QED
  BY <1>2, <1>3 DEF FinishPlan

LEMMA SettledInitially == FormInit => SettledInv
<1> SUFFICES ASSUME FormInit, stage # "None", NEW d \in Domains
             PROVE  checking[d] = None /\ EmptyFails(form, d)
  BY DEF SettledInv
<1>1. checking = NoChecks
  BY DEF FormInit
<1>2. PICK f \in Forms : form = Opened(f)
  BY DEF FormInit
<1>3. form.old = f.old /\ form.mode = f.mode /\ form.domain[d] = FreshDomain(f, d)
  BY <1>2 DEF Opened
<1>4. HasDomain(f, d) /\ Active(f.mode, d) => form.domain[d].source # Empty
  BY <1>3, FormsAssumption DEF FreshDomain
<1> QED
  BY <1>1, <1>3, <1>4 DEF NoChecks, EmptyFails, HasDomain

LEMMA SettledStep ==
  ASSUME FormInv, SettledInv, [FormNext]_allVars
  PROVE  SettledInv'
<1>1. CASE stage = "None"
  <2>1. stage' = "None"
    BY <1>1 DEF FormNext, formVars, allVars, EditSource, EditTarget, ToggleTarget,
       VerifyDone, EndInsert, ToggleFormat, SwitchAlgorithm, EditGeometry, KeyProbeDone,
       Input, Leave, LeaveTo, Reenter, Submit, FinishPlan, ReturnToForm
  <2> QED
    BY <2>1 DEF SettledInv
<1>2. CASE stage # "None"
  <2>1. IsForm(form) /\ CheckInv
    BY <1>2 DEF FormInv, StageInv
  <2>2. CASE \E d \in Domains : EditSource(d)
    BY <1>2, <2>1, <2>2, EditSourceSettles
  <2>3. CASE \E d \in Domains : EditTarget(d) \/ ToggleTarget(d)
    BY <2>1, <2>3, TargetSettles
  <2>4. CASE \E d \in Domains : VerifyDone(d)
    BY <2>1, <2>4, VerifyDoneSettles
  <2>5. CASE EndInsert
    BY <2>1, <2>5, EndInsertSettles
  <2>6. CASE ToggleFormat \/ SwitchAlgorithm \/ EditGeometry
    BY <2>1, <2>6, OtherEditsSettle
  <2>7. CASE KeyProbeDone
    BY <2>1, <2>7, KeyProbeSettles
  <2>8. CASE Leave \/ Submit
    <3>1. form' = form /\ editing' = editing /\ checking' = NoChecks
      BY <2>8 DEF Leave, Submit, LeaveTo
    <3>2. \A d \in Domains : checking'[d] = None
      BY <3>1 DEF NoChecks
    <3> QED
      BY <1>2, <3>1, <3>2, SettledStays
  <2>9. CASE Reenter \/ ReturnToForm \/ UNCHANGED allVars
    <3>1. form' = form /\ editing' = editing /\ checking' = checking
      BY <2>9 DEF Reenter, ReturnToForm, allVars, formVars
    <3> QED
      BY <1>2, <3>1, SettledStays
  <2>10. CASE FinishPlan
    BY <2>1, <2>10, FinishPlanSettles
  <2> QED
    BY <1>2, <2>2, <2>3, <2>4, <2>5, <2>6, <2>7, <2>8, <2>9, <2>10, Zenon DEF FormNext
<1> QED
  BY <1>1, <1>2
-----------------------------------------------------------------------------
\* The plan of a submitted form does what the form showed, except where the
\* form takes a password for another than it is, and is refused only for what
\* the form cannot see (application/provision/preflight.rs against
\* application/provision/prepare.rs, provision/reprovision), for every disk,
\* geometry, password and order of edits and answers.
THEOREM FormsArePlannedAsShown == FormSpec => []PlanIsAsShown
<1>1. FormInv /\ SettledInv => PlanIsAsShown
  <2> SUFFICES ASSUME FormInv, SettledInv, stage = "Planning"
               PROVE  LET plan == Prepare(request)
                      IN /\ \A p \in Range(plan.parts) :
                              \/ Shown(form, p).kind = Fate(p)
                              \/ /\ Mistaken(form, p.role)
                                 /\ Shown(form, p).kind = "Rewrap" /\ Fate(p) = "Passthrough"
                         /\ (\A role \in DOMAIN form.old : ~ Hidden(form, role))
                              => plan.kind = "Ready"
    BY DEF PlanIsAsShown
  <2>1. PICK f, r : f = form /\ r = request
    OBVIOUS
  <2>2. IsForm(f) /\ MaySubmit(f) /\ r = RequestOf(f)
    BY <2>1 DEF FormInv, StageInv
  <2>3. Spelt(f)
    <3>1. editing = None /\ None \notin Domains
      BY NoneIsNothing DEF FormInv, StageInv, Domains
    <3>2. \A d \in Domains : EmptyFails(f, d)
      BY <2>1, <3>1 DEF SettledInv
    <3> QED
      BY <3>2 DEF Spelt, EmptyFails, SourceState
  <2> QED
    BY <2>1, <2>2, <2>3, FormIsPlannedAsShown
<1>2. SettledInv /\ FormInv /\ [FormNext]_allVars => SettledInv'
  BY SettledStep
<1> QED
  BY <1>1, <1>2, SettledInitially, FormInvariant, PTL DEF FormSpec
=============================================================================
