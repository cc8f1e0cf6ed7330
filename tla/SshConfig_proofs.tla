-------------------------- MODULE SshConfig_proofs --------------------------
(***************************************************************************)
(* Theorems about ~/.ssh/config, for any hosts, any file of the user and   *)
(* any processes that rewrite it at once: the sections devpod writes are   *)
(* whole at every moment, and what the user wrote stays, each line         *)
(* under the Host it was under.                                            *)
(***************************************************************************)
EXTENDS SshConfig, FiniteSetTheorems, WellFoundedInduction, TLAPS

\* A set of naturals that is not empty has a least element: the induction principle of
\* every proof over positions below.
LEMMA LeastNatural ==
    ASSUME NEW T \in SUBSET Nat, T # {}
    PROVE  \E x \in T : \A y \in T : x <= y
<1> DEFINE R == {ss \in Nat \X Nat : ss[1] < ss[2]}
<1>1. OpToRel(<, Nat) = R
  BY Zenon DEF OpToRel
<1>2. IsWellFoundedOn(R, Nat)
  BY <1>1, NatLessThanWellFounded, Zenon
<1> HIDE DEF R
<1>3. PICK x \in T : \A y \in T : ~ (<<y, x>> \in R)
  BY <1>2, WFMin, Zenon
<1>4. ASSUME NEW y \in T PROVE x <= y
  <2>1. <<y, x>> \notin R
    BY <1>3
  <2>2. <<y, x>> \in Nat \X Nat
    OBVIOUS
  <2>3. ~(<<y, x>>[1] < <<y, x>>[2])
    BY <2>1, <2>2, Zenon DEF R
  <2> QED BY <2>3
<1> QED BY <1>4

-----------------------------------------------------------------------------
\* Some positions of a file.
Positions(K) == \E n \in Nat : K \in SUBSET (1..n)

\* The rank of a position among some positions.
Rank(K, i) == Cardinality({j \in K : j <= i})

\* There are finitely many positions, and each is a natural number.
LEMMA FinitePositions ==
    ASSUME NEW K, Positions(K)
    PROVE  IsFiniteSet(K) /\ Cardinality(K) \in Nat /\ \A i \in K : i \in Nat
<1>0. PICK n \in Nat : K \in SUBSET (1..n)
  BY DEF Positions
<1>1. IsFiniteSet(1..n)
  BY FS_Interval
<1>2. IsFiniteSet(K)
  BY <1>0, <1>1, FS_Subset
<1>3. \A i \in K : i \in Nat
  BY <1>0
<1> QED BY <1>2, <1>3, FS_CardinalityType

\* Ranks count from one and rise with the position.
LEMMA RankRises ==
    ASSUME NEW K, Positions(K), NEW i \in K
    PROVE  /\ Rank(K, i) \in 1..Cardinality(K)
           /\ \A j \in K : i < j => Rank(K, i) < Rank(K, j)
<1> DEFINE Upto(j) == {x \in K : x <= j}
<1>0. \A x \in K : x \in Int
  BY FinitePositions
<1>2. IsFiniteSet(K) /\ Cardinality(K) \in Nat
  BY FinitePositions
<1>3. ASSUME NEW j \in K PROVE /\ IsFiniteSet(Upto(j)) /\ Rank(K, j) = Cardinality(Upto(j))
                               /\ Rank(K, j) \in Nat /\ Rank(K, j) <= Cardinality(K)
  <2>1. Upto(j) \in SUBSET K
    OBVIOUS
  <2>2. IsFiniteSet(Upto(j)) /\ Cardinality(Upto(j)) <= Cardinality(K)
    BY <2>1, <1>2, FS_Subset
  <2>3. Cardinality(Upto(j)) \in Nat
    BY <2>2, FS_CardinalityType
  <2> QED BY <2>2, <2>3 DEF Rank
<1>4. Rank(K, i) # 0
  <2>1. i \in Upto(i)
    BY <1>0
  <2>2. Upto(i) # {}
    BY <2>1
  <2> HIDE DEF Upto
  <2> QED BY <2>2, <1>3, FS_EmptySet
<1>5. ASSUME NEW j \in K, i < j PROVE Rank(K, i) < Rank(K, j)
  <2>0. ASSUME NEW x \in K, x <= i PROVE x <= j
    <3>1. x \in Int /\ i \in Int /\ j \in Int
      BY <1>0
    <3> QED BY <2>0, <3>1, <1>5
  <2>1. Upto(i) \in SUBSET Upto(j)
    BY <2>0
  <2>2. j \in Upto(j) /\ j \notin Upto(i)
    BY <1>0, <1>5
  <2>3. Upto(i) # Upto(j)
    BY <2>2
  <2> HIDE DEF Upto
  <2>4. Cardinality(Upto(i)) <= Cardinality(Upto(j)) /\ Cardinality(Upto(i)) # Cardinality(Upto(j))
    BY <2>1, <2>3, <1>3, FS_Subset
  <2> QED BY <2>4, <1>3
<1>6. Rank(K, i) \in 1..Cardinality(K)
  <2>1. Rank(K, i) \in Nat /\ Rank(K, i) <= Cardinality(K)
    BY <1>3
  <2> QED BY <2>1, <1>2, <1>4
<1> QED BY <1>5, <1>6

\* Every rank has its position.
LEMMA RankTaken ==
    ASSUME NEW K, Positions(K), NEW k \in 1..Cardinality(K)
    PROVE  \E i \in K : Rank(K, i) = k
<1>0. PICK n \in Nat : K \in SUBSET (1..n)
  BY DEF Positions
<1> DEFINE Short == {m \in Nat : \E J \in SUBSET (1..m) : \E r \in 1..Cardinality(J) :
                                    \A i \in J : Rank(J, i) # r}
<1>1. SUFFICES Short = {}
  <2>1. n \notin Short
    BY <1>1
  <2> QED BY <1>0, <2>1
<1>2. SUFFICES ASSUME Short # {} PROVE FALSE
  OBVIOUS
<1>3. PICK m \in Short : \A y \in Short : m <= y
  <2>1. Short \in SUBSET Nat
    OBVIOUS
  <2> HIDE DEF Short
  <2> QED BY <1>2, <2>1, LeastNatural
<1>4a. PICK J \in SUBSET (1..m) : \E r \in 1..Cardinality(J) : \A i \in J : Rank(J, i) # r
  BY <1>3
<1>4. PICK r \in 1..Cardinality(J) : \A i \in J : Rank(J, i) # r
  BY <1>4a
<1>5. m \in Nat
  BY <1>3
<1>6. IsFiniteSet(J) /\ Cardinality(J) \in Nat
  <2>1. IsFiniteSet(1..m)
    BY <1>5, FS_Interval
  <2> QED BY <2>1, FS_Subset, FS_CardinalityType
<1> DEFINE L == J \ {m}
<1>7. m \in J
  <2>1. SUFFICES ASSUME m \notin J PROVE FALSE
    OBVIOUS
  <2>2. m # 0
    <3>1. SUFFICES ASSUME m = 0 PROVE FALSE
      OBVIOUS
    <3>2. J = {}
      BY <3>1
    <3> QED BY <3>2, FS_EmptySet
  <2>3. J \in SUBSET (1..m - 1) /\ m - 1 \in Nat
    BY <2>1, <2>2, <1>5
  <2>4. m - 1 \in Short
    BY <2>3, <1>4
  <2> QED BY <2>4, <1>3, <1>5
<1>8. Cardinality(L) = Cardinality(J) - 1 /\ IsFiniteSet(L)
  BY <1>6, <1>7, FS_RemoveElement
<1>9. Rank(J, m) = Cardinality(J)
  <2>1. \A j \in J : j <= m
    BY <1>5
  <2>2. {j \in J : j <= m} = J
    BY <2>1
  <2> QED BY <2>2 DEF Rank
<1>10. r \in 1..Cardinality(L)
  BY <1>4, <1>7, <1>8, <1>9, <1>6
<1>11. L \in SUBSET (1..m - 1) /\ m - 1 \in Nat
  BY <1>5, <1>7
<1>12. \E i \in L : Rank(L, i) = r
  <2>1. m - 1 \notin Short
    BY <1>3, <1>5
  <2> HIDE DEF L
  <2> QED BY <2>1, <1>10, <1>11
<1>13. ASSUME NEW i \in L PROVE Rank(J, i) = Rank(L, i)
  <2>1. {j \in J : j <= i} = {j \in L : j <= i}
    BY <1>5, <1>11
  <2> QED BY <2>1 DEF Rank
<1> QED BY <1>4, <1>12, <1>13

\* The position of a rank, as Pick looks it up.
Nth(K, k) == CHOOSE i \in K : Rank(K, i) = k

\* Nth and Rank are each other's inverse.
LEMMA NthIs ==
    ASSUME NEW K, Positions(K)
    PROVE  /\ \A k \in 1..Cardinality(K) : Nth(K, k) \in K /\ Rank(K, Nth(K, k)) = k
           /\ \A i \in K : Nth(K, Rank(K, i)) = i /\ Rank(K, i) \in 1..Cardinality(K)
<1>1. ASSUME NEW k \in 1..Cardinality(K) PROVE Nth(K, k) \in K /\ Rank(K, Nth(K, k)) = k
  <2>1. \E i \in K : Rank(K, i) = k
    BY RankTaken
  <2> QED BY <2>1, Zenon DEF Nth
<1>2. ASSUME NEW i \in K PROVE Nth(K, Rank(K, i)) = i /\ Rank(K, i) \in 1..Cardinality(K)
  <2>1. Rank(K, i) \in 1..Cardinality(K)
    BY RankRises
  <2> DEFINE j == Nth(K, Rank(K, i))
  <2>2. j \in K /\ Rank(K, j) = Rank(K, i)
    BY <1>1, <2>1
  <2> HIDE DEF j
  <2>3. i < j => Rank(K, i) < Rank(K, j)
    BY <2>2, RankRises
  <2>4. j < i => Rank(K, j) < Rank(K, i)
    BY <2>2, RankRises
  <2>5. i \in Int /\ j \in Int
    BY <2>2, FinitePositions
  <2>6. j = i
    BY <2>1, <2>2, <2>3, <2>4, <2>5
  <2> QED BY <2>1, <2>6 DEF j
<1> QED BY <1>1, <1>2

\* m takes the positions K to all positions L and keeps their order.
OrderMap(m, K, L) ==
    /\ m \in [K -> L]
    /\ \A i, j \in K : i < j => m[i] < m[j]
    /\ \A l \in L : \E i \in K : m[i] = l

\* The lines at the positions K of s and those at the positions L of t are the same, in
\* the same order.
Similar(s, K, t, L) ==
    \E m : OrderMap(m, K, L) /\ \A i \in K : t[m[i]] = s[i]

\* Pick takes the lines at the positions in K, the first first.
LEMMA PickIs == \A s, K : Pick(s, K) = [k \in 1..Cardinality(K) |-> s[Nth(K, k)]]
  BY Zenon DEF Pick, Nth, Rank

\* A map that keeps the order keeps the ranks.
LEMMA RankKept ==
    ASSUME NEW K, NEW L, Positions(K), Positions(L), NEW m, OrderMap(m, K, L)
    PROVE  /\ Cardinality(K) = Cardinality(L)
           /\ \A i \in K : Rank(L, m[i]) = Rank(K, i)
<1> USE DEF OrderMap
<1>1. (\A i \in K : i \in Nat) /\ (\A l \in L : l \in Nat) /\ IsFiniteSet(K)
  BY FinitePositions
<1>2. ASSUME NEW i \in K, NEW j \in K PROVE (i <= j <=> m[i] <= m[j]) /\ (m[i] = m[j] => i = j)
  <2>1. i \in Nat /\ j \in Nat /\ m[i] \in Nat /\ m[j] \in Nat
    BY <1>1
  <2>2. (i < j => m[i] < m[j]) /\ (j < i => m[j] < m[i])
    OBVIOUS
  <2> QED BY <2>1, <2>2
<1>3. Cardinality(K) = Cardinality(L)
  <2>1. m \in Bijection(K, L)
    BY <1>2 DEF Bijection, Injection, Surjection, IsInjective
  <2>2. ExistsBijection(K, L)
    BY <2>1 DEF ExistsBijection
  <2> QED BY <2>2, <1>1, FS_Bijection
<1>4. ASSUME NEW i \in K PROVE Rank(L, m[i]) = Rank(K, i)
  <2> DEFINE A == {j \in K : j <= i}
             B == {l \in L : l <= m[i]}
             f == [j \in A |-> m[j]]
  <2>1. \A j \in A : m[j] \in B
    BY <1>2
  <2>2. f \in [A -> B]
    BY <2>1
  <2>3. \A x, y \in A : f[x] = f[y] => x = y
    BY <1>2
  <2>4. \A l \in B : \E j \in A : f[j] = l
    <3> SUFFICES ASSUME NEW l \in B PROVE \E j \in A : f[j] = l
      OBVIOUS
    <3>1. PICK j \in K : m[j] = l
      OBVIOUS
    <3>2. j <= i
      BY <3>1, <1>2
    <3> QED BY <3>1, <3>2
  <2>5. A \in SUBSET K
    OBVIOUS
  <2>6. IsFiniteSet(A)
    BY <2>5, <1>1, FS_Subset
  <2> HIDE DEF A, B, f
  <2>7. f \in Bijection(A, B)
    BY <2>2, <2>3, <2>4 DEF Bijection, Injection, Surjection, IsInjective
  <2>8. ExistsBijection(A, B)
    BY <2>7 DEF ExistsBijection
  <2>9. Cardinality(A) = Cardinality(B)
    BY <2>6, <2>8, FS_Bijection
  <2> QED BY <2>9 DEF Rank, A, B
<1> QED BY <1>3, <1>4

\* Two selections are the same sequence exactly when a map that keeps the order takes
\* the lines of the one to the lines of the other.
LEMMA PickSimilar ==
    ASSUME NEW K, NEW L, Positions(K), Positions(L), NEW s, NEW t
    PROVE  Pick(s, K) = Pick(t, L) <=> Similar(s, K, t, L)
<1>1. Cardinality(K) \in Nat /\ Cardinality(L) \in Nat
  BY FinitePositions
<1>2. ASSUME Similar(s, K, t, L) PROVE Pick(s, K) = Pick(t, L)
  <2>1. PICK m : OrderMap(m, K, L) /\ \A i \in K : t[m[i]] = s[i]
    BY <1>2 DEF Similar
  <2>2. Cardinality(K) = Cardinality(L) /\ \A i \in K : Rank(L, m[i]) = Rank(K, i)
    BY <2>1, RankKept
  <2>3. ASSUME NEW k \in 1..Cardinality(K) PROVE s[Nth(K, k)] = t[Nth(L, k)]
    <3>1. Nth(K, k) \in K /\ Rank(K, Nth(K, k)) = k
      BY NthIs
    <3>2. Rank(L, m[Nth(K, k)]) = k /\ m[Nth(K, k)] \in L
      BY <3>1, <2>1, <2>2 DEF OrderMap
    <3>3. Nth(L, k) = m[Nth(K, k)]
      BY <3>2, NthIs
    <3> QED BY <3>1, <3>3, <2>1
  <2> QED BY <2>2, <2>3, PickIs
<1>3. ASSUME Pick(s, K) = Pick(t, L) PROVE Similar(s, K, t, L)
  <2>1. DOMAIN Pick(s, K) = 1..Cardinality(K) /\ DOMAIN Pick(t, L) = 1..Cardinality(L)
    BY PickIs
  <2>2. Cardinality(K) = Cardinality(L)
    <3>1. 1..Cardinality(K) = 1..Cardinality(L)
      BY <2>1, <1>3
    <3> QED BY <3>1, <1>1
  <2> DEFINE m == [i \in K |-> Nth(L, Rank(K, i))]
  <2>3. ASSUME NEW i \in K
        PROVE  /\ m[i] \in L /\ Rank(L, m[i]) = Rank(K, i) /\ t[m[i]] = s[i]
               /\ Rank(K, i) \in 1..Cardinality(K)
    <3>1. Rank(K, i) \in 1..Cardinality(K) /\ Nth(K, Rank(K, i)) = i
      BY NthIs
    <3>2. m[i] \in L /\ Rank(L, m[i]) = Rank(K, i)
      BY <3>1, <2>2, NthIs
    <3>3. Pick(s, K)[Rank(K, i)] = s[i] /\ Pick(t, L)[Rank(K, i)] = t[m[i]]
      BY <3>1, <2>2, PickIs
    <3> QED BY <3>1, <3>2, <3>3, <1>3
  <2>4. m \in [K -> L]
    BY <2>3
  <2> HIDE DEF m
  <2>5. ASSUME NEW i \in K, NEW j \in K, i < j PROVE m[i] < m[j]
    <3>1. Rank(K, i) < Rank(K, j)
      BY <2>5, RankRises
    <3>2. m[j] < m[i] => Rank(L, m[j]) < Rank(L, m[i])
      BY <2>3, RankRises
    <3>3. m[i] \in Nat /\ m[j] \in Nat
      BY <2>3, FinitePositions
    <3>4. Rank(K, i) \in Int /\ Rank(K, j) \in Int
      BY <2>3, <1>1
    <3> QED BY <3>1, <3>2, <3>3, <3>4, <2>3
  <2>6. ASSUME NEW l \in L PROVE \E i \in K : m[i] = l
    <3> DEFINE i == Nth(K, Rank(L, l))
    <3>1. Rank(L, l) \in 1..Cardinality(K) /\ Nth(L, Rank(L, l)) = l
      BY <2>2, NthIs
    <3>2. i \in K /\ Rank(K, i) = Rank(L, l)
      BY <3>1, NthIs
    <3>3. m[i] = l
      BY <3>1, <3>2 DEF m
    <3> QED BY <3>2, <3>3
  <2>7. OrderMap(m, K, L)
    BY <2>4, <2>5, <2>6 DEF OrderMap
  <2> QED BY <2>3, <2>7 DEF Similar
<1> QED BY <1>2, <1>3

-----------------------------------------------------------------------------
\* The lines a file may have.
Lines == UserLines \cup {Line(kind, h) : kind \in {"start", "Host", "option", "end"}, h \in Hosts}

IsHost(l) == l[1] \in {"Host", "HostName"}

\* The lines with a host's name.
Own(lines, h) == {i \in DOMAIN lines : lines[i][2] = h}

\* The section AddHost writes (config.go, addHostSection): its four lines, all of one host.
LEMMA SectionIs ==
    ASSUME NEW h \in Hosts
    PROVE  /\ Section(h) \in Seq(Lines) /\ Len(Section(h)) = 4
           /\ Section(h)[1] = Line("start", h) /\ Section(h)[2] = Line("Host", h)
           /\ Section(h)[3] = Line("option", h) /\ Section(h)[4] = Line("end", h)
           /\ \A i \in 1..4 : Section(h)[i][2] = h
<1>1. Line("start", h) \in Lines /\ Line("Host", h) \in Lines /\ Line("option", h) \in Lines /\ Line("end", h) \in Lines
  BY DEF Lines
<1>2. Line("start", h)[2] = h /\ Line("Host", h)[2] = h /\ Line("option", h)[2] = h /\ Line("end", h)[2] = h
  BY DEF Line
<1> QED BY <1>1, <1>2 DEF Section

\* What FirstHost finds.
LEMMA FirstHostIs ==
    ASSUME NEW S, NEW lines \in Seq(S)
    PROVE  \/ FirstHost(lines) = 0 /\ \A i \in 1..Len(lines) : ~IsHost(lines[i])
           \/ /\ FirstHost(lines) \in 1..Len(lines) /\ IsHost(lines[FirstHost(lines)])
              /\ \A i \in 1..FirstHost(lines) - 1 : ~IsHost(lines[i])
<1> DEFINE I == {i \in 1..Len(lines) : IsHost(lines[i])}
<1>1. FirstHost(lines) = IF I # {} THEN Min(I) ELSE 0
  BY DEF FirstHost, SelectInSeq, IsHost
<1>2. CASE I = {}
  BY <1>1, <1>2
<1>3. CASE I # {}
  <2>1. I \in SUBSET Nat
    OBVIOUS
  <2>2. \E x \in I : \A y \in I : x <= y
    <3> HIDE DEF I
    <3> QED BY <1>3, <2>1, LeastNatural
  <2>3. Min(I) \in I /\ \A y \in I : Min(I) <= y
    <3> HIDE DEF I
    <3> QED BY <2>2 DEF Min
  <2>4. FirstHost(lines) \in I /\ \A y \in I : FirstHost(lines) <= y
    BY <1>1, <1>3, <2>3
  <2> QED BY <2>4
<1> QED BY <1>2, <1>3

\* The section goes above the first host and its comments, or to the end.
LEMMA SectionLineIs ==
    ASSUME NEW S, NEW lines \in Seq(S)
    PROVE  /\ SectionLine(lines) \in 0..Len(lines)
           /\ \A i \in 1..SectionLine(lines) : ~IsHost(lines[i])
           /\ \/ SectionLine(lines) = Len(lines)
              \/ /\ FirstHost(lines) \in SectionLine(lines) + 1..Len(lines)
                 /\ IsHost(lines[FirstHost(lines)])
                 /\ \A i \in SectionLine(lines) + 1..FirstHost(lines) - 1 : IsComment(lines[i])
                 /\ SectionLine(lines) = 0 \/ ~IsComment(lines[SectionLine(lines)])
<1> DEFINE first == FirstHost(lines)
<1>1. CASE first = 0
  BY <1>1, FirstHostIs DEF SectionLine
<1>2. CASE first # 0
  <2>1. first \in 1..Len(lines) /\ IsHost(lines[first]) /\ \A i \in 1..first - 1 : ~IsHost(lines[i])
    BY <1>2, FirstHostIs
  <2> DEFINE Fits(n) == /\ \A i \in first - n..first - 1 : IsComment(lines[i])
                        /\ n = first - 1 \/ ~IsComment(lines[first - n - 1])
             T == {a \in 0..first - 1 : \A i \in a + 1..first - 1 : IsComment(lines[i])}
  <2>2. SectionLine(lines) = first - 1 - (CHOOSE n \in 0..first - 1 : Fits(n))
    BY <1>2 DEF SectionLine
  <2> HIDE DEF first
  <2>3. T \in SUBSET Nat
    OBVIOUS
  <2>4. first - 1 \in T
    BY <2>1
  <2>5. PICK a \in T : \A y \in T : a <= y
    <3> HIDE DEF T
    <3> QED BY <2>3, <2>4, LeastNatural
  <2>6. a = 0 \/ ~IsComment(lines[a])
    <3> SUFFICES ASSUME a # 0, IsComment(lines[a]) PROVE FALSE
      OBVIOUS
    <3>1. a - 1 \in T
      BY <2>1
    <3> QED BY <2>5, <3>1, <2>3
  <2>7. first - 1 - a \in 0..first - 1 /\ Fits(first - 1 - a)
    BY <2>1, <2>6
  <2> DEFINE n == CHOOSE n \in 0..first - 1 : Fits(n)
  <2>8. n \in 0..first - 1 /\ Fits(n)
    <3> HIDE DEF Fits
    <3> QED BY <2>7
  <2> HIDE DEF n
  <2>9. SectionLine(lines) = first - 1 - n
    BY <2>2 DEF n
  <2>10. IsHost(lines[first]) /\ first \in SectionLine(lines) + 1..Len(lines)
    BY <2>1, <2>8, <2>9
  <2>11. SectionLine(lines) \in 0..Len(lines) /\ \A i \in 1..SectionLine(lines) : ~IsHost(lines[i])
    BY <2>1, <2>8, <2>9
  <2>12. /\ \A i \in SectionLine(lines) + 1..first - 1 : IsComment(lines[i])
         /\ SectionLine(lines) = 0 \/ ~IsComment(lines[SectionLine(lines)])
    BY <2>1, <2>8, <2>9
  <2> QED BY <2>10, <2>11, <2>12 DEF first
<1> QED BY <1>1, <1>2

-----------------------------------------------------------------------------
\* The section of h stands at the positions i to i + 3.
WholeAt(lines, h, i) ==
    /\ i \in 1..Len(lines) - 3
    /\ lines[i] = Line("start", h) /\ lines[i + 1] = Line("Host", h)
    /\ lines[i + 2] = Line("option", h) /\ lines[i + 3] = Line("end", h)
    /\ \A j \in 1..Len(lines) : lines[j][2] = h => j \in i..i + 3
    /\ \A j \in 1..i - 1 : lines[j][1] # "Host" \/ ~Foreign(lines[j])

Absent(lines, h) == \A j \in 1..Len(lines) : lines[j][2] # h

\* Four lines in a row, one by one.
LEMMA FourLines ==
    ASSUME NEW S, NEW lines \in Seq(S), NEW i \in 1..Len(lines) - 3
    PROVE  SubSeq(lines, i, i + 3) = <<lines[i], lines[i + 1], lines[i + 2], lines[i + 3]>>
<1> DEFINE s == SubSeq(lines, i, i + 3)
           t == <<lines[i], lines[i + 1], lines[i + 2], lines[i + 3]>>
<1>1. i \in Nat /\ i >= 1 /\ i + 3 <= Len(lines) /\ Len(lines) \in Nat
  OBVIOUS
<1>2. s \in Seq(S) /\ Len(s) = 4 /\ \A k \in 1..4 : s[k] = lines[i + k - 1]
  BY <1>1
<1>3. t \in Seq(S) /\ Len(t) = 4 /\ \A k \in 1..4 : t[k] = lines[i + k - 1]
  <2>1. lines[i] \in S /\ lines[i + 1] \in S /\ lines[i + 2] \in S /\ lines[i + 3] \in S
    BY <1>1
  <2>2. t \in Seq(S) /\ Len(t) = 4
    BY <2>1
  <2>3. \A k \in 1..4 : k = 1 \/ k = 2 \/ k = 3 \/ k = 4
    OBVIOUS
  <2>4. i + 1 - 1 = i /\ i + 2 - 1 = i + 1 /\ i + 3 - 1 = i + 2 /\ i + 4 - 1 = i + 3
    BY <1>1
  <2>5. t[1] = lines[i] /\ t[2] = lines[i + 1] /\ t[3] = lines[i + 2] /\ t[4] = lines[i + 3]
    OBVIOUS
  <2> HIDE DEF t
  <2> QED BY <2>2, <2>3, <2>4, <2>5
<1> HIDE DEF s, t
<1>4. s = t
  BY <1>2, <1>3, SMTT(30)
<1> QED BY <1>4 DEF s, t

\* A host's lines are whole when it has none, or one section that begins somewhere.
LEMMA WholeCases ==
    ASSUME NEW lines \in Seq(Lines), NEW h \in Hosts
    PROVE  Whole(lines, h) <=> Absent(lines, h) \/ \E i \in 1..Len(lines) : WholeAt(lines, h, i)
<1> DEFINE own == {i \in DOMAIN lines : lines[i][2] = h}
<1>1. DOMAIN lines = 1..Len(lines) /\ Len(lines) \in Nat
  OBVIOUS
<1>2. own = {} <=> Absent(lines, h)
  BY <1>1 DEF Absent
<1>3. ASSUME NEW i \in 1..Len(lines)
      PROVE  WholeAt(lines, h, i) <=>
                 /\ own = i..i + 3 /\ SubSeq(lines, i, i + 3) = Section(h)
                 /\ \A j \in 1..i - 1 : lines[j][1] # "Host" \/ ~Foreign(lines[j])
  <2>1. ASSUME WholeAt(lines, h, i)
        PROVE  own = i..i + 3 /\ SubSeq(lines, i, i + 3) = Section(h)
    <3>1. i + 3 <= Len(lines)
      BY <2>1 DEF WholeAt
    <3>2. \A j \in i..i + 3 : lines[j][2] = h
      <4>1. lines[i][2] = h /\ lines[i + 1][2] = h /\ lines[i + 2][2] = h /\ lines[i + 3][2] = h
        BY <2>1 DEF WholeAt, Line
      <4> QED BY <4>1
    <3>3. own = i..i + 3
      BY <2>1, <3>1, <3>2 DEF WholeAt
    <3>4. SubSeq(lines, i, i + 3) = <<lines[i], lines[i + 1], lines[i + 2], lines[i + 3]>>
      BY <2>1, FourLines DEF WholeAt
    <3> QED BY <2>1, <3>3, <3>4 DEF WholeAt, Section
  <2>2. ASSUME own = i..i + 3, SubSeq(lines, i, i + 3) = Section(h)
        PROVE  /\ i \in 1..Len(lines) - 3
               /\ lines[i] = Line("start", h) /\ lines[i + 1] = Line("Host", h)
               /\ lines[i + 2] = Line("option", h) /\ lines[i + 3] = Line("end", h)
               /\ \A j \in 1..Len(lines) : lines[j][2] = h => j \in i..i + 3
    <3>1. i + 3 \in own
      BY <2>2
    <3>2. i \in 1..Len(lines) - 3
      BY <3>1
    <3>3. SubSeq(lines, i, i + 3) = <<lines[i], lines[i + 1], lines[i + 2], lines[i + 3]>>
      BY <3>2, FourLines
    <3>4. /\ lines[i] = Line("start", h) /\ lines[i + 1] = Line("Host", h)
          /\ lines[i + 2] = Line("option", h) /\ lines[i + 3] = Line("end", h)
      BY <2>2, <3>3 DEF Section
    <3>5. \A j \in 1..Len(lines) : lines[j][2] = h => j \in own
      BY <1>1
    <3> QED BY <2>2, <3>2, <3>4, <3>5
  <2> QED BY <2>1, <2>2 DEF WholeAt
<1>4. Whole(lines, h) <=>
          (own # {} => \E i \in 1..Len(lines) :
                          /\ own = i..i + 3 /\ SubSeq(lines, i, i + 3) = Section(h)
                          /\ \A j \in 1..i - 1 : lines[j][1] # "Host" \/ ~Foreign(lines[j]))
  BY <1>1, Zenon DEF Whole
<1> HIDE DEF own
<1> QED BY <1>2, <1>3, <1>4

\* Picking every line gives the file.
LEMMA PickAll ==
    ASSUME NEW S, NEW t \in Seq(S)
    PROVE  Pick(t, 1..Len(t)) = t
<1> DEFINE n == Len(t)
<1>0. n \in Nat
  OBVIOUS
<1> HIDE DEF n
<1>1. Cardinality(1..n) = n /\ Positions(1..n)
  <2>1. Cardinality(1..n) = IF 1 > n THEN 0 ELSE n - 1 + 1
    BY <1>0, FS_Interval
  <2>2. Cardinality(1..n) = n
    BY <1>0, <2>1
  <2>3. 1..n \in SUBSET (1..n)
    OBVIOUS
  <2> QED BY <1>0, <2>2, <2>3 DEF Positions
<1>2. ASSUME NEW k \in 1..n PROVE Nth(1..n, k) = k
  <2>1. {j \in 1..n : j <= k} = 1..k
    BY <1>0
  <2>2. Cardinality(1..k) = IF 1 > k THEN 0 ELSE k - 1 + 1
    BY <1>0, FS_Interval
  <2>2a. Cardinality(1..k) = k
    BY <1>0, <2>2
  <2>3. Rank(1..n, k) = k
    BY <2>1, <2>2a, Zenon DEF Rank
  <2> QED BY <2>3, <1>1, NthIs
<1>3. Pick(t, 1..n) = [k \in 1..n |-> t[k]]
  BY <1>1, <1>2, PickIs
<1> QED BY <1>3 DEF n

\* The lines without the four from i on.
Cut(lines, i) == [j \in 1..Len(lines) - 4 |-> IF j < i THEN lines[j] ELSE lines[j + 4]]

\* removeFromConfig cuts the section out and leaves the rest as it is.
LEMMA RemoveIs ==
    ASSUME NEW lines \in Seq(Lines), NEW h \in Hosts
    PROVE  /\ Absent(lines, h) => RemoveFromConfig(lines, h) = lines
           /\ \A i \in 1..Len(lines) :
                 WholeAt(lines, h, i) => RemoveFromConfig(lines, h) = Cut(lines, i)
<1> DEFINE Inside(i) == \E j \in 1..i : /\ lines[j] = Line("start", h)
                                        /\ \A k \in j..i : lines[k] # Line("end", h)
           K == {i \in DOMAIN lines : ~Inside(i) /\ lines[i] # Line("end", h)}
<1>1. RemoveFromConfig(lines, h) = Pick(lines, K)
  BY DEF RemoveFromConfig
<1>2. DOMAIN lines = 1..Len(lines) /\ Len(lines) \in Nat
  OBVIOUS
<1>3. Line("start", h)[2] = h /\ Line("end", h)[2] = h
  BY DEF Line
<1>4. ASSUME Absent(lines, h) PROVE Pick(lines, K) = lines
  <2>1. \A j \in 1..Len(lines) : lines[j] # Line("start", h) /\ lines[j] # Line("end", h)
    BY <1>3, <1>4 DEF Absent
  <2>2. K = 1..Len(lines)
    BY <1>2, <2>1
  <2> QED BY <2>2, PickAll
<1>5. ASSUME NEW i \in 1..Len(lines), WholeAt(lines, h, i) PROVE Pick(lines, K) = Cut(lines, i)
  <2> DEFINE n == Len(lines)
             L == 1..n - 4
             m == [p \in K |-> IF p < i THEN p ELSE p - 4]
  <2>1. i + 3 <= n
    BY <1>5 DEF WholeAt
  <2>2. \A j \in 1..n : /\ lines[j] = Line("start", h) <=> j = i
                        /\ lines[j] = Line("end", h) <=> j = i + 3
    <3> SUFFICES ASSUME NEW j \in 1..n
                 PROVE  /\ lines[j] = Line("start", h) <=> j = i
                        /\ lines[j] = Line("end", h) <=> j = i + 3
      OBVIOUS
    <3>1. (lines[j] = Line("start", h) \/ lines[j] = Line("end", h)) => j \in {i, i + 1, i + 2, i + 3}
      BY <1>3, <1>5 DEF WholeAt
    <3>2. /\ Line("start", h) # Line("end", h) /\ Line("Host", h) # Line("start", h)
          /\ Line("Host", h) # Line("end", h) /\ Line("option", h) # Line("start", h)
          /\ Line("option", h) # Line("end", h)
      BY DEF Line
    <3>3. /\ lines[i] = Line("start", h) /\ lines[i + 1] = Line("Host", h)
          /\ lines[i + 2] = Line("option", h) /\ lines[i + 3] = Line("end", h)
      BY <1>5 DEF WholeAt
    <3> QED BY <3>1, <3>2, <3>3
  <2>3. ASSUME NEW p \in 1..n PROVE Inside(p) <=> p \in i..i + 2
    BY <2>1, <2>2, <1>2
  <2>4. K = {p \in 1..n : p < i \/ p > i + 3}
    <3> HIDE DEF Inside
    <3> QED BY <1>2, <2>1, <2>2, <2>3
  <2> HIDE DEF K
  <2>5. OrderMap(m, K, L)
    <3>1. m \in [K -> L]
      BY <2>1, <2>4, <1>2
    <3>2. \A a, b \in K : a < b => m[a] < m[b]
      BY <2>1, <2>4, <1>2
    <3>3. ASSUME NEW l \in L PROVE \E p \in K : m[p] = l
      <4>1. CASE l < i
        <5>1. l \in K /\ m[l] = l
          BY <4>1, <2>1, <2>4, <1>2
        <5> QED BY <5>1
      <4>2. CASE l >= i
        <5>1. l + 4 \in K /\ m[l + 4] = l
          BY <4>2, <2>1, <2>4, <1>2
        <5> QED BY <5>1
      <4> QED BY <4>1, <4>2, <1>2
    <3> QED BY <3>1, <3>2, <3>3 DEF OrderMap
  <2>6. \A p \in K : Cut(lines, i)[m[p]] = lines[p]
    BY <2>1, <2>4, <1>2 DEF Cut
  <2>7. Positions(K) /\ Positions(L)
    <3>1. K \in SUBSET (1..n)
      BY <2>4
    <3>2. L \in SUBSET (1..n) /\ n \in Nat
      BY <1>2
    <3> QED BY <3>1, <3>2 DEF Positions
  <2>8. Similar(lines, K, Cut(lines, i), L)
    BY <2>5, <2>6 DEF Similar
  <2>9. Pick(lines, K) = Pick(Cut(lines, i), L)
    BY <2>7, <2>8, PickSimilar
  <2>10. Cut(lines, i) \in Seq(Lines) /\ Len(Cut(lines, i)) = n - 4
    BY <2>1, <1>2 DEF Cut
  <2>11. Pick(Cut(lines, i), L) = Cut(lines, i)
    BY <2>10, PickAll
  <2> QED BY <2>9, <2>11
<1> QED BY <1>1, <1>4, <1>5

\* Cutting a section out leaves the others whole.
LEMMA CutWhole ==
    ASSUME NEW lines \in Seq(Lines), NEW h \in Hosts, NEW i \in 1..Len(lines), WholeAt(lines, h, i)
    PROVE  /\ Cut(lines, i) \in Seq(Lines) /\ Len(Cut(lines, i)) = Len(lines) - 4
           /\ Absent(Cut(lines, i), h)
           /\ \A g \in Hosts \ {h} : /\ Whole(lines, g) => Whole(Cut(lines, i), g)
                                     /\ Absent(Cut(lines, i), g) <=> Absent(lines, g)
<1> DEFINE new == Cut(lines, i)
           n == Len(lines)
<1>1. n \in Nat /\ i + 3 <= n /\ i >= 1 /\ i \in Nat
  BY DEF WholeAt
<1>2. /\ new \in Seq(Lines) /\ Len(new) = n - 4
      /\ \A j \in 1..n - 4 : new[j] = IF j < i THEN lines[j] ELSE lines[j + 4]
  BY <1>1 DEF Cut
<1> HIDE DEF new
<1>3. \A j \in i..i + 3 : lines[j][2] = h
  <2>1. lines[i][2] = h /\ lines[i + 1][2] = h /\ lines[i + 2][2] = h /\ lines[i + 3][2] = h
    BY DEF WholeAt, Line
  <2> QED BY <1>1, <2>1
<1>4. Absent(new, h)
  BY <1>1, <1>2 DEF Absent, WholeAt
<1>5. ASSUME NEW g \in Hosts \ {h} PROVE Absent(new, g) <=> Absent(lines, g)
  <2>1. Absent(lines, g) => Absent(new, g)
    BY <1>1, <1>2 DEF Absent
  <2>2. ASSUME NEW j \in 1..n, lines[j][2] = g PROVE \E k \in 1..n - 4 : new[k][2] = g
    <3>1. j < i \/ j > i + 3
      BY <1>1, <1>3, <2>2
    <3>2. CASE j < i
      BY <1>1, <1>2, <2>2, <3>2
    <3>3. CASE j > i + 3
      <4>1. j - 4 \in 1..n - 4 /\ new[j - 4] = lines[j]
        BY <1>1, <1>2, <3>3
      <4> QED BY <2>2, <4>1
    <3> QED BY <3>1, <3>2, <3>3
  <2> QED BY <1>2, <2>1, <2>2 DEF Absent
<1>6. ASSUME NEW g \in Hosts \ {h}, NEW k \in 1..n, WholeAt(lines, g, k)
      PROVE  \E q \in 1..n - 4 : WholeAt(new, g, q)
  <2>1. k + 3 <= n /\ k >= 1 /\ k \in Nat
    BY <1>1, <1>6 DEF WholeAt
  <2>2. \A j \in k..k + 3 : lines[j][2] = g
    <3>1. lines[k][2] = g /\ lines[k + 1][2] = g /\ lines[k + 2][2] = g /\ lines[k + 3][2] = g
      BY <1>6 DEF WholeAt, Line
    <3> QED BY <2>1, <3>1
  <2>3. k + 3 < i \/ k > i + 3
    <3>1. \A j \in i..i + 3 : j \notin k..k + 3
      BY <1>3, <2>2
    <3> QED BY <1>1, <2>1, <3>1
  <2>4. CASE k + 3 < i
    <3>1. k \in 1..Len(new) - 3
      BY <1>1, <1>2, <2>1, <2>4
    <3>2. \A j \in 1..k + 3 : new[j] = lines[j]
      BY <1>1, <1>2, <2>1, <2>4
    <3>3. /\ new[k] = Line("start", g) /\ new[k + 1] = Line("Host", g)
          /\ new[k + 2] = Line("option", g) /\ new[k + 3] = Line("end", g)
      BY <1>6, <2>1, <3>2 DEF WholeAt
    <3>4. \A j \in 1..Len(new) : new[j][2] = g => j \in k..k + 3
      <4> SUFFICES ASSUME NEW j \in 1..n - 4, new[j][2] = g PROVE j \in k..k + 3
        BY <1>2
      <4>1. CASE j < i
        <5>1. new[j] = lines[j] /\ j \in 1..n
          BY <1>1, <1>2, <4>1
        <5> QED BY <1>6, <5>1 DEF WholeAt
      <4>2. CASE ~(j < i)
        <5>1. new[j] = lines[j + 4] /\ j + 4 \in 1..n /\ j + 4 > k + 3
          BY <1>1, <1>2, <2>1, <2>4, <4>2
        <5> QED BY <1>6, <2>1, <5>1 DEF WholeAt
      <4> QED BY <4>1, <4>2
    <3>5. \A j \in 1..k - 1 : new[j][1] # "Host" \/ ~Foreign(new[j])
      <4>1. \A j \in 1..k - 1 : j \in 1..k + 3
        BY <2>1
      <4>2. \A j \in 1..k - 1 : lines[j][1] # "Host" \/ ~Foreign(lines[j])
        BY <1>6 DEF WholeAt
      <4> QED BY <3>2, <4>1, <4>2
    <3>6. WholeAt(new, g, k) /\ k \in 1..n - 4
      BY <1>1, <1>2, <3>1, <3>3, <3>4, <3>5 DEF WholeAt
    <3> QED BY <3>6
  <2>5. CASE k > i + 3
    <3> DEFINE q == k - 4
    <3>1. q \in 1..Len(new) - 3
      BY <1>1, <1>2, <2>1, <2>5
    <3>2. \A j \in q..Len(new) : new[j] = lines[j + 4]
      <4> SUFFICES ASSUME NEW j \in q..Len(new) PROVE new[j] = lines[j + 4]
        OBVIOUS
      <4>1. j \in 1..n - 4 /\ ~(j < i)
        BY <1>1, <1>2, <2>1, <2>5
      <4> QED BY <1>2, <4>1
    <3>3. new[q] = lines[k] /\ new[q + 1] = lines[k + 1] /\ new[q + 2] = lines[k + 2] /\ new[q + 3] = lines[k + 3]
      <4>0. q \in Int /\ q + 3 <= n - 4
        BY <1>1, <2>1
      <4>2. q + 4 = k /\ q + 1 + 4 = k + 1 /\ q + 2 + 4 = k + 2 /\ q + 3 + 4 = k + 3
        BY <2>1
      <4> HIDE DEF q
      <4>1. q \in q..Len(new) /\ q + 1 \in q..Len(new) /\ q + 2 \in q..Len(new) /\ q + 3 \in q..Len(new)
        BY <1>1, <1>2, <4>0
      <4> QED BY <3>2, <4>1, <4>2
    <3>4. /\ new[q] = Line("start", g) /\ new[q + 1] = Line("Host", g)
          /\ new[q + 2] = Line("option", g) /\ new[q + 3] = Line("end", g)
      BY <1>6, <3>3 DEF WholeAt
    <3>a. ASSUME NEW j \in 1..Len(new)
          PROVE  \E p \in 1..n : new[j] = lines[p] /\ p = IF j < i THEN j ELSE j + 4
      <4>1. CASE j < i
        <5>1. j \in 1..n /\ new[j] = lines[j]
          BY <1>1, <1>2, <4>1
        <5> QED BY <4>1, <5>1
      <4>2. CASE ~(j < i)
        <5>1. j + 4 \in 1..n /\ new[j] = lines[j + 4]
          BY <1>1, <1>2, <4>2
        <5> QED BY <4>2, <5>1
      <4> QED BY <4>1, <4>2
    <3>5. ASSUME NEW j \in 1..Len(new), new[j][2] = g PROVE j \in q..q + 3
      <4>1. PICK p \in 1..n : new[j] = lines[p] /\ p = IF j < i THEN j ELSE j + 4
        BY <3>a
      <4>2. p \in k..k + 3
        BY <1>6, <3>5, <4>1 DEF WholeAt
      <4> QED BY <1>1, <1>2, <2>1, <2>5, <4>1, <4>2
    <3>6. ASSUME NEW j \in 1..q - 1 PROVE new[j][1] # "Host" \/ ~Foreign(new[j])
      <4>0. j \in 1..Len(new)
        BY <1>1, <1>2, <2>1
      <4>1. PICK p \in 1..n : new[j] = lines[p] /\ p = IF j < i THEN j ELSE j + 4
        BY <3>a, <4>0
      <4>2. p \in 1..k - 1
        BY <1>1, <2>1, <2>5, <4>1
      <4> QED BY <1>6, <4>1, <4>2 DEF WholeAt
    <3>7. WholeAt(new, g, q) /\ q \in 1..n - 4
      BY <1>1, <1>2, <3>1, <3>4, <3>5, <3>6 DEF WholeAt
    <3> QED BY <3>7
  <2> QED BY <2>3, <2>4, <2>5
<1>7. ASSUME NEW g \in Hosts \ {h}, Whole(lines, g) PROVE Whole(new, g)
  <2>1. Absent(lines, g) \/ \E k \in 1..n : WholeAt(lines, g, k)
    BY <1>7, WholeCases
  <2>2. Absent(new, g) \/ \E q \in 1..Len(new) : WholeAt(new, g, q)
    BY <1>2, <1>5, <1>6, <2>1
  <2> QED BY <1>2, <2>2, WholeCases
<1> QED BY <1>2, <1>4, <1>5, <1>7 DEF new

-----------------------------------------------------------------------------
\* The lines with the section of h after the first at.
Insert(lines, at, h) ==
    [j \in 1..Len(lines) + 4 |-> IF j <= at THEN lines[j]
                                 ELSE IF j <= at + 4 THEN Section(h)[j - at] ELSE lines[j - 4]]

\* The lines of two files, one below the other.
LEMMA ConcatIs ==
    ASSUME NEW S, NEW s \in Seq(S), NEW t \in Seq(S)
    PROVE  /\ s \o t \in Seq(S) /\ Len(s \o t) = Len(s) + Len(t)
           /\ \A j \in 1..Len(s) + Len(t) : (s \o t)[j] = IF j <= Len(s) THEN s[j] ELSE t[j - Len(s)]
  OBVIOUS

\* Files with the same lines are the same.
LEMMA SameLines ==
    ASSUME NEW S, NEW s \in Seq(S), NEW t, NEW n, n = Len(s), t = [j \in 1..n |-> t[j]],
           \A j \in 1..n : s[j] = t[j]
    PROVE  s = t
  OBVIOUS

\* addHostSection inserts the section below the line it chooses, and the result is a file.
LEMMA AddIs ==
    ASSUME NEW lines \in Seq(Lines), NEW h \in Hosts
    PROVE  /\ AddHostSection(lines, h) = Insert(lines, SectionLine(lines), h)
           /\ AddHostSection(lines, h) \in Seq(Lines)
<1> DEFINE at == SectionLine(lines)
           n == Len(lines)
           top == SubSeq(lines, 1, at)
           rest == SubSeq(lines, at + 1, n)
           mid == Section(h)
<1>1. at \in 0..n /\ n \in Nat
  BY SectionLineIs
<1>2. AddHostSection(lines, h) = top \o mid \o rest
  BY DEF AddHostSection
<1> HIDE DEF at
<1>3. top \in Seq(Lines) /\ Len(top) = at /\ \A j \in 1..at : top[j] = lines[j]
  BY <1>1
<1>4. rest \in Seq(Lines) /\ Len(rest) = n - at /\ \A j \in 1..n - at : rest[j] = lines[at + j]
  BY <1>1
<1>5. mid \in Seq(Lines) /\ Len(mid) = 4
  BY SectionIs
<1> HIDE DEF top, rest, mid
<1>6. /\ top \o mid \in Seq(Lines) /\ Len(top \o mid) = at + 4
      /\ \A j \in 1..at + 4 : (top \o mid)[j] = IF j <= at THEN top[j] ELSE mid[j - at]
  <2>1. Len(top) + Len(mid) = at + 4
    BY <1>3, <1>5
  <2>2. \A j \in 1..Len(top) + Len(mid) : (top \o mid)[j] = IF j <= Len(top) THEN top[j] ELSE mid[j - Len(top)]
    BY <1>3, <1>5, ConcatIs
  <2>3. top \o mid \in Seq(Lines) /\ Len(top \o mid) = Len(top) + Len(mid)
    BY <1>3, <1>5, ConcatIs
  <2>4. Len(top) = at
    BY <1>3
  <2> QED BY <2>1, <2>2, <2>3, <2>4
<1> DEFINE head == top \o mid
<1> HIDE DEF head
<1>7. /\ head \o rest \in Seq(Lines) /\ Len(head \o rest) = n + 4
      /\ \A j \in 1..n + 4 : (head \o rest)[j] = IF j <= at + 4 THEN head[j] ELSE rest[j - (at + 4)]
  <2>1. head \in Seq(Lines) /\ Len(head) = at + 4
    BY <1>6 DEF head
  <2>2. Len(head) + Len(rest) = n + 4
    BY <2>1, <1>1, <1>4
  <2> QED BY <2>1, <2>2, <1>4, ConcatIs
<1>8. \A j \in 1..n + 4 : (head \o rest)[j] = Insert(lines, at, h)[j]
  <2> SUFFICES ASSUME NEW j \in 1..n + 4 PROVE (head \o rest)[j] = Insert(lines, at, h)[j]
    OBVIOUS
  <2>1. Insert(lines, at, h)[j] = IF j <= at THEN lines[j] ELSE IF j <= at + 4 THEN mid[j - at] ELSE lines[j - 4]
    BY DEF Insert, mid
  <2>2. CASE j <= at
    <3>1. j \in 1..at /\ j \in 1..at + 4 /\ j <= at + 4
      BY <1>1, <2>2
    <3>2. (head \o rest)[j] = head[j] /\ head[j] = top[j]
      BY <3>1, <2>2, <1>6, <1>7 DEF head
    <3> QED BY <3>1, <3>2, <2>1, <2>2, <1>3
  <2>3. CASE ~(j <= at) /\ j <= at + 4
    <3>1. j \in 1..at + 4
      BY <1>1, <2>3
    <3>2. (head \o rest)[j] = head[j] /\ head[j] = mid[j - at]
      BY <3>1, <2>3, <1>6, <1>7 DEF head
    <3> QED BY <3>2, <2>1, <2>3
  <2>4. CASE ~(j <= at) /\ ~(j <= at + 4)
    <3>1. j - (at + 4) \in 1..n - at /\ at + (j - (at + 4)) = j - 4
      BY <1>1, <2>4
    <3>2. (head \o rest)[j] = rest[j - (at + 4)]
      BY <2>4, <1>7
    <3> QED BY <3>1, <3>2, <2>1, <2>4, <1>4
  <2> QED BY <2>2, <2>3, <2>4
<1>9. Insert(lines, at, h) = [j \in 1..n + 4 |-> Insert(lines, at, h)[j]]
  BY DEF Insert
<1>10. Len(head \o rest) = n + 4 /\ head \o rest \in Seq(Lines)
  BY <1>7
<1>11. head \o rest = Insert(lines, at, h)
  <2> DEFINE whole == head \o rest
             other == Insert(lines, at, h)
  <2>1. /\ whole \in Seq(Lines) /\ n + 4 = Len(whole) /\ other = [j \in 1..n + 4 |-> other[j]]
        /\ \A j \in 1..n + 4 : whole[j] = other[j]
    BY <1>8, <1>9, <1>10
  <2> HIDE DEF whole, other
  <2>2. whole = other
    BY <2>1, SameLines
  <2> QED BY <2>2 DEF whole, other
<1> QED BY <1>2, <1>7, <1>11 DEF at, head

\* Where SectionLine puts it, the section is whole and cuts no other.
LEMMA InsertWhole ==
    ASSUME NEW lines \in Seq(Lines), NEW h \in Hosts, Absent(lines, h),
           NEW at, at = SectionLine(lines)
    PROVE  /\ Insert(lines, at, h) \in Seq(Lines) /\ Len(Insert(lines, at, h)) = Len(lines) + 4
           /\ at \in 0..Len(lines) /\ WholeAt(Insert(lines, at, h), h, at + 1)
           /\ \A g \in Hosts \ {h} : /\ Whole(lines, g) => Whole(Insert(lines, at, h), g)
                                     /\ Absent(Insert(lines, at, h), g) <=> Absent(lines, g)
<1> DEFINE new == Insert(lines, at, h)
           n == Len(lines)
<1>1. at \in 0..n /\ n \in Nat
  BY SectionLineIs
<1>2. /\ new \in Seq(Lines)
      /\ Len(new) = n + 4
      /\ \A j \in 1..at : new[j] = lines[j]
      /\ \A j \in 1..4 : new[at + j] = Section(h)[j]
      /\ \A j \in at + 1..n : new[j + 4] = lines[j]
  <2>1. new \in Seq(Lines)
    BY AddIs
  <2>2. /\ DOMAIN new = 1..n + 4
        /\ \A j \in 1..n + 4 : new[j] = IF j <= at THEN lines[j]
                                        ELSE IF j <= at + 4 THEN Section(h)[j - at] ELSE lines[j - 4]
    BY DEF Insert
  <2> HIDE DEF new
  <2>3. Len(new) = n + 4
    BY <1>1, <2>1, <2>2
  <2>4. \A j \in 1..at : new[j] = lines[j]
    BY <1>1, <2>2
  <2>5. ASSUME NEW j \in 1..4 PROVE new[at + j] = Section(h)[j]
    <3> DEFINE p == at + j
    <3>1. p \in 1..n + 4 /\ ~(p <= at) /\ p <= at + 4 /\ p - at = j
      BY <1>1
    <3> HIDE DEF p
    <3>2. new[p] = Section(h)[p - at]
      BY <2>2, <3>1
    <3> QED BY <3>1, <3>2 DEF p
  <2>6. ASSUME NEW j \in at + 1..n PROVE new[j + 4] = lines[j]
    <3>1. j + 4 \in 1..n + 4 /\ ~(j + 4 <= at) /\ ~(j + 4 <= at + 4) /\ j + 4 - 4 = j
      BY <1>1
    <3> QED BY <2>2, <3>1
  <2> QED BY <2>1, <2>3, <2>4, <2>5, <2>6
<1>2a. ASSUME NEW j \in at + 5..n + 4
       PROVE  \E i \in at + 1..n : j = i + 4 /\ i \in 1..n /\ new[j] = lines[i]
  <2> DEFINE i == j - 4
  <2>1. i \in at + 1..n /\ j = i + 4 /\ i \in 1..n
    BY <1>1
  <2> HIDE DEF new, i
  <2>2. new[i + 4] = lines[i]
    BY <1>2, <2>1
  <2> QED BY <2>1, <2>2
<1> HIDE DEF new
<1>3. /\ new[at + 1] = Line("start", h) /\ new[at + 2] = Line("Host", h)
      /\ new[at + 3] = Line("option", h) /\ new[at + 4] = Line("end", h)
  BY <1>2, SectionIs
<1>4. \A j \in at + 1..at + 4 : new[j][2] = h
  <2>1. new[at + 1][2] = h /\ new[at + 2][2] = h /\ new[at + 3][2] = h /\ new[at + 4][2] = h
    BY <1>3 DEF Line
  <2>2. \A j \in at + 1..at + 4 : j = at + 1 \/ j = at + 2 \/ j = at + 3 \/ j = at + 4
    BY <1>1
  <2> QED BY <2>1, <2>2
<1>5. \A j \in 1..at : ~IsHost(lines[j])
  BY SectionLineIs
<1>6. WholeAt(new, h, at + 1)
  <2>1. \A j \in 1..Len(new) : new[j][2] = h => j \in at + 1..at + 4
    <3> SUFFICES ASSUME NEW j \in 1..n + 4, j \notin at + 1..at + 4 PROVE new[j][2] # h
      BY <1>2
    <3>1. CASE j \in 1..at
      <4>1. new[j] = lines[j] /\ j \in 1..n
        BY <1>1, <1>2, <3>1
      <4> QED BY <4>1 DEF Absent
    <3>2. CASE j \in at + 5..n + 4
      <4>1. PICK i \in at + 1..n : j = i + 4 /\ i \in 1..n /\ new[j] = lines[i]
        BY <1>2a, <3>2
      <4> QED BY <4>1 DEF Absent
    <3> QED BY <1>1, <3>1, <3>2
  <2>2. \A j \in 1..at : new[j][1] # "Host"
    BY <1>1, <1>2, <1>5 DEF IsHost
  <2> DEFINE p == at + 1
  <2>3. p \in 1..Len(new) - 3
    BY <1>1, <1>2
  <2>4. p = at + 1 /\ p + 1 = at + 2 /\ p + 2 = at + 3 /\ p + 3 = at + 4 /\ p - 1 = at
    BY <1>1
  <2> HIDE DEF p
  <2>8. WholeAt(new, h, p)
    BY <1>3, <2>1, <2>2, <2>3, <2>4 DEF WholeAt
  <2> QED BY <2>8 DEF p
<1>7. ASSUME NEW g \in Hosts \ {h} PROVE Absent(new, g) <=> Absent(lines, g)
  <2>1. ASSUME Absent(lines, g) PROVE Absent(new, g)
    <3> SUFFICES ASSUME NEW j \in 1..n + 4 PROVE new[j][2] # g
      BY <1>2 DEF Absent
    <3>1. CASE j \in 1..at
      <4>1. new[j] = lines[j] /\ j \in 1..n
        BY <1>1, <1>2, <3>1
      <4> QED BY <2>1, <4>1 DEF Absent
    <3>2. CASE j \in at + 1..at + 4
      BY <1>4, <3>2
    <3>3. CASE j \in at + 5..n + 4
      <4>1. PICK i \in at + 1..n : j = i + 4 /\ i \in 1..n /\ new[j] = lines[i]
        BY <1>2a, <3>3
      <4> QED BY <2>1, <4>1 DEF Absent
    <3> QED BY <1>1, <3>1, <3>2, <3>3
  <2>2. ASSUME NEW j \in 1..n, lines[j][2] = g PROVE \E k \in 1..n + 4 : new[k][2] = g
    <3>1. CASE j <= at
      <4>1. j \in 1..n + 4 /\ new[j] = lines[j]
        BY <1>1, <1>2, <3>1
      <4> QED BY <2>2, <4>1
    <3>2. CASE j > at
      <4>1. j + 4 \in 1..n + 4 /\ j \in at + 1..n
        BY <1>1, <3>2
      <4>2. new[j + 4] = lines[j]
        BY <1>2, <4>1
      <4> QED BY <2>2, <4>1, <4>2
    <3> QED BY <1>1, <3>1, <3>2
  <2> QED BY <1>2, <2>1, <2>2 DEF Absent
<1>8. ASSUME NEW g \in Hosts \ {h}, NEW k \in 1..n, WholeAt(lines, g, k)
      PROVE  WholeAt(new, g, k + 4) /\ k + 4 \in 1..Len(new)
  <2>1. k + 3 <= n /\ k >= 1 /\ k \in Nat
    BY <1>1, <1>8 DEF WholeAt
  <2>2. IsHost(lines[k + 1]) /\ IsComment(lines[k])
    BY <1>8 DEF WholeAt, IsHost, IsComment, Line
  <2>3. at <= k
    BY <1>1, <1>5, <2>1, <2>2
  <2>4. at < k
    <3>1. at # n
      BY <1>1, <2>1, <2>3
    <3>2. at = 0 \/ ~IsComment(lines[at])
      BY <3>1, SectionLineIs
    <3> QED BY <1>1, <2>1, <2>2, <2>3, <3>2
  <2>5. /\ new[k + 4] = lines[k] /\ new[k + 5] = lines[k + 1]
        /\ new[k + 6] = lines[k + 2] /\ new[k + 7] = lines[k + 3]
    <3>1. k \in at + 1..n /\ k + 1 \in at + 1..n /\ k + 2 \in at + 1..n /\ k + 3 \in at + 1..n
      BY <1>1, <2>1, <2>4
    <3>2. k + 1 + 4 = k + 5 /\ k + 2 + 4 = k + 6 /\ k + 3 + 4 = k + 7
      BY <2>1
    <3> QED BY <1>2, <3>1, <3>2
  <2>6. /\ new[k + 4] = Line("start", g) /\ new[k + 5] = Line("Host", g)
        /\ new[k + 6] = Line("option", g) /\ new[k + 7] = Line("end", g)
    BY <1>8, <2>5 DEF WholeAt
  <2>7. \A j \in 1..Len(new) : new[j][2] = g => j \in k + 4..k + 7
    <3> SUFFICES ASSUME NEW j \in 1..n + 4, new[j][2] = g PROVE j \in k + 4..k + 7
      BY <1>2
    <3>1. CASE j \in 1..at
      <4>1a. j \in 1..n /\ new[j] = lines[j]
        BY <1>1, <1>2, <3>1
      <4>1. lines[j][2] = g /\ j \in 1..n
        BY <4>1a
      <4> QED BY <1>1, <1>8, <2>1, <2>4, <3>1, <4>1 DEF WholeAt
    <3>2. CASE j \in at + 1..at + 4
      BY <1>4, <3>2
    <3>3. CASE j \in at + 5..n + 4
      <4>1. PICK i \in at + 1..n : j = i + 4 /\ i \in 1..n /\ new[j] = lines[i]
        BY <1>2a, <3>3
      <4>2. i \in k..k + 3
        BY <1>8, <4>1 DEF WholeAt
      <4> QED BY <2>1, <4>1, <4>2
    <3> QED BY <1>1, <3>1, <3>2, <3>3
  <2>8. \A j \in 1..k + 3 : new[j][1] # "Host" \/ ~Foreign(new[j])
    <3> SUFFICES ASSUME NEW j \in 1..k + 3 PROVE new[j][1] # "Host" \/ ~Foreign(new[j])
      OBVIOUS
    <3>1. CASE j \in 1..at
      BY <1>2, <1>5, <3>1 DEF IsHost
    <3>2. CASE j \in at + 1..at + 4
      BY <1>4, <3>2 DEF Foreign
    <3>3. CASE j \in at + 5..n + 4
      <4>1. PICK i \in at + 1..n : j = i + 4 /\ i \in 1..n /\ new[j] = lines[i]
        BY <1>2a, <3>3
      <4>2. i \in 1..k - 1
        BY <2>1, <4>1
      <4> QED BY <1>8, <4>1, <4>2 DEF WholeAt
    <3> QED BY <1>1, <2>1, <3>1, <3>2, <3>3
  <2>9. /\ k + 4 \in 1..Len(new) - 3 /\ k + 4 + 1 = k + 5 /\ k + 4 + 2 = k + 6 /\ k + 4 + 3 = k + 7
        /\ k + 4 - 1 = k + 3 /\ k + 4 \in 1..Len(new)
    BY <1>1, <1>2, <2>1
  <2> QED BY <2>6, <2>7, <2>8, <2>9 DEF WholeAt
<1>9. ASSUME NEW g \in Hosts \ {h}, Whole(lines, g) PROVE Whole(new, g)
  <2>1. Absent(lines, g) \/ \E k \in 1..n : WholeAt(lines, g, k)
    BY <1>9, WholeCases
  <2>2. Absent(new, g) \/ \E q \in 1..Len(new) : WholeAt(new, g, q)
    BY <1>7, <1>8, <2>1
  <2> QED BY <1>2, <2>2, WholeCases
<1> QED BY <1>1, <1>2, <1>6, <1>7, <1>9 DEF new

-----------------------------------------------------------------------------
\* What ReadConfig builds from the lines.
Rewritten(lines, h, add) ==
    LET without == RemoveFromConfig(lines, h)
    IN IF add THEN AddHostSection(without, h) ELSE without

AllWhole(lines) == \A h \in Hosts : Whole(lines, h)

\* Without the section of h.
LEMMA RemovedWhole ==
    ASSUME NEW lines \in Seq(Lines), AllWhole(lines), NEW h \in Hosts
    PROVE  LET new == RemoveFromConfig(lines, h)
           IN  /\ new \in Seq(Lines) /\ AllWhole(new) /\ Absent(new, h)
               /\ \A g \in Hosts \ {h} : Absent(new, g) <=> Absent(lines, g)
<1> DEFINE new == RemoveFromConfig(lines, h)
<1>0. Absent(lines, h) \/ \E i \in 1..Len(lines) : WholeAt(lines, h, i)
  BY WholeCases DEF AllWhole
<1>1. CASE Absent(lines, h)
  <2>1. new = lines
    BY <1>1, RemoveIs
  <2> QED BY <1>1, <2>1
<1>2. CASE \E i \in 1..Len(lines) : WholeAt(lines, h, i)
  <2>1. PICK i \in 1..Len(lines) : WholeAt(lines, h, i)
    BY <1>2
  <2>2. new = Cut(lines, i)
    BY <2>1, RemoveIs
  <2> HIDE DEF new
  <2>3. new \in Seq(Lines) /\ Absent(new, h)
    BY <2>1, <2>2, CutWhole
  <2>4. \A g \in Hosts \ {h} : Whole(new, g) /\ (Absent(new, g) <=> Absent(lines, g))
    BY <2>1, <2>2, CutWhole DEF AllWhole
  <2>5. Whole(new, h)
    BY <2>3, WholeCases
  <2> QED BY <2>3, <2>4, <2>5 DEF AllWhole, new
<1> QED BY <1>0, <1>1, <1>2

\* With the section of h at its place.
LEMMA AddedWhole ==
    ASSUME NEW lines \in Seq(Lines), AllWhole(lines), NEW h \in Hosts, Absent(lines, h)
    PROVE  LET new == AddHostSection(lines, h)
           IN  /\ new \in Seq(Lines) /\ AllWhole(new) /\ ~Absent(new, h)
               /\ \A g \in Hosts \ {h} : Absent(new, g) <=> Absent(lines, g)
<1> DEFINE new == AddHostSection(lines, h)
           at == SectionLine(lines)
<1>1. new = Insert(lines, at, h)
  BY AddIs
<1> HIDE DEF new
<1>2. /\ new \in Seq(Lines) /\ Len(new) = Len(lines) + 4 /\ at \in 0..Len(lines)
      /\ WholeAt(new, h, at + 1)
  BY <1>1, InsertWhole
<1>3. \A g \in Hosts \ {h} : Whole(new, g) /\ (Absent(new, g) <=> Absent(lines, g))
  BY <1>1, InsertWhole DEF AllWhole
<1>4. at + 1 \in 1..Len(new)
  BY <1>2
<1>5. Whole(new, h)
  BY <1>2, <1>4, WholeCases
<1>6. ~Absent(new, h)
  <2>1. new[at + 1][2] = h
    BY <1>2 DEF WholeAt, Line
  <2> QED BY <1>4, <2>1 DEF Absent
<1> QED BY <1>2, <1>3, <1>5, <1>6 DEF AllWhole, new

\* One rewrite leaves every section whole, adds or removes this host's and no other's.
LEMMA RewrittenWhole ==
    ASSUME NEW lines \in Seq(Lines), AllWhole(lines), NEW h \in Hosts, NEW add \in BOOLEAN
    PROVE  /\ Rewritten(lines, h, add) \in Seq(Lines) /\ AllWhole(Rewritten(lines, h, add))
           /\ Absent(Rewritten(lines, h, add), h) <=> ~add
           /\ \A g \in Hosts \ {h} : Absent(Rewritten(lines, h, add), g) <=> Absent(lines, g)
<1> DEFINE without == RemoveFromConfig(lines, h)
<1>1. /\ without \in Seq(Lines) /\ AllWhole(without) /\ Absent(without, h)
      /\ \A g \in Hosts \ {h} : Absent(without, g) <=> Absent(lines, g)
  BY RemovedWhole
<1>2. Rewritten(lines, h, add) = IF add THEN AddHostSection(without, h) ELSE without
  BY DEF Rewritten
<1> HIDE DEF without
<1>3. CASE add
  <2> DEFINE new == AddHostSection(without, h)
  <2>1. /\ new \in Seq(Lines) /\ AllWhole(new) /\ ~Absent(new, h)
        /\ \A g \in Hosts \ {h} : Absent(new, g) <=> Absent(without, g)
    BY <1>1, AddedWhole
  <2>2. Rewritten(lines, h, add) = new
    BY <1>2, <1>3
  <2> HIDE DEF new
  <2> QED BY <1>1, <1>3, <2>1, <2>2
<1>4. CASE ~add
  BY <1>1, <1>2, <1>4
<1> QED BY <1>3, <1>4

\* The user's line at the end cuts nothing.
LEMMA AppendWhole ==
    ASSUME NEW lines \in Seq(Lines), AllWhole(lines), NEW l \in UserLines
    PROVE  /\ Append(lines, l) \in Seq(Lines) /\ AllWhole(Append(lines, l))
           /\ \A h \in Hosts : Absent(Append(lines, l), h) <=> Absent(lines, h)
<1> DEFINE new == Append(lines, l)
           n == Len(lines)
<1>1. l \in Lines /\ l[2] \notin Hosts
  BY SshConfigAssumption DEF Lines, Foreign
<1>2. /\ new \in Seq(Lines) /\ Len(new) = n + 1 /\ n \in Nat /\ new[n + 1] = l
      /\ \A j \in 1..n : new[j] = lines[j]
  BY <1>1
<1> HIDE DEF new
<1>3. ASSUME NEW h \in Hosts PROVE Absent(new, h) <=> Absent(lines, h)
  BY <1>1, <1>2 DEF Absent
<1>4. ASSUME NEW h \in Hosts, NEW i \in 1..n, WholeAt(lines, h, i) PROVE WholeAt(new, h, i)
  <2>1. i + 3 <= n /\ i >= 1 /\ i \in Nat
    BY <1>2, <1>4 DEF WholeAt
  <2>2. \A j \in 1..Len(new) : new[j][2] = h => j \in 1..n
    BY <1>1, <1>2
  <2>3. i \in 1..Len(new) - 3
    BY <1>2, <2>1
  <2>4. i + 1 \in 1..n /\ i + 2 \in 1..n /\ i + 3 \in 1..n /\ i \in 1..n /\ \A j \in 1..i - 1 : j \in 1..n
    BY <1>2, <2>1
  <2> QED BY <1>2, <1>4, <2>2, <2>3, <2>4 DEF WholeAt
<1>5. ASSUME NEW h \in Hosts PROVE Whole(new, h)
  <2>1. Absent(lines, h) \/ \E i \in 1..n : WholeAt(lines, h, i)
    BY WholeCases DEF AllWhole
  <2>2. \A i \in 1..n : i \in 1..Len(new)
    BY <1>2
  <2>3. Absent(new, h) \/ \E i \in 1..Len(new) : WholeAt(new, h, i)
    BY <1>3, <1>4, <2>1, <2>2
  <2> QED BY <1>2, <2>3, WholeCases
<1> QED BY <1>2, <1>3, <1>5 DEF AllWhole, new

\* Lines of the user only.
LEMMA ForeignWhole ==
    ASSUME NEW lines \in Seq(UserLines)
    PROVE  /\ lines \in Seq(Lines) /\ AllWhole(lines)
           /\ \A h \in Hosts : Absent(lines, h)
           /\ \A i \in 1..Len(lines) : Foreign(lines[i])
<1>1. lines \in Seq(Lines)
  BY DEF Lines
<1>2. \A i \in 1..Len(lines) : Foreign(lines[i])
  BY SshConfigAssumption
<1>3. \A h \in Hosts : Absent(lines, h)
  BY <1>2 DEF Absent, Foreign
<1> QED BY <1>1, <1>2, <1>3, WholeCases DEF AllWhole

-----------------------------------------------------------------------------
WriterStates ==
    [pc : {"idle", "write", "truncated"}, host : Hosts \cup {Quiet.host}, add : BOOLEAN, new : Seq(Lines)]

\* The type invariant of the ssh config.
SshTypeOK ==
    /\ file \in Seq(Lines) /\ users \in Seq(UserLines)
    /\ writer \in [Writers -> WriterStates]
    /\ \A p \in Writers : writer[p].pc # "idle" => writer[p].host \in Hosts
    /\ stale \subseteq Writers /\ wanted \subseteq Hosts /\ lost \in BOOLEAN
    /\ rewrites \in Nat /\ edits \in Nat

\* The file is whole, and so is all that somebody is about to write.
WholeInv ==
    /\ SshTypeOK /\ AllWhole(file)
    /\ \A p \in Writers : AllWhole(writer[p].new)

\* The file the user starts with has no section of devpod.
LEMMA WholeInit == SshInit => WholeInv
<1> SUFFICES ASSUME SshInit PROVE WholeInv
  OBVIOUS
<1>1. file \in Seq(UserLines) /\ users \in Seq(UserLines)
  BY SshConfigAssumption DEF SshInit
<1>2. file \in Seq(Lines) /\ AllWhole(file)
  BY <1>1, ForeignWhole
<1>3. <<>> \in Seq(UserLines)
  OBVIOUS
<1>4. <<>> \in Seq(Lines) /\ AllWhole(<<>>)
  BY <1>3, ForeignWhole
<1>5. Quiet \in WriterStates /\ Quiet.pc = "idle" /\ Quiet.new = <<>>
  BY <1>4 DEF Quiet, WriterStates
<1>6. \A p \in Writers : writer[p] = Quiet
  BY DEF SshInit
<1>7. writer \in [Writers -> WriterStates]
  BY <1>5 DEF SshInit
<1>8. \A p \in Writers : writer[p].pc = "idle" /\ AllWhole(writer[p].new)
  BY <1>4, <1>5, <1>6
<1>9. stale = {} /\ wanted = {} /\ lost = FALSE /\ rewrites = 0 /\ edits = 0
  BY DEF SshInit
<1> QED BY <1>1, <1>2, <1>7, <1>8, <1>9 DEF WholeInv, SshTypeOK

\* Every step of a writer or of the user keeps the sections whole, in the file and in
\* what a writer is about to write.
LEMMA WholeStep == WholeInv /\ [SshNext]_sshVars => WholeInv'
<1> SUFFICES ASSUME WholeInv, [SshNext]_sshVars PROVE WholeInv'
  OBVIOUS
<1>0. SshTypeOK /\ AllWhole(file) /\ \A p \in Writers : AllWhole(writer[p].new)
  BY DEF WholeInv
<1>1. ASSUME NEW p \in Writers, NEW h \in Hosts, NEW add \in BOOLEAN, ReadConfig(p, h, add) PROVE WholeInv'
  <2> DEFINE new == Rewritten(file, h, add)
             w == [pc |-> "write", host |-> h, add |-> add, new |-> new]
  <2>1. writer' = [writer EXCEPT ![p] = w] /\ file' = file /\ users' = users /\ wanted' = wanted /\ lost' = lost
        /\ stale' = stale \ {p} /\ rewrites' = rewrites + 1 /\ edits' = edits
    BY <1>1 DEF ReadConfig, Rewritten
  <2>2. new \in Seq(Lines) /\ AllWhole(new)
    BY <1>0, RewrittenWhole DEF SshTypeOK
  <2> HIDE DEF new
  <2>3. w \in WriterStates /\ w.host = h /\ w.new = new
    BY <2>2 DEF WriterStates
  <2> HIDE DEF w
  <2>4. writer'[p] = w /\ \A q \in Writers \ {p} : writer'[q] = writer[q]
    BY <1>0, <2>1 DEF SshTypeOK
  <2>5. writer' \in [Writers -> WriterStates]
    BY <1>0, <2>1, <2>3 DEF SshTypeOK
  <2>6. SshTypeOK'
    BY <1>0, <2>1, <2>3, <2>4, <2>5 DEF SshTypeOK
  <2>7. \A q \in Writers : AllWhole(writer'[q].new)
    BY <1>0, <2>2, <2>3, <2>4
  <2>8. AllWhole(file)' /\ \A q \in Writers : AllWhole(writer[q].new)'
    BY <1>0, <2>1, <2>7 DEF AllWhole, Whole
  <2> QED BY <2>6, <2>8 DEF WholeInv
<1>2. ASSUME NEW p \in Writers, NEW pc \in {"idle", "truncated"},
             writer' = [writer EXCEPT ![p].pc = pc], writer[p].pc # "idle",
             file' \in Seq(Lines), AllWhole(file'), users' = users, wanted' \subseteq Hosts,
             stale' \subseteq Writers, lost' \in BOOLEAN, rewrites' = rewrites, edits' = edits
      PROVE  WholeInv'
  <2>1. /\ writer'[p].pc = pc /\ writer'[p].new = writer[p].new /\ writer'[p].host = writer[p].host
        /\ \A q \in Writers \ {p} : writer'[q] = writer[q]
    BY <1>0, <1>2 DEF SshTypeOK, WriterStates
  <2>2. writer' \in [Writers -> WriterStates]
    <3>1. [writer[p] EXCEPT !.pc = pc] \in WriterStates
      BY <1>0 DEF SshTypeOK, WriterStates
    <3> QED BY <1>0, <1>2, <3>1 DEF SshTypeOK
  <2>3. SshTypeOK'
    BY <1>0, <1>2, <2>1, <2>2 DEF SshTypeOK
  <2>4. \A q \in Writers : AllWhole(writer'[q].new)
    BY <1>0, <2>1
  <2>5. AllWhole(file)' /\ \A q \in Writers : AllWhole(writer[q].new)'
    BY <1>2, <2>4 DEF AllWhole, Whole
  <2> QED BY <2>3, <2>5 DEF WholeInv
<1>3. ASSUME NEW p \in Writers, Truncate(p) PROVE WholeInv'
  <2>1. <<>> \in Seq(Lines) /\ AllWhole(<<>>)
    <3>1. <<>> \in Seq(UserLines)
      OBVIOUS
    <3> QED BY <3>1, ForeignWhole
  <2>2. /\ writer' = [writer EXCEPT ![p].pc = "truncated"] /\ writer[p].pc # "idle" /\ file' = <<>>
        /\ users' = users /\ wanted' = wanted /\ lost' = lost /\ rewrites' = rewrites /\ edits' = edits
        /\ stale' = stale \cup Others(p)
    BY <1>3 DEF Truncate
  <2>3. stale' \subseteq Writers /\ wanted' \subseteq Hosts /\ lost' \in BOOLEAN
    BY <1>0, <2>2 DEF SshTypeOK, Others
  <2> QED BY <2>1, <2>2, <2>3, <1>2
<1>4. ASSUME NEW p \in Writers, WriteConfig(p) PROVE WholeInv'
  <2>2. /\ writer' = [writer EXCEPT ![p].pc = "idle"] /\ writer[p].pc # "idle" /\ file' = writer[p].new
        /\ users' = users /\ rewrites' = rewrites /\ edits' = edits
        /\ stale' = stale \cup Others(p) /\ lost' = (lost \/ p \in stale)
        /\ wanted' = IF writer[p].add THEN wanted \cup {writer[p].host} ELSE wanted \ {writer[p].host}
    BY <1>4 DEF WriteConfig
  <2>3. stale' \subseteq Writers /\ wanted' \subseteq Hosts /\ lost' \in BOOLEAN
    BY <1>0, <2>2 DEF SshTypeOK, Others
  <2>4. file' \in Seq(Lines) /\ AllWhole(file')
    BY <1>0, <2>2 DEF SshTypeOK, WriterStates
  <2> QED BY <2>2, <2>3, <2>4, <1>2
<1>5. ASSUME NEW p \in Writers, KillWriter(p) PROVE WholeInv'
  <2>2. /\ writer' = [writer EXCEPT ![p].pc = "idle"] /\ writer[p].pc # "idle" /\ file' = file
        /\ users' = users /\ rewrites' = rewrites /\ edits' = edits /\ wanted' = wanted
        /\ stale' = stale /\ lost' = (lost \/ writer[p].pc = "truncated")
    BY <1>5 DEF KillWriter
  <2>3. stale' \subseteq Writers /\ wanted' \subseteq Hosts /\ lost' \in BOOLEAN
    BY <1>0, <2>2 DEF SshTypeOK
  <2>4. file' \in Seq(Lines) /\ AllWhole(file')
    BY <1>0, <2>2 DEF SshTypeOK
  <2> QED BY <2>2, <2>3, <2>4, <1>2
<1>6. ASSUME NEW l \in UserLines, UserEdits(l) PROVE WholeInv'
  <2>1. /\ file' = Append(file, l) /\ users' = Append(users, l) /\ writer' = writer
        /\ wanted' = wanted /\ lost' = lost /\ rewrites' = rewrites /\ edits' = edits + 1
        /\ stale' = {q \in Writers : writer[q].pc # "idle"}
    BY <1>6 DEF UserEdits
  <2>2. file' \in Seq(Lines) /\ AllWhole(file')
    BY <1>0, <2>1, AppendWhole DEF SshTypeOK
  <2>3. users' \in Seq(UserLines)
    BY <1>0, <2>1 DEF SshTypeOK
  <2>4. SshTypeOK'
    BY <1>0, <2>1, <2>2, <2>3 DEF SshTypeOK
  <2>5. \A q \in Writers : AllWhole(writer'[q].new)
    BY <1>0, <2>1
  <2>6. AllWhole(file)' /\ \A q \in Writers : AllWhole(writer[q].new)'
    BY <2>2, <2>5 DEF AllWhole, Whole
  <2> QED BY <2>4, <2>6 DEF WholeInv
<1>7. CASE UNCHANGED sshVars
  <2>1. /\ file' = file /\ writer' = writer /\ stale' = stale /\ users' = users /\ wanted' = wanted
        /\ lost' = lost /\ rewrites' = rewrites /\ edits' = edits
    BY <1>7 DEF sshVars
  <2>2. SshTypeOK'
    BY <1>0, <2>1 DEF SshTypeOK
  <2>3. AllWhole(file') /\ \A q \in Writers : AllWhole(writer'[q].new)
    BY <1>0, <2>1
  <2>4. AllWhole(file)' /\ \A q \in Writers : AllWhole(writer[q].new)'
    BY <2>3 DEF AllWhole, Whole
  <2> QED BY <2>2, <2>4 DEF WholeInv
<1> QED BY <1>1, <1>3, <1>4, <1>5, <1>6, <1>7 DEF SshNext

\* Every section is whole and above the user's hosts in every state of the file: over any
\* number of workspaces, processes and user edits, and wherever a process is killed.
THEOREM SectionsWholeHolds == SshSpec => []SectionsWhole
<1>1. WholeInv => SectionsWhole
  BY DEF WholeInv, AllWhole, SectionsWhole
<1> QED BY <1>1, WholeInit, WholeStep, PTL DEF SshSpec

-----------------------------------------------------------------------------
\* The lines with their hosts, and the positions of the user's lines.
Owned(lines) ==
    [i \in DOMAIN lines |-> <<lines[i], IF IsComment(lines[i]) THEN lines[i] ELSE Owner(lines, i)>>]
Mine(lines) == {i \in DOMAIN lines : Foreign(lines[i])}

\* The user's part of a file, as lines picked from it with their owners.
LEMMA UserPartIs == \A lines : UserPart(lines) = Pick(Owned(lines), Mine(lines))
  BY DEF UserPart, Owned, Mine

\* The owner of a line is the last Host at or above it.
LEMMA OwnerIs ==
    ASSUME NEW S, NEW lines \in Seq(S), NEW i \in 1..Len(lines)
    PROVE  \/ Owner(lines, i) = <<>> /\ \A j \in 1..i : lines[j][1] # "Host"
           \/ \E j \in 1..i : /\ Owner(lines, i) = lines[j] /\ lines[j][1] = "Host"
                              /\ \A k \in j + 1..i : lines[k][1] # "Host"
<1> DEFINE above == {j \in 1..i : lines[j][1] = "Host"}
           last == CHOOSE j \in above : \A k \in above : k <= j
<1>1. Owner(lines, i) = IF above = {} THEN <<>> ELSE lines[last]
  BY DEF Owner
<1>2. CASE above = {}
  BY <1>1, <1>2
<1>3. CASE above # {}
  <2> DEFINE T == {i - j : j \in above}
  <2>1. T \in SUBSET Nat /\ T # {}
    BY <1>3
  <2>2. PICK x \in T : \A y \in T : x <= y
    <3> HIDE DEF T
    <3> QED BY <2>1, LeastNatural
  <2>3. PICK j \in above : x = i - j
    BY <2>2
  <2>4. \A k \in above : k <= j
    <3> SUFFICES ASSUME NEW k \in above PROVE k <= j
      OBVIOUS
    <3>1. i - k \in T
      OBVIOUS
    <3>2. x <= i - k
      BY <2>2, <3>1
    <3> QED BY <2>3, <3>2
  <2>5. last \in above /\ \A k \in above : k <= last
    <3> HIDE DEF above
    <3> QED BY <2>3, <2>4
  <2> HIDE DEF last
  <2>6. \A k \in last + 1..i : lines[k][1] # "Host"
    BY <2>5
  <2> QED BY <1>1, <1>3, <2>5, <2>6
<1> QED BY <1>2, <1>3

\* ... and there is only one such.
LEMMA OwnerUnique ==
    ASSUME NEW S, NEW lines \in Seq(S), NEW i \in 1..Len(lines)
    PROVE  /\ (\A j \in 1..i : lines[j][1] # "Host") => Owner(lines, i) = <<>>
           /\ \A j \in 1..i : lines[j][1] = "Host" /\ (\A k \in j + 1..i : lines[k][1] # "Host")
                                 => Owner(lines, i) = lines[j]
<1>1. CASE Owner(lines, i) = <<>> /\ \A j \in 1..i : lines[j][1] # "Host"
  BY <1>1
<1>2. CASE \E j \in 1..i : /\ Owner(lines, i) = lines[j] /\ lines[j][1] = "Host"
                           /\ \A k \in j + 1..i : lines[k][1] # "Host"
  <2>1. PICK j \in 1..i : /\ Owner(lines, i) = lines[j] /\ lines[j][1] = "Host"
                          /\ \A k \in j + 1..i : lines[k][1] # "Host"
    BY <1>2
  <2>2. ASSUME NEW r \in 1..i, lines[r][1] = "Host", \A k \in r + 1..i : lines[k][1] # "Host"
        PROVE  r = j
    <3>1. r \notin j + 1..i /\ j \notin r + 1..i
      BY <2>1, <2>2
    <3> QED BY <3>1
  <2> QED BY <2>1, <2>2
<1> QED BY <1>1, <1>2, OwnerIs

\* A map of the user's lines that keeps the order, the lines and their hosts.
Keeps(m, s, t) ==
    /\ OrderMap(m, Mine(s), Mine(t))
    /\ \A i \in Mine(s) : t[m[i]] = s[i] /\ (~IsComment(s[i]) => Owner(t, m[i]) = Owner(s, i))

\* Two files have the same user's part when an order-preserving map of the user's
\* positions keeps the lines and their owners.
LEMMA SamePart ==
    ASSUME NEW S, NEW s \in Seq(S), NEW t \in Seq(S)
    PROVE  UserPart(s) = UserPart(t) <=> \E m : Keeps(m, s, t)
<1>1. Positions(Mine(s)) /\ Positions(Mine(t))
  <2>1. Mine(s) \in SUBSET (1..Len(s)) /\ Mine(t) \in SUBSET (1..Len(t))
    BY DEF Mine
  <2>2. Len(s) \in Nat /\ Len(t) \in Nat
    OBVIOUS
  <2> QED BY <2>1, <2>2, Zenon DEF Positions
<1>2. UserPart(s) = UserPart(t) <=> Similar(Owned(s), Mine(s), Owned(t), Mine(t))
  BY <1>1, PickSimilar, UserPartIs
<1>3. ASSUME NEW m, OrderMap(m, Mine(s), Mine(t))
      PROVE  (\A i \in Mine(s) : Owned(t)[m[i]] = Owned(s)[i]) <=>
             (\A i \in Mine(s) : t[m[i]] = s[i] /\ (~IsComment(s[i]) => Owner(t, m[i]) = Owner(s, i)))
  <2> SUFFICES ASSUME NEW i \in Mine(s)
               PROVE  Owned(t)[m[i]] = Owned(s)[i] <=>
                      t[m[i]] = s[i] /\ (~IsComment(s[i]) => Owner(t, m[i]) = Owner(s, i))
    OBVIOUS
  <2>1. i \in DOMAIN s /\ m[i] \in DOMAIN t
    BY <1>3 DEF OrderMap, Mine
  <2>2. /\ Owned(s)[i] = <<s[i], IF IsComment(s[i]) THEN s[i] ELSE Owner(s, i)>>
        /\ Owned(t)[m[i]] = <<t[m[i]], IF IsComment(t[m[i]]) THEN t[m[i]] ELSE Owner(t, m[i])>>
    BY <2>1 DEF Owned
  <2> QED BY <2>2
<1> QED BY <1>2, <1>3 DEF Similar, Keeps

\* Cutting a section out that owns no line of the user.
LEMMA CutKeeps ==
    ASSUME NEW lines \in Seq(Lines), NEW h \in Hosts, NEW i \in 1..Len(lines), WholeAt(lines, h, i),
           \A q \in Mine(lines) : ~IsComment(lines[q]) => Owner(lines, q) # Line("Host", h)
    PROVE  UserPart(lines) = UserPart(Cut(lines, i))
<1> DEFINE new == Cut(lines, i)
           n == Len(lines)
           m == [p \in Mine(lines) |-> IF p < i THEN p ELSE p - 4]
<1>1. n \in Nat /\ i + 3 <= n /\ i >= 1 /\ i \in Nat /\ DOMAIN lines = 1..n
  BY DEF WholeAt
<1>2. /\ new \in Seq(Lines) /\ Len(new) = n - 4 /\ DOMAIN new = 1..n - 4
      /\ \A j \in 1..n - 4 : new[j] = IF j < i THEN lines[j] ELSE lines[j + 4]
  BY <1>1 DEF Cut
<1> HIDE DEF new
<1>3. \A j \in i..i + 3 : ~Foreign(lines[j])
  <2>1. lines[i][2] = h /\ lines[i + 1][2] = h /\ lines[i + 2][2] = h /\ lines[i + 3][2] = h
    BY DEF WholeAt, Line
  <2> QED BY <1>1, <2>1 DEF Foreign
<1>4. ASSUME NEW p \in Mine(lines)
      PROVE  /\ p \in 1..n /\ (p < i \/ p > i + 3) /\ m[p] \in Mine(new) /\ new[m[p]] = lines[p]
             /\ m[p] = IF p < i THEN p ELSE p - 4
  <2>1. p \in 1..n /\ Foreign(lines[p]) /\ (p < i \/ p > i + 3)
    BY <1>1, <1>3 DEF Mine
  <2>2. CASE p < i
    BY <1>1, <1>2, <2>1, <2>2 DEF Mine
  <2>3. CASE p > i + 3
    <3>1. m[p] = p - 4 /\ p - 4 \in 1..n - 4 /\ ~(p - 4 < i) /\ p - 4 + 4 = p /\ ~(p < i)
      BY <1>1, <2>1, <2>3
    <3>2. new[p - 4] = lines[p]
      BY <1>2, <3>1
    <3> QED BY <1>2, <2>1, <3>1, <3>2 DEF Mine
  <2> QED BY <2>1, <2>2, <2>3
<1> HIDE DEF m
<1>5. OrderMap(m, Mine(lines), Mine(new))
  <2>1. m \in [Mine(lines) -> Mine(new)]
    BY <1>4 DEF m
  <2>2. ASSUME NEW a \in Mine(lines), NEW b \in Mine(lines), a < b PROVE m[a] < m[b]
    <3>1. m[a] = IF a < i THEN a ELSE a - 4
      BY <1>4
    <3>2. m[b] = IF b < i THEN b ELSE b - 4
      BY <1>4
    <3>3. a \in 1..n /\ b \in 1..n /\ (a < i \/ a > i + 3) /\ (b < i \/ b > i + 3)
      BY <1>4
    <3> QED BY <1>1, <2>2, <3>1, <3>2, <3>3
  <2>3. ASSUME NEW l \in Mine(new) PROVE \E p \in Mine(lines) : m[p] = l
    <3>1. l \in 1..n - 4 /\ Foreign(new[l])
      BY <1>2 DEF Mine
    <3>2. CASE l < i
      <4>1. l \in Mine(lines)
        BY <1>1, <1>2, <3>1, <3>2 DEF Mine
      <4>2. m[l] = l
        BY <1>4, <3>2, <4>1
      <4> QED BY <4>1, <4>2
    <3>3. CASE ~(l < i)
      <4>0. l + 4 \in 1..n /\ ~(l + 4 < i) /\ l + 4 - 4 = l
        BY <1>1, <3>1, <3>3
      <4>1. l + 4 \in Mine(lines)
        BY <1>1, <1>2, <3>1, <3>3, <4>0 DEF Mine
      <4> DEFINE p == l + 4
      <4>2a. ~(p < i) /\ p - 4 = l
        BY <1>1, <3>1, <3>3
      <4> HIDE DEF p
      <4>2. m[p] = IF p < i THEN p ELSE p - 4
        BY <1>4, <4>1 DEF p
      <4>3. m[p] = l
        BY <4>2, <4>2a
      <4> QED BY <4>1, <4>3 DEF p
    <3> QED BY <3>2, <3>3
  <2> QED BY <2>1, <2>2, <2>3 DEF OrderMap
<1>6. ASSUME NEW p \in Mine(lines), ~IsComment(lines[p]) PROVE Owner(new, m[p]) = Owner(lines, p)
  <2>0. m[p] \in 1..Len(new) /\ p \in 1..n
    BY <1>2, <1>4 DEF Mine
  <2>1. CASE p < i
    <3>1. m[p] = p /\ \A j \in 1..p : new[j] = lines[j]
      BY <1>1, <1>2, <1>4, <2>0, <2>1
    <3>2. CASE Owner(lines, p) = <<>> /\ \A j \in 1..p : lines[j][1] # "Host"
      <4>1. \A j \in 1..p : new[j][1] # "Host"
        BY <3>1, <3>2
      <4>2. p \in 1..Len(new)
        BY <2>0, <3>1
      <4>3. Owner(new, p) = <<>>
        BY <1>2, <4>1, <4>2, OwnerUnique
      <4> QED BY <3>1, <3>2, <4>3
    <3>3. CASE \E j \in 1..p : /\ Owner(lines, p) = lines[j] /\ lines[j][1] = "Host"
                               /\ \A k \in j + 1..p : lines[k][1] # "Host"
      <4>1. PICK j \in 1..p : /\ Owner(lines, p) = lines[j] /\ lines[j][1] = "Host"
                              /\ \A k \in j + 1..p : lines[k][1] # "Host"
        BY <3>3
      <4>2. new[j][1] = "Host" /\ \A k \in j + 1..p : new[k][1] # "Host"
        BY <2>0, <3>1, <4>1
      <4>3. Owner(new, p) = new[j]
        BY <1>2, <2>0, <3>1, <4>2, OwnerUnique
      <4> QED BY <3>1, <4>1, <4>3
    <3> QED BY <2>0, <3>2, <3>3, OwnerIs
  <2>2. CASE p > i + 3
    <3>1. i + 1 \in 1..p /\ lines[i + 1] = Line("Host", h) /\ Line("Host", h)[1] = "Host"
      BY <1>1, <2>0, <2>2 DEF WholeAt, Line
    <3>2. PICK j \in 1..p : /\ Owner(lines, p) = lines[j] /\ lines[j][1] = "Host"
                            /\ \A k \in j + 1..p : lines[k][1] # "Host"
      BY <2>0, <3>1, OwnerIs
    <3>3. j # i + 1 /\ j # i + 2 /\ j # i + 3
      <4>1. lines[i + 2][1] # "Host" /\ lines[i + 3][1] # "Host"
        BY DEF WholeAt, Line
      <4>2. Owner(lines, p) # Line("Host", h)
        BY <1>6
      <4> QED BY <3>1, <3>2, <4>1, <4>2
    <3>4. j > i + 3
      <4>1. i + 1 \notin j + 1..p
        BY <3>1, <3>2
      <4> QED BY <1>1, <3>1, <3>3, <4>1
    <3>5. m[p] = p - 4 /\ j - 4 \in 1..p - 4
      BY <1>1, <1>4, <2>0, <2>2, <3>4
    <3>6. ASSUME NEW k \in j - 4..p - 4 PROVE new[k] = lines[k + 4]
      <4>1. k \in 1..n - 4 /\ ~(k < i)
        BY <1>1, <2>0, <3>4
      <4> QED BY <1>2, <4>1
    <3>7. new[j - 4] = lines[j]
      <4>1. j - 4 \in j - 4..p - 4 /\ j - 4 + 4 = j
        BY <2>0, <3>5
      <4> QED BY <3>6, <4>1
    <3>8. ASSUME NEW k \in j - 4 + 1..p - 4 PROVE new[k][1] # "Host"
      <4>1. k \in j - 4..p - 4 /\ k + 4 \in j + 1..p
        BY <2>0, <3>5
      <4> QED BY <3>2, <3>6, <4>1
    <3>9. Owner(new, p - 4) = new[j - 4]
      <4> DEFINE q == p - 4
                 r == j - 4
      <4>1. q \in 1..Len(new) /\ r \in 1..q /\ new[r][1] = "Host" /\ \A k \in r + 1..q : new[k][1] # "Host"
        BY <2>0, <3>2, <3>5, <3>7, <3>8
      <4> HIDE DEF q, r
      <4>2. Owner(new, q) = new[r]
        BY <1>2, <4>1, OwnerUnique
      <4> QED BY <4>2 DEF q, r
    <3> QED BY <3>2, <3>5, <3>7, <3>9
  <2> QED BY <1>4, <2>1, <2>2
<1>7. Keeps(m, lines, new)
  BY <1>4, <1>5, <1>6 DEF Keeps
<1> QED BY <1>2, <1>7, SamePart DEF new

\* A section above a first line that is a Host changes no owner.
LEMMA InsertKeeps ==
    ASSUME NEW lines \in Seq(Lines), NEW h \in Hosts, Absent(lines, h),
           NEW at, at = SectionLine(lines),
           FirstHost(lines) # 0 => lines[FirstHost(lines)][1] = "Host"
    PROVE  UserPart(lines) = UserPart(Insert(lines, at, h))
<1> DEFINE new == Insert(lines, at, h)
           n == Len(lines)
           m == [p \in Mine(lines) |-> IF p <= at THEN p ELSE p + 4]
<1>1. at \in 0..n /\ n \in Nat /\ DOMAIN lines = 1..n /\ \A j \in 1..at : ~IsHost(lines[j])
  BY SectionLineIs
<1>2. /\ new \in Seq(Lines) /\ Len(new) = n + 4 /\ WholeAt(new, h, at + 1)
  BY InsertWhole
<1>2a. DOMAIN new = 1..n + 4
  BY <1>2
<1>3. /\ \A j \in 1..at : new[j] = lines[j]
      /\ \A j \in at + 1..n : new[j + 4] = lines[j]
  <2>1. \A j \in 1..n + 4 : new[j] = IF j <= at THEN lines[j]
                                     ELSE IF j <= at + 4 THEN Section(h)[j - at] ELSE lines[j - 4]
    BY DEF Insert
  <2> HIDE DEF new
  <2>2. \A j \in 1..at : new[j] = lines[j]
    BY <1>1, <2>1
  <2>3. ASSUME NEW j \in at + 1..n PROVE new[j + 4] = lines[j]
    <3>1. j + 4 \in 1..n + 4 /\ ~(j + 4 <= at) /\ ~(j + 4 <= at + 4) /\ j + 4 - 4 = j
      BY <1>1
    <3> QED BY <2>1, <3>1
  <2> QED BY <2>2, <2>3
<1> HIDE DEF new
<1>4. \A j \in at + 1..at + 4 : ~Foreign(new[j])
  <2>1. new[at + 1][2] = h /\ new[at + 1 + 1][2] = h /\ new[at + 1 + 2][2] = h /\ new[at + 1 + 3][2] = h
    BY <1>2 DEF WholeAt, Line
  <2>2. new[at + 1][2] = h /\ new[at + 2][2] = h /\ new[at + 3][2] = h /\ new[at + 4][2] = h
    BY <1>1, <2>1
  <2> QED BY <1>1, <2>2 DEF Foreign
<1>5. ASSUME NEW p \in Mine(lines)
      PROVE  /\ p \in 1..n /\ m[p] = (IF p <= at THEN p ELSE p + 4) /\ m[p] \in Mine(new) /\ new[m[p]] = lines[p]
  <2>1. p \in 1..n /\ Foreign(lines[p])
    BY <1>1 DEF Mine
  <2>2. CASE p <= at
    BY <1>1, <1>2a, <1>3, <2>1, <2>2 DEF Mine
  <2>3. CASE ~(p <= at)
    <3>1. p \in at + 1..n /\ p + 4 \in 1..n + 4 /\ m[p] = p + 4
      BY <1>1, <2>1, <2>3
    <3>2. new[p + 4] = lines[p]
      BY <1>3, <3>1
    <3> QED BY <1>2a, <2>1, <2>3, <3>1, <3>2 DEF Mine
  <2> QED BY <2>2, <2>3
<1> HIDE DEF m
<1>6. OrderMap(m, Mine(lines), Mine(new))
  <2>1. m \in [Mine(lines) -> Mine(new)]
    BY <1>5 DEF m
  <2>2. ASSUME NEW a \in Mine(lines), NEW b \in Mine(lines), a < b PROVE m[a] < m[b]
    <3>1. m[a] = IF a <= at THEN a ELSE a + 4
      BY <1>5
    <3>2. m[b] = IF b <= at THEN b ELSE b + 4
      BY <1>5
    <3>3. a \in 1..n /\ b \in 1..n
      BY <1>5
    <3> QED BY <1>1, <2>2, <3>1, <3>2, <3>3
  <2>3. ASSUME NEW l \in Mine(new) PROVE \E p \in Mine(lines) : m[p] = l
    <3>1. l \in 1..n + 4 /\ Foreign(new[l]) /\ l \notin at + 1..at + 4
      BY <1>2a, <1>4 DEF Mine
    <3>2. CASE l <= at
      <4>1. l \in Mine(lines)
        BY <1>1, <1>3, <3>1, <3>2 DEF Mine
      <4>2. m[l] = l
        BY <1>5, <3>2, <4>1
      <4> QED BY <4>1, <4>2
    <3>3. CASE ~(l <= at)
      <4> DEFINE p == l - 4
      <4>1. p \in at + 1..n /\ p + 4 = l /\ p \in 1..n /\ ~(p <= at)
        BY <1>1, <3>1, <3>3
      <4> HIDE DEF p
      <4>2. new[p + 4] = lines[p]
        BY <1>3, <4>1
      <4>3. p \in Mine(lines)
        BY <1>1, <3>1, <4>1, <4>2 DEF Mine
      <4>4. m[p] = IF p <= at THEN p ELSE p + 4
        BY <1>5, <4>3
      <4> QED BY <4>1, <4>3, <4>4
    <3> QED BY <3>2, <3>3
  <2> QED BY <2>1, <2>2, <2>3 DEF OrderMap
<1>7. ASSUME NEW p \in Mine(lines), ~IsComment(lines[p]) PROVE Owner(new, m[p]) = Owner(lines, p)
  <2>0. m[p] \in 1..Len(new) /\ p \in 1..n
    BY <1>2, <1>2a, <1>5 DEF Mine
  <2>1. CASE p <= at
    <3>1. m[p] = p
      BY <1>5, <2>1
    <3>2. \A j \in 1..p : lines[j][1] # "Host" /\ new[j][1] # "Host"
      BY <1>1, <1>3, <2>0, <2>1 DEF IsHost
    <3>3. Owner(lines, p) = <<>>
      BY <2>0, <3>2, OwnerUnique
    <3>4. Owner(new, p) = <<>>
      BY <1>2, <2>0, <3>1, <3>2, OwnerUnique
    <3> QED BY <3>1, <3>3, <3>4
  <2>2. CASE ~(p <= at)
    <3> DEFINE first == FirstHost(lines)
    <3>1. /\ first \in at + 1..n /\ IsHost(lines[first])
          /\ \A j \in at + 1..first - 1 : IsComment(lines[j])
      <4>1. at # n
        BY <1>1, <2>0, <2>2
      <4> QED BY <4>1, SectionLineIs
    <3> HIDE DEF first
    <3>2. lines[first][1] = "Host"
      <4>1. first # 0
        BY <1>1, <3>1
      <4> QED BY <4>1 DEF first
    <3>3. first <= p
      <4>1. p \notin at + 1..first - 1
        BY <1>7, <3>1
      <4> QED BY <1>1, <2>0, <2>2, <3>1, <4>1
    <3>4. first \in 1..p
      BY <1>1, <2>0, <3>1, <3>3
    <3>5. PICK j \in 1..p : /\ Owner(lines, p) = lines[j] /\ lines[j][1] = "Host"
                            /\ \A k \in j + 1..p : lines[k][1] # "Host"
      BY <2>0, <3>2, <3>4, OwnerIs
    <3>6. j > at
      <4>1. ~(j \in 1..at)
        BY <1>1, <3>5 DEF IsHost
      <4> QED BY <1>1, <2>0, <4>1
    <3> DEFINE q == p + 4
               r == j + 4
    <3>7. r \in 1..q /\ q \in 1..Len(new) /\ m[p] = q
      BY <1>1, <1>2, <1>5, <2>0, <2>2
    <3>8. new[r] = lines[j]
      <4>1. j \in at + 1..n
        BY <1>1, <2>0, <3>6
      <4> QED BY <1>3, <4>1
    <3>9. ASSUME NEW k \in r + 1..q PROVE new[k][1] # "Host"
      <4> DEFINE x == k - 4
      <4>1. x \in at + 1..n /\ x \in j + 1..p /\ x + 4 = k
        BY <1>1, <2>0, <3>6
      <4> HIDE DEF x
      <4>2. new[x + 4] = lines[x]
        BY <1>3, <4>1
      <4> QED BY <3>5, <4>1, <4>2
    <3> HIDE DEF q, r
    <3>10. Owner(new, q) = new[r]
      BY <1>2, <3>5, <3>7, <3>8, <3>9, OwnerUnique
    <3> QED BY <3>5, <3>7, <3>8, <3>10
  <2> QED BY <2>1, <2>2
<1>8. Keeps(m, lines, new)
  BY <1>5, <1>6, <1>7 DEF Keeps
<1> QED BY <1>2, <1>8, SamePart DEF new

\* A file with the user's lines has no line of the user below a section ...
LEMMA SectionsOwnNothing ==
    ASSUME NEW lines \in Seq(Lines), NEW us \in Seq(UserLines), UserPart(lines) = UserPart(us),
           NEW h \in Hosts, NEW q \in Mine(lines), ~IsComment(lines[q])
    PROVE  Owner(lines, q) # Line("Host", h)
<1>1. us \in Seq(Lines) /\ \A i \in 1..Len(us) : Foreign(us[i])
  BY ForeignWhole
<1>2. PICK m : Keeps(m, lines, us)
  BY <1>1, SamePart
<1>3. m[q] \in 1..Len(us) /\ Owner(us, m[q]) = Owner(lines, q)
  BY <1>2 DEF Keeps, OrderMap, Mine
<1>4. \/ Owner(us, m[q]) = <<>>
      \/ \E j \in 1..m[q] : Owner(us, m[q]) = us[j]
  BY <1>1, <1>3, OwnerIs
<1>5. <<>> # Line("Host", h)
  BY DEF Line
<1>6. \A j \in 1..m[q] : us[j] # Line("Host", h)
  <2>1. \A j \in 1..m[q] : Foreign(us[j])
    BY <1>1, <1>3
  <2>2. ~Foreign(Line("Host", h))
    BY DEF Foreign, Line
  <2> QED BY <2>1, <2>2
<1> QED BY <1>3, <1>4, <1>5, <1>6

\* ... and begins with a Host when the user's lines do.
LEMMA FirstIsHost ==
    ASSUME NEW lines \in Seq(Lines), NEW us \in Seq(UserLines), UserPart(lines) = UserPart(us),
           Regular(us), FirstHost(lines) # 0
    PROVE  lines[FirstHost(lines)][1] = "Host"
<1> DEFINE first == FirstHost(lines)
<1>1. us \in Seq(Lines) /\ \A i \in 1..Len(us) : Foreign(us[i])
  BY ForeignWhole
<1>2. PICK m : Keeps(m, lines, us)
  BY <1>1, SamePart
<1>3. first \in 1..Len(lines) /\ IsHost(lines[first]) /\ \A i \in 1..first - 1 : ~IsHost(lines[i])
  BY FirstHostIs
<1> HIDE DEF first
<1> SUFFICES ASSUME lines[first][1] # "Host" PROVE FALSE
  BY DEF first
<1>4. lines[first] \in UserLines
  <2>1. lines[first] \in Lines
    BY <1>3
  <2>2. \A kind \in {"start", "Host", "option", "end"}, h \in Hosts :
           lines[first] # Line(kind, h)
    BY <1>3 DEF IsHost, Line
  <2> QED BY <2>1, <2>2 DEF Lines
<1>5. first \in Mine(lines)
  BY <1>3, <1>4, SshConfigAssumption DEF Mine
<1>6. m[first] \in 1..Len(us) /\ us[m[first]] = lines[first]
  BY <1>2, <1>5 DEF Keeps, OrderMap, Mine
<1> DEFINE r == FirstHost(us)
<1>7. r \in 1..Len(us) /\ IsHost(us[r]) /\ \A i \in 1..r - 1 : ~IsHost(us[i])
  BY <1>3, <1>6, FirstHostIs
<1>8. us[r][1] = "Host"
  BY <1>7 DEF Regular
<1> HIDE DEF r
<1>9. r < m[first]
  <2>1. m[first] \notin 1..r - 1
    BY <1>3, <1>6, <1>7
  <2>2. m[first] # r
    BY <1>6, <1>8
  <2> QED BY <1>6, <1>7, <2>1, <2>2
<1>10. r \in Mine(us)
  BY <1>1, <1>7 DEF Mine
<1>11. PICK x \in Mine(lines) : m[x] = r
  BY <1>2, <1>10 DEF Keeps, OrderMap
<1>12. x \in 1..Len(lines) /\ lines[x] = us[r]
  BY <1>2, <1>11 DEF Keeps, Mine
<1>13. x < first
  <2>1. first < x => m[first] < m[x]
    BY <1>2, <1>5, <1>11 DEF Keeps, OrderMap
  <2>2. x # first
    BY <1>6, <1>7, <1>9, <1>11
  <2> QED BY <1>3, <1>6, <1>7, <1>9, <1>11, <1>12, <2>1, <2>2
<1>14. x \in 1..first - 1
  BY <1>3, <1>12, <1>13
<1> QED BY <1>3, <1>7, <1>12, <1>14

\* Rewriting the file keeps the user's lines under their hosts.
LEMMA RewrittenKeeps ==
    ASSUME NEW lines \in Seq(Lines), AllWhole(lines), NEW us \in Seq(UserLines), Regular(us),
           UserPart(lines) = UserPart(us), NEW h \in Hosts, NEW add \in BOOLEAN
    PROVE  UserPart(Rewritten(lines, h, add)) = UserPart(us)
<1> DEFINE without == RemoveFromConfig(lines, h)
<1>1. without \in Seq(Lines) /\ Absent(without, h)
  BY RemovedWhole
<1>2. UserPart(without) = UserPart(us)
  <2>1. CASE Absent(lines, h)
    BY <2>1, RemoveIs
  <2>2. CASE \E i \in 1..Len(lines) : WholeAt(lines, h, i)
    <3>1. PICK i \in 1..Len(lines) : WholeAt(lines, h, i)
      BY <2>2
    <3>2. without = Cut(lines, i)
      BY <3>1, RemoveIs
    <3>3. \A q \in Mine(lines) : ~IsComment(lines[q]) => Owner(lines, q) # Line("Host", h)
      BY SectionsOwnNothing
    <3>4. UserPart(lines) = UserPart(Cut(lines, i))
      BY <3>1, <3>3, CutKeeps
    <3> QED BY <3>2, <3>4
  <2> QED BY <2>1, <2>2, WholeCases DEF AllWhole
<1>3. Rewritten(lines, h, add) = IF add THEN AddHostSection(without, h) ELSE without
  BY DEF Rewritten
<1> HIDE DEF without
<1>4. UserPart(AddHostSection(without, h)) = UserPart(without)
  <2>1. FirstHost(without) # 0 => without[FirstHost(without)][1] = "Host"
    BY <1>1, <1>2, FirstIsHost
  <2>2. UserPart(without) = UserPart(Insert(without, SectionLine(without), h))
    BY <1>1, <2>1, InsertKeeps
  <2> QED BY <1>1, <2>2, AddIs
<1> QED BY <1>2, <1>3, <1>4

\* A line at the end changes the owner of none above it.
LEMMA OwnerAppend ==
    ASSUME NEW S, NEW lines \in Seq(S), NEW l \in S, NEW i \in 1..Len(lines)
    PROVE  Owner(Append(lines, l), i) = Owner(lines, i)
<1> DEFINE new == Append(lines, l)
<1>1. \A j \in 1..i : new[j] = lines[j]
  OBVIOUS
<1> HIDE DEF new
<1>2. {j \in 1..i : new[j][1] = "Host"} = {j \in 1..i : lines[j][1] = "Host"}
  BY <1>1
<1> DEFINE above == {j \in 1..i : lines[j][1] = "Host"}
           last == CHOOSE j \in above : \A k \in above : k <= j
<1>3. CASE above = {}
  BY <1>2, <1>3 DEF Owner, new
<1>4. CASE above # {}
  <2>1. Owner(lines, i) = lines[last] /\ Owner(new, i) = new[last]
    BY <1>2, <1>4 DEF Owner
  <2>2. last \in 1..i
    <3>1. PICK j \in 1..i : lines[j][1] = "Host" /\ \A k \in j + 1..i : lines[k][1] # "Host"
      BY <1>4, OwnerIs
    <3>2. \A k \in above : k <= j
      BY <3>1
    <3>3. \E r \in above : \A k \in above : k <= r
      BY <3>1, <3>2
    <3>4. last \in above
      BY <3>3
    <3> QED BY <3>4
  <2> HIDE DEF last
  <2> QED BY <1>1, <2>1, <2>2 DEF new
<1> QED BY <1>3, <1>4

\* The last Host is the user's when one of the user's is there: sections stand above.
LEMMA LastHostIsForeign ==
    ASSUME NEW lines \in Seq(Lines), AllWhole(lines),
           NEW i \in 1..Len(lines), lines[i][1] = "Host", Foreign(lines[i]),
           NEW j \in 1..Len(lines), lines[j][1] = "Host",
           \A k \in j + 1..Len(lines) : lines[k][1] # "Host"
    PROVE  Foreign(lines[j])
<1> SUFFICES ASSUME ~Foreign(lines[j]) PROVE FALSE
  OBVIOUS
<1>1. PICK h \in Hosts : lines[j][2] = h
  BY DEF Foreign
<1>2. ~Absent(lines, h)
  BY <1>1 DEF Absent
<1>3. PICK a \in 1..Len(lines) : WholeAt(lines, h, a)
  BY <1>2, WholeCases DEF AllWhole
<1>4. /\ a \in 1..Len(lines) - 3 /\ lines[a] = Line("start", h) /\ lines[a + 2] = Line("option", h)
      /\ lines[a + 3] = Line("end", h) /\ j \in a..a + 3
      /\ \A x \in 1..a - 1 : lines[x][1] # "Host" \/ ~Foreign(lines[x])
  BY <1>1, <1>3 DEF WholeAt
<1>5. lines[a][1] # "Host" /\ lines[a + 2][1] # "Host" /\ lines[a + 3][1] # "Host"
  BY <1>4 DEF Line
<1>6. j = a + 1
  <2>1. j = a \/ j = a + 1 \/ j = a + 2 \/ j = a + 3
    BY <1>4
  <2> QED BY <1>5, <2>1
<1>7. i <= j /\ i # j
  <2>1. i \notin j + 1..Len(lines)
    OBVIOUS
  <2> QED BY <2>1
<1>8. i # a
  BY <1>5
<1>9. i \in 1..a - 1
  BY <1>4, <1>6, <1>7, <1>8
<1> QED BY <1>4, <1>9

\* What the user's editor requires of an option: a place below a host of the user.
Below(lines, l) ==
    \/ IsComment(l) \/ l[1] = "Host"
    \/ \E i \in DOMAIN lines : lines[i][1] = "Host" /\ Foreign(lines[i])
    \/ \A i \in DOMAIN lines : Foreign(lines[i])

\* The new line has the same owner in the file as among the user's lines.
LEMMA AppendOwner ==
    ASSUME NEW lines \in Seq(Lines), AllWhole(lines), NEW us \in Seq(UserLines),
           NEW m, Keeps(m, lines, us), NEW l \in UserLines, ~IsComment(l), Below(lines, l)
    PROVE  Owner(Append(lines, l), Len(lines) + 1) = Owner(Append(us, l), Len(us) + 1)
<1> DEFINE new == Append(lines, l)
           nus == Append(us, l)
           n == Len(lines)
           k == Len(us)
<1>1. us \in Seq(Lines) /\ (\A i \in 1..k : Foreign(us[i])) /\ l \in Lines /\ Foreign(l)
  BY ForeignWhole, SshConfigAssumption DEF Lines
<1>2. /\ new \in Seq(Lines) /\ Len(new) = n + 1 /\ n \in Nat /\ new[n + 1] = l
      /\ \A j \in 1..n : new[j] = lines[j]
  BY <1>1
<1>3. /\ nus \in Seq(Lines) /\ Len(nus) = k + 1 /\ k \in Nat /\ nus[k + 1] = l
      /\ \A j \in 1..k : nus[j] = us[j]
  BY <1>1
<1> HIDE DEF new, nus
<1>4. n + 1 \in 1..Len(new) /\ k + 1 \in 1..Len(nus)
  BY <1>2, <1>3
<1>5. CASE l[1] = "Host"
  <2>1. \A j \in n + 1 + 1..n + 1 : new[j][1] # "Host"
    BY <1>2
  <2>2. \A j \in k + 1 + 1..k + 1 : nus[j][1] # "Host"
    BY <1>3
  <2>3. n + 1 \in 1..n + 1 /\ k + 1 \in 1..k + 1
    BY <1>2, <1>3
  <2>4. Owner(new, n + 1) = new[n + 1]
    BY <1>2, <1>4, <1>5, <2>1, <2>3, OwnerUnique
  <2>5. Owner(nus, k + 1) = nus[k + 1]
    BY <1>3, <1>4, <1>5, <2>2, <2>3, OwnerUnique
  <2> QED BY <1>2, <1>3, <2>4, <2>5 DEF new, nus
<1>6. CASE l[1] # "Host"
  <2>1. CASE Owner(new, n + 1) = <<>> /\ \A j \in 1..n + 1 : new[j][1] # "Host"
    <3>1. ASSUME NEW b \in 1..k, us[b][1] = "Host" PROVE FALSE
      <4>1. b \in Mine(us)
        BY <1>1, <3>1 DEF Mine
      <4>2. PICK x \in Mine(lines) : m[x] = b
        BY <4>1 DEF Keeps, OrderMap
      <4>3. x \in 1..n /\ lines[x] = us[b]
        BY <4>2 DEF Keeps, Mine
      <4>4. new[x] = lines[x] /\ x \in 1..n + 1
        BY <1>2, <4>3
      <4> QED BY <2>1, <3>1, <4>3, <4>4
    <3>2. \A b \in 1..k + 1 : nus[b][1] # "Host"
      <4>1. \A b \in 1..k + 1 : b \in 1..k \/ b = k + 1
        BY <1>3
      <4> QED BY <1>3, <1>6, <3>1, <4>1
    <3>3. Owner(nus, k + 1) = <<>>
      BY <1>3, <1>4, <3>2, OwnerUnique
    <3> QED BY <2>1, <3>3 DEF new, nus
  <2>2. CASE \E j \in 1..n + 1 : /\ Owner(new, n + 1) = new[j] /\ new[j][1] = "Host"
                                 /\ \A x \in j + 1..n + 1 : new[x][1] # "Host"
    <3>1. PICK j \in 1..n + 1 : /\ Owner(new, n + 1) = new[j] /\ new[j][1] = "Host"
                                /\ \A x \in j + 1..n + 1 : new[x][1] # "Host"
      BY <2>2
    <3>2. j \in 1..n /\ lines[j] = new[j]
      <4>1. j # n + 1
        BY <1>2, <1>6, <3>1
      <4> QED BY <1>2, <4>1
    <3>3. \A x \in j + 1..n : lines[x][1] # "Host"
      <4>1. \A x \in j + 1..n : x \in j + 1..n + 1 /\ x \in 1..n
        BY <1>2, <3>2
      <4> QED BY <1>2, <3>1, <4>1
    <3>4. Foreign(lines[j])
      <4>1. DOMAIN lines = 1..n
        OBVIOUS
      <4>2. CASE \A i \in DOMAIN lines : Foreign(lines[i])
        BY <3>2, <4>1, <4>2
      <4>3. CASE \E i \in DOMAIN lines : lines[i][1] = "Host" /\ Foreign(lines[i])
        <5>1. PICK i \in 1..n : lines[i][1] = "Host" /\ Foreign(lines[i])
          BY <4>1, <4>3
        <5>2. lines[j][1] = "Host"
          BY <3>1, <3>2
        <5> QED BY <3>2, <3>3, <5>1, <5>2, LastHostIsForeign
      <4> QED BY <1>6, <4>2, <4>3 DEF Below
    <3>5. j \in Mine(lines)
      BY <3>2, <3>4 DEF Mine
    <3> DEFINE b == m[j]
    <3>6. b \in 1..k /\ us[b] = lines[j]
      BY <3>5 DEF Keeps, OrderMap, Mine
    <3> HIDE DEF b
    <3>7. ASSUME NEW c \in b + 1..k, us[c][1] = "Host" PROVE FALSE
      <4>0. c \in 1..k /\ b < c
        BY <1>3, <3>6
      <4>1. c \in Mine(us)
        BY <1>1, <4>0 DEF Mine
      <4>2. PICK x \in Mine(lines) : m[x] = c
        BY <4>1 DEF Keeps, OrderMap
      <4>3. x \in 1..n /\ lines[x] = us[c]
        BY <4>2 DEF Keeps, Mine
      <4>4. x < j => c < b
        BY <3>5, <4>2 DEF Keeps, OrderMap, b
      <4>5. x # j
        BY <3>6, <4>0, <4>2 DEF b
      <4>6. ~(c < b)
        BY <3>6, <4>0
      <4>7. x \in j + 1..n
        BY <3>2, <4>3, <4>4, <4>5, <4>6
      <4> QED BY <3>3, <3>7, <4>3, <4>7
    <3>8. \A c \in b + 1..k + 1 : nus[c][1] # "Host"
      <4> SUFFICES ASSUME NEW c \in b + 1..k + 1 PROVE nus[c][1] # "Host"
        OBVIOUS
      <4>1. c \in Nat /\ c >= b + 1 /\ c <= k + 1 /\ b \in Nat /\ b >= 1
        BY <1>3, <3>6
      <4>2. CASE c = k + 1
        BY <1>3, <1>6, <4>2
      <4>3. CASE c # k + 1
        <5>1. c \in b + 1..k /\ c \in 1..k
          BY <1>3, <4>1, <4>3
        <5> QED BY <1>3, <3>7, <5>1
      <4> QED BY <4>2, <4>3
    <3>9. b \in 1..k + 1 /\ nus[b] = us[b] /\ nus[b][1] = "Host"
      BY <1>3, <3>1, <3>2, <3>6
    <3>10. Owner(nus, k + 1) = nus[b]
      BY <1>3, <1>4, <3>8, <3>9, OwnerUnique
    <3> QED BY <3>1, <3>2, <3>6, <3>9, <3>10 DEF new, nus
  <2> QED BY <1>2, <1>4, <2>1, <2>2, OwnerIs
<1> QED BY <1>5, <1>6

\* The user's line comes to the file as to the user's lines.
LEMMA AppendKeeps ==
    ASSUME NEW lines \in Seq(Lines), AllWhole(lines), NEW us \in Seq(UserLines),
           UserPart(lines) = UserPart(us), NEW l \in UserLines, Below(lines, l)
    PROVE  UserPart(Append(lines, l)) = UserPart(Append(us, l))
<1> DEFINE new == Append(lines, l)
           nus == Append(us, l)
           n == Len(lines)
           k == Len(us)
<1>1. us \in Seq(Lines) /\ l \in Lines /\ Foreign(l)
  BY ForeignWhole, SshConfigAssumption DEF Lines
<1>2. /\ new \in Seq(Lines) /\ DOMAIN new = 1..n + 1 /\ n \in Nat /\ new[n + 1] = l /\ DOMAIN lines = 1..n
      /\ \A j \in 1..n : new[j] = lines[j]
  BY <1>1
<1>3. /\ nus \in Seq(Lines) /\ DOMAIN nus = 1..k + 1 /\ k \in Nat /\ nus[k + 1] = l /\ DOMAIN us = 1..k
      /\ \A j \in 1..k : nus[j] = us[j]
  BY <1>1
<1>4. PICK m : Keeps(m, lines, us)
  BY <1>1, SamePart
<1>5. ~IsComment(l) => Owner(new, n + 1) = Owner(nus, k + 1)
  BY <1>4, AppendOwner
<1>6. /\ \A i \in 1..n : Owner(new, i) = Owner(lines, i)
      /\ \A i \in 1..k : Owner(nus, i) = Owner(us, i)
  BY <1>1, OwnerAppend
<1> HIDE DEF new, nus
<1>7. Mine(new) = Mine(lines) \cup {n + 1} /\ Mine(lines) \subseteq 1..n
  BY <1>1, <1>2 DEF Mine
<1>8. Mine(nus) = Mine(us) \cup {k + 1} /\ Mine(us) \subseteq 1..k
  BY <1>1, <1>3 DEF Mine
<1> DEFINE o == [p \in Mine(new) |-> IF p = n + 1 THEN k + 1 ELSE m[p]]
<1>9. \A p \in Mine(lines) : p \in Mine(new) /\ p # n + 1 /\ o[p] = m[p] /\ m[p] \in Mine(us)
  BY <1>2, <1>4, <1>7 DEF Keeps, OrderMap
<1>10. n + 1 \in Mine(new) /\ o[n + 1] = k + 1
  BY <1>7
<1>11. o \in [Mine(new) -> Mine(nus)]
  BY <1>7, <1>8, <1>9
<1> HIDE DEF o
<1>12. ASSUME NEW a \in Mine(new), NEW b \in Mine(new), a < b PROVE o[a] < o[b]
  <2>1. a \in Mine(lines)
    BY <1>2, <1>7, <1>12
  <2>2. CASE b \in Mine(lines)
    BY <1>4, <1>9, <1>12, <2>1, <2>2 DEF Keeps, OrderMap
  <2>3. CASE b = n + 1
    <3>1. o[a] \in 1..k
      BY <1>8, <1>9, <2>1
    <3> QED BY <1>3, <1>10, <2>3, <3>1
  <2> QED BY <1>7, <2>2, <2>3
<1>13. ASSUME NEW c \in Mine(nus) PROVE \E p \in Mine(new) : o[p] = c
  <2>1. CASE c = k + 1
    BY <1>10, <2>1
  <2>2. CASE c \in Mine(us)
    BY <1>4, <1>9, <2>2 DEF Keeps, OrderMap
  <2> QED BY <1>8, <2>1, <2>2
<1>14. ASSUME NEW p \in Mine(new)
       PROVE  nus[o[p]] = new[p] /\ (~IsComment(new[p]) => Owner(nus, o[p]) = Owner(new, p))
  <2>1. CASE p = n + 1
    BY <1>2, <1>3, <1>5, <1>10, <2>1
  <2>2. CASE p \in Mine(lines)
    <3>1. p \in 1..n /\ m[p] \in 1..k /\ o[p] = m[p]
      BY <1>7, <1>8, <1>9, <2>2
    <3>2. us[m[p]] = lines[p] /\ (~IsComment(lines[p]) => Owner(us, m[p]) = Owner(lines, p))
      BY <1>4, <2>2 DEF Keeps
    <3> QED BY <1>2, <1>3, <1>6, <3>1, <3>2
  <2> QED BY <1>7, <2>1, <2>2
<1>15. Keeps(o, new, nus)
  BY <1>11, <1>12, <1>13, <1>14 DEF Keeps, OrderMap
<1> QED BY <1>2, <1>3, <1>15, SamePart DEF new, nus

\* A user's line at the end does not make the lines above it regular.
LEMMA RegularAppend ==
    ASSUME NEW us \in Seq(UserLines), NEW l \in UserLines, Regular(Append(us, l))
    PROVE  Regular(us)
<1> DEFINE nus == Append(us, l)
           k == Len(us)
           r == FirstHost(us)
           s == FirstHost(nus)
<1>1. nus \in Seq(UserLines) /\ Len(nus) = k + 1 /\ k \in Nat /\ \A j \in 1..k : nus[j] = us[j]
  OBVIOUS
<1> HIDE DEF nus
<1> SUFFICES ASSUME r # 0 PROVE us[r][1] = "Host"
  BY DEF Regular
<1>2. r \in 1..k /\ IsHost(us[r]) /\ \A i \in 1..r - 1 : ~IsHost(us[i])
  BY FirstHostIs
<1>3. IsHost(nus[r]) /\ r \in 1..Len(nus)
  BY <1>1, <1>2
<1>4. s \in 1..Len(nus) /\ IsHost(nus[s]) /\ \A i \in 1..s - 1 : ~IsHost(nus[i])
  BY <1>1, <1>3, FirstHostIs
<1>5. s # 0 /\ nus[s][1] = "Host"
  BY <1>4 DEF Regular, nus
<1> HIDE DEF r, s
<1>6. s = r
  <2>1. r \notin 1..s - 1
    BY <1>3, <1>4
  <2>2. s <= r
    BY <1>2, <1>4, <2>1
  <2>3. s \in 1..k
    BY <1>2, <1>4, <2>2
  <2>4. s \notin 1..r - 1
    BY <1>1, <1>2, <1>4, <2>3
  <2> QED BY <1>2, <1>4, <2>2, <2>4
<1> QED BY <1>1, <1>2, <1>5, <1>6 DEF r

-----------------------------------------------------------------------------
\* The lines of the file that the user's lines and the hosts that are up call for.
Matches(lines, us, hosts) ==
    /\ Regular(us) => UserPart(lines) = UserPart(us)
    /\ \A h \in Hosts : h \in hosts <=> ~Absent(lines, h)

\* The hosts that are up once a rewrite is done.
Up(hosts, h, add) == IF add THEN hosts \cup {h} ELSE hosts \ {h}

\* One rewrite keeps the user's part, and the hosts it has are as they should be.
LEMMA RewrittenMatches ==
    ASSUME NEW lines \in Seq(Lines), AllWhole(lines), NEW us \in Seq(UserLines),
           NEW hosts, Matches(lines, us, hosts), NEW h \in Hosts, NEW add \in BOOLEAN
    PROVE  Matches(Rewritten(lines, h, add), us, Up(hosts, h, add))
<1> DEFINE new == Rewritten(lines, h, add)
<1>1. Regular(us) => UserPart(new) = UserPart(us)
  BY RewrittenKeeps DEF Matches
<1>2. /\ Absent(new, h) <=> ~add
      /\ \A g \in Hosts \ {h} : Absent(new, g) <=> Absent(lines, g)
  BY RewrittenWhole
<1> HIDE DEF new
<1>3. ASSUME NEW g \in Hosts PROVE g \in Up(hosts, h, add) <=> ~Absent(new, g)
  <2>1. g \in hosts <=> ~Absent(lines, g)
    BY DEF Matches
  <2> QED BY <1>2, <2>1 DEF Up
<1> QED BY <1>1, <1>3 DEF Matches, new

\* A line the user adds at the end is added to both, and no section changes.
LEMMA AppendMatches ==
    ASSUME NEW lines \in Seq(Lines), AllWhole(lines), NEW us \in Seq(UserLines),
           NEW hosts, Matches(lines, us, hosts), NEW l \in UserLines, Below(lines, l)
    PROVE  Matches(Append(lines, l), Append(us, l), hosts)
<1>1. ASSUME Regular(Append(us, l)) PROVE UserPart(Append(lines, l)) = UserPart(Append(us, l))
  <2>1. UserPart(lines) = UserPart(us)
    BY <1>1, RegularAppend DEF Matches
  <2> QED BY <2>1, AppendKeeps
<1>2. \A h \in Hosts : Absent(Append(lines, l), h) <=> Absent(lines, h)
  BY AppendWhole
<1> QED BY <1>1, <1>2 DEF Matches

\* Nobody else is between the two halves of a write.
Alone(p) == \A q \in Writers \ {p} : writer[q].pc # "truncated"

\* The file matches when it is settled, and a writer that has read the last version
\* has a matching one to write: the file can only be empty in between because the
\* writer itself truncated it.
KeptInv ==
    /\ WholeInv
    /\ Settled => Matches(file, users, wanted)
    /\ \A p \in Writers :
          ~lost /\ p \notin stale /\ writer[p].pc # "idle" /\ Alone(p) =>
              Matches(writer[p].new, users, Up(wanted, writer[p].host, writer[p].add))

\* At first the file is the user's.
LEMMA KeptInit == SshInit => KeptInv
<1> SUFFICES ASSUME SshInit PROVE KeptInv
  OBVIOUS
<1>1. WholeInv
  BY WholeInit
<1>2. file \in Seq(UserLines) /\ users = file /\ wanted = {}
  BY SshConfigAssumption DEF SshInit
<1>3. Matches(file, users, wanted)
  BY <1>2, ForeignWhole DEF Matches
<1>4. \A p \in Writers : writer[p].pc = "idle"
  BY DEF SshInit, Quiet
<1> QED BY <1>1, <1>3, <1>4 DEF KeptInv

\* What the next state has to satisfy, with the primes at the variables.
LEMMA KeptPrime ==
    ASSUME WholeInv', writer' \in [Writers -> WriterStates],
           Settled' => Matches(file', users', wanted'),
           \A p \in Writers : ~lost' /\ p \notin stale' /\ writer'[p].pc # "idle" /\ Alone(p)' =>
               Matches(writer'[p].new, users', Up(wanted', writer'[p].host, writer'[p].add))
    PROVE  KeptInv'
<1>1. (Settled => Matches(file, users, wanted))'
  BY DEF Matches, Absent
<1>2. (\A p \in Writers :
          ~lost /\ p \notin stale /\ writer[p].pc # "idle" /\ Alone(p) =>
              Matches(writer[p].new, users, Up(wanted, writer[p].host, writer[p].add)))'
  BY DEF Matches, Absent, Up
<1> QED BY <1>1, <1>2 DEF KeptInv

\* Every step keeps the user's part, in the file and in what a writer read in time is
\* about to write.
LEMMA KeptStep == KeptInv /\ [SshNext]_sshVars => KeptInv'
<1> SUFFICES ASSUME KeptInv, [SshNext]_sshVars PROVE KeptInv'
  OBVIOUS
<1>0. /\ WholeInv /\ SshTypeOK /\ AllWhole(file) /\ writer \in [Writers -> WriterStates]
      /\ file \in Seq(Lines) /\ users \in Seq(UserLines)
  BY DEF KeptInv, WholeInv, SshTypeOK
<1>1. Settled => Matches(file, users, wanted)
  BY DEF KeptInv
<1>2. \A p \in Writers :
         ~lost /\ p \notin stale /\ writer[p].pc # "idle" /\ Alone(p) =>
             Matches(writer[p].new, users, Up(wanted, writer[p].host, writer[p].add))
  BY DEF KeptInv
<1>3. WholeInv' /\ writer' \in [Writers -> WriterStates]
  <2>1. WholeInv'
    BY <1>0, WholeStep
  <2> QED BY <2>1 DEF WholeInv, SshTypeOK
<1>4. ASSUME NEW p \in Writers, NEW h \in Hosts, NEW add \in BOOLEAN, ReadConfig(p, h, add) PROVE KeptInv'
  <2> DEFINE new == Rewritten(file, h, add)
  <2>1. /\ writer' = [writer EXCEPT ![p] = [pc |-> "write", host |-> h, add |-> add, new |-> new]]
        /\ file' = file /\ users' = users /\ wanted' = wanted /\ lost' = lost /\ stale' = stale \ {p}
        /\ writer[p].pc = "idle"
    BY <1>4 DEF ReadConfig, Rewritten
  <2>2. Settled => Matches(new, users, Up(wanted, h, add))
    BY <1>0, <1>1, RewrittenMatches
  <2> HIDE DEF new
  <2>3. /\ writer'[p].pc = "write" /\ writer'[p].host = h /\ writer'[p].add = add /\ writer'[p].new = new
        /\ \A q \in Writers \ {p} : writer'[q] = writer[q]
    BY <1>0, <2>1
  <2>4. \A q \in Writers : writer'[q].pc = "truncated" <=> writer[q].pc = "truncated"
    BY <2>1, <2>3
  <2>5. Settled' => Matches(file', users', wanted')
    BY <1>1, <2>1, <2>4 DEF Settled
  <2>6. ASSUME NEW q \in Writers, ~lost', q \notin stale', writer'[q].pc # "idle", Alone(q)'
        PROVE  Matches(writer'[q].new, users', Up(wanted', writer'[q].host, writer'[q].add))
    <3>1. Alone(q)
      BY <2>4, <2>6 DEF Alone
    <3>2. CASE q = p
      <4>1. Settled
        BY <2>1, <2>6, <3>1, <3>2 DEF Alone, Settled
      <4> QED BY <2>1, <2>2, <2>3, <3>2, <4>1
    <3>3. CASE q # p
      <4>1. writer'[q] = writer[q] /\ q \notin stale
        BY <2>1, <2>3, <2>6, <3>3
      <4>2. Matches(writer[q].new, users, Up(wanted, writer[q].host, writer[q].add))
        BY <1>2, <2>1, <2>6, <3>1, <4>1
      <4> QED BY <2>1, <4>1, <4>2
    <3> QED BY <3>2, <3>3
  <2> QED BY <1>3, <2>5, <2>6, KeptPrime
<1>5. ASSUME NEW p \in Writers, Truncate(p) PROVE KeptInv'
  <2>1. /\ writer' = [writer EXCEPT ![p].pc = "truncated"] /\ writer[p].pc = "write"
        /\ users' = users /\ wanted' = wanted /\ lost' = lost /\ stale' = stale \cup Others(p)
    BY <1>5 DEF Truncate
  <2>2. /\ writer'[p].pc = "truncated" /\ writer'[p].host = writer[p].host
        /\ writer'[p].add = writer[p].add /\ writer'[p].new = writer[p].new
        /\ \A q \in Writers \ {p} : writer'[q] = writer[q]
    BY <1>0, <2>1 DEF WriterStates
  <2>3. ~Settled'
    BY <2>2 DEF Settled
  <2>4. ASSUME NEW q \in Writers, ~lost', q \notin stale', writer'[q].pc # "idle", Alone(q)'
        PROVE  Matches(writer'[q].new, users', Up(wanted', writer'[q].host, writer'[q].add))
    <3>1. q = p
      BY <2>1, <2>2, <2>4 DEF Others
    <3>2. Alone(p)
      BY <2>2, <2>4, <3>1 DEF Alone
    <3>3. Matches(writer[p].new, users, Up(wanted, writer[p].host, writer[p].add))
      BY <1>2, <2>1, <2>4, <3>1, <3>2
    <3> QED BY <2>1, <2>2, <3>1, <3>3
  <2> QED BY <1>3, <2>3, <2>4, KeptPrime
<1>6. ASSUME NEW p \in Writers, WriteConfig(p) PROVE KeptInv'
  <2>1. /\ writer' = [writer EXCEPT ![p].pc = "idle"] /\ writer[p].pc = "truncated"
        /\ file' = writer[p].new /\ users' = users /\ wanted' = Up(wanted, writer[p].host, writer[p].add)
        /\ lost' = (lost \/ p \in stale) /\ stale' = stale \cup Others(p)
    BY <1>6 DEF WriteConfig, Up
  <2>2. /\ writer'[p].pc = "idle" /\ \A q \in Writers \ {p} : writer'[q] = writer[q]
    BY <1>0, <2>1 DEF WriterStates
  <2>3. ASSUME Settled' PROVE Matches(file', users', wanted')
    <3>1. ~lost /\ p \notin stale /\ Alone(p)
      BY <2>1, <2>2, <2>3 DEF Settled, Alone
    <3>2. Matches(writer[p].new, users, Up(wanted, writer[p].host, writer[p].add))
      BY <1>2, <2>1, <3>1
    <3> QED BY <2>1, <3>2
  <2>4. \A q \in Writers : q \in stale' \/ writer'[q].pc = "idle"
    BY <2>1, <2>2 DEF Others
  <2> QED BY <1>3, <2>3, <2>4, KeptPrime
<1>7. ASSUME NEW p \in Writers, KillWriter(p) PROVE KeptInv'
  <2>1. /\ writer' = [writer EXCEPT ![p].pc = "idle"] /\ file' = file /\ users' = users
        /\ wanted' = wanted /\ lost' = (lost \/ writer[p].pc = "truncated") /\ stale' = stale
    BY <1>7 DEF KillWriter
  <2>2. /\ writer'[p].pc = "idle" /\ \A q \in Writers \ {p} : writer'[q] = writer[q]
    BY <1>0, <2>1 DEF WriterStates
  <2>3. ASSUME Settled' PROVE Matches(file', users', wanted')
    <3>1. Settled
      BY <2>1, <2>2, <2>3 DEF Settled
    <3> QED BY <1>1, <2>1, <3>1
  <2>4. ASSUME NEW q \in Writers, ~lost', q \notin stale', writer'[q].pc # "idle", Alone(q)'
        PROVE  Matches(writer'[q].new, users', Up(wanted', writer'[q].host, writer'[q].add))
    <3>1. q # p /\ writer'[q] = writer[q]
      BY <2>2, <2>4
    <3>2. Alone(q)
      BY <2>1, <2>2, <2>4 DEF Alone
    <3>3. Matches(writer[q].new, users, Up(wanted, writer[q].host, writer[q].add))
      BY <1>2, <2>1, <2>4, <3>1, <3>2
    <3> QED BY <2>1, <3>1, <3>3
  <2> QED BY <1>3, <2>3, <2>4, KeptPrime
<1>8. ASSUME NEW l \in UserLines, UserEdits(l) PROVE KeptInv'
  <2>1. /\ file' = Append(file, l) /\ users' = Append(users, l) /\ writer' = writer
        /\ wanted' = wanted /\ lost' = lost /\ stale' = {q \in Writers : writer[q].pc # "idle"}
        /\ Below(file, l)
    BY <1>8 DEF UserEdits, Below
  <2>2. ASSUME Settled' PROVE Matches(file', users', wanted')
    <3>1. Settled
      BY <2>1, <2>2 DEF Settled
    <3>2. Matches(Append(file, l), Append(users, l), wanted)
      BY <1>0, <1>1, <2>1, <3>1, AppendMatches
    <3> QED BY <2>1, <3>2
  <2>3. \A q \in Writers : q \in stale' \/ writer'[q].pc = "idle"
    BY <2>1
  <2> QED BY <1>3, <2>2, <2>3, KeptPrime
<1>9. CASE UNCHANGED sshVars
  <2>1. /\ file' = file /\ writer' = writer /\ stale' = stale /\ users' = users /\ wanted' = wanted
        /\ lost' = lost
    BY <1>9 DEF sshVars
  <2>2. Settled' => Matches(file', users', wanted')
    BY <1>1, <2>1 DEF Settled
  <2>3. ASSUME NEW q \in Writers, ~lost', q \notin stale', writer'[q].pc # "idle", Alone(q)'
        PROVE  Matches(writer'[q].new, users', Up(wanted', writer'[q].host, writer'[q].add))
    <3>1. Alone(q)
      BY <2>1, <2>3 DEF Alone
    <3> QED BY <1>2, <2>1, <2>3, <3>1
  <2> QED BY <1>3, <2>2, <2>3, KeptPrime
<1> QED BY <1>4, <1>5, <1>6, <1>7, <1>8, <1>9 DEF SshNext

\* The user's lines stay under their hosts, in their order, and the sections are those of
\* the workspaces that are up, for any file of the user, any number of workspaces and
\* processes and any sequence of ups, deletes and edits, as long as no rewrite was stale
\* or killed half way.
THEOREM UserLinesKeptHolds == SshSpec => []UserLinesKept
<1>1. KeptInv => UserLinesKept
  <2> SUFFICES ASSUME KeptInv, Settled
               PROVE  /\ Regular(users) => UserPart(file) = UserPart(users)
                      /\ {h \in Hosts : \E i \in DOMAIN file : file[i][2] = h} = wanted
    BY DEF UserLinesKept
  <2>1. Matches(file, users, wanted) /\ file \in Seq(Lines) /\ wanted \subseteq Hosts
    BY DEF KeptInv, WholeInv, SshTypeOK
  <2>2. \A h \in Hosts : h \in wanted <=> \E i \in DOMAIN file : file[i][2] = h
    BY <2>1 DEF Matches, Absent
  <2> QED BY <2>1, <2>2 DEF Matches
<1> QED BY <1>1, KeptInit, KeptStep, PTL DEF SshSpec

=============================================================================
