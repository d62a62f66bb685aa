---------------------------- MODULE Router_proofs ----------------------------
(***************************************************************************)
(* What TLAPS proves of Router, for all hosts, ingresses, modules, orders  *)
(* of the registries and rules of the providers.                           *)
(*                                                                         *)
(*   TypeCorrect        Spec => []TypeOK                                   *)
(*   RoutesHaveOwners   Spec => []NoOrphanRoutes                           *)
(*   ReloadsComplete    Spec => ReloadIsComplete                           *)
(*   RoutesStay         Spec => RoutesChangeOnPurpose                      *)
(*   FindsWhatIsOwed    Spec => []AnswersAreOwed                           *)
(*                                                                         *)
(* The filters and the sort of the code are functions on ranks, and what   *)
(* they keep follows from counting: each element of a finite total order   *)
(* has a rank of its own (RanksTaken), so the list by ranks holds each     *)
(* element once and in order (Listing).  From there the chain that Merge   *)
(* builds is the one ChainIsCurrent asks for (MergeIsCurrent).  That the   *)
(* search of the code finds the best rule (FindIsOwed) needs no state at   *)
(* all.  The state part is the induction on RInv.                          *)
(***************************************************************************)
EXTENDS Router, FiniteSetTheorems, SequenceTheorems, TLAPS

-----------------------------------------------------------------------------
(* Ranks: the elements of a finite set with a total order, given as a set  *)
(* of pairs, are counted by how many come before them.                     *)

Before(S, R, x) == {y \in S : <<y, x>> \in R}

TotalOrder(S, R) ==
    /\ \A x \in S : <<x, x>> \notin R
    /\ \A x, y \in S : x # y => <<x, y>> \in R \/ <<y, x>> \in R
    /\ \A x, y, z \in S : <<x, y>> \in R /\ <<y, z>> \in R => <<x, z>> \in R

\* Fewer come before what comes earlier, and no two elements have the same rank.
LEMMA RanksGrow ==
    ASSUME NEW S, IsFiniteSet(S), NEW R, TotalOrder(S, R)
    PROVE  /\ Cardinality(S) \in Nat
           /\ \A x \in S : Cardinality(Before(S, R, x)) \in 0..(Cardinality(S) - 1)
           /\ \A x, y \in S : <<x, y>> \in R =>
                 Cardinality(Before(S, R, x)) < Cardinality(Before(S, R, y))
<1>1. Cardinality(S) \in Nat
  BY FS_CardinalityType
<1>2. ASSUME NEW x \in S
      PROVE  /\ IsFiniteSet(Before(S, R, x))
             /\ Cardinality(Before(S, R, x)) \in 0..(Cardinality(S) - 1)
  <2>1. Before(S, R, x) \subseteq S /\ x \notin Before(S, R, x)
    BY DEF Before, TotalOrder
  <2>2. /\ IsFiniteSet(Before(S, R, x))
        /\ Cardinality(Before(S, R, x)) <= Cardinality(S)
        /\ Cardinality(S) # Cardinality(Before(S, R, x))
    BY <2>1, FS_Subset
  <2>3. Cardinality(Before(S, R, x)) \in Nat
    BY <2>2, FS_CardinalityType
  <2> QED BY <1>1, <2>2, <2>3
<1>3. ASSUME NEW x \in S, NEW y \in S, <<x, y>> \in R
      PROVE  Cardinality(Before(S, R, x)) < Cardinality(Before(S, R, y))
  <2>1. Before(S, R, x) \subseteq Before(S, R, y)
    BY <1>3 DEF Before, TotalOrder
  <2>2. x \in Before(S, R, y) /\ x \notin Before(S, R, x)
    BY <1>3 DEF Before, TotalOrder
  <2>3. /\ Cardinality(Before(S, R, x)) <= Cardinality(Before(S, R, y))
        /\ Cardinality(Before(S, R, y)) # Cardinality(Before(S, R, x))
    BY <1>2, <2>1, <2>2, FS_Subset
  <2> QED BY <1>2, <2>3
<1> QED BY <1>1, <1>2, <1>3

\* Every rank is taken.
LEMMA RanksTaken ==
    ASSUME NEW S, IsFiniteSet(S), NEW R, TotalOrder(S, R)
    PROVE  \A k \in 1..Cardinality(S) : \E x \in S : Cardinality(Before(S, R, x)) = k - 1
<1> DEFINE n == Cardinality(S)
           rank == [x \in S |-> Cardinality(Before(S, R, x)) + 1]
<1>1. n \in Nat /\ \A x \in S : Cardinality(Before(S, R, x)) \in 0..(n - 1)
  BY RanksGrow
<1>2. rank \in [S -> 1..n]
  BY <1>1
<1>3. \A x, y \in S : x # y => rank[x] # rank[y]
  <2> SUFFICES ASSUME NEW x \in S, NEW y \in S, x # y PROVE rank[x] # rank[y]
    OBVIOUS
  <2>1. \A u, v \in S : <<u, v>> \in R => Cardinality(Before(S, R, u)) < Cardinality(Before(S, R, v))
    BY RanksGrow
  <2>2. <<x, y>> \in R \/ <<y, x>> \in R
    BY DEF TotalOrder
  <2>3. Cardinality(Before(S, R, x)) # Cardinality(Before(S, R, y))
    BY <1>1, <2>1, <2>2
  <2> QED BY <1>1, <2>3
<1>4. rank \in Injection(S, 1..n)
  BY <1>2, <1>3 DEF Injection, IsInjective
<1>5. IsFiniteSet(1..n) /\ Cardinality(1..n) = n
  BY <1>1, FS_Interval
<1>6. rank \in Surjection(S, 1..n)
  BY <1>4, <1>5, FS_Injection
<1>7. \A k \in 1..n : \E x \in S : rank[x] = k
  BY <1>6 DEF Surjection
<1> QED BY <1>1, <1>7

\* Taking for each rank an element of that rank lists them all in their order.
LEMMA Listing ==
    ASSUME NEW S, IsFiniteSet(S), NEW R, TotalOrder(S, R), NEW at,
           \A k \in 1..Cardinality(S) : at[k] \in S /\ Cardinality(Before(S, R, at[k])) = k - 1
    PROVE  /\ \A x \in S : \E k \in 1..Cardinality(S) : at[k] = x
           /\ \A j, k \in 1..Cardinality(S) : j < k <=> <<at[j], at[k]>> \in R
<1> DEFINE n == Cardinality(S)
           rank(x) == Cardinality(Before(S, R, x)) + 1
<1>1. n \in Nat /\ \A x \in S : rank(x) \in 1..n
  BY RanksGrow
<1>2. \A x, y \in S : <<x, y>> \in R => rank(x) < rank(y)
  BY RanksGrow, <1>1
<1>3. \A k \in 1..n : at[k] \in S /\ rank(at[k]) = k
  BY <1>1
<1> HIDE DEF rank, n
<1>4. \A x, y \in S : x = y \/ <<x, y>> \in R \/ <<y, x>> \in R
  BY DEF TotalOrder
<1>5. \A x \in S : at[rank(x)] = x
  <2> SUFFICES ASSUME NEW x \in S PROVE at[rank(x)] = x
    OBVIOUS
  <2>1. rank(x) \in 1..n /\ at[rank(x)] \in S /\ rank(at[rank(x)]) = rank(x)
    BY <1>1, <1>3
  <2>2. ~(rank(x) < rank(x))
    BY <1>1, <2>1
  <2> QED BY <1>2, <1>4, <2>1, <2>2
<1>6. ASSUME NEW j \in 1..n, NEW k \in 1..n PROVE j < k <=> <<at[j], at[k]>> \in R
  <2>1. at[j] \in S /\ at[k] \in S /\ rank(at[j]) = j /\ rank(at[k]) = k
    BY <1>3
  <2>2. at[j] # at[k] /\ <<at[j], at[k]>> \notin R => k < j
    BY <1>2, <1>4, <2>1
  <2>3. <<at[j], at[k]>> \in R => j < k
    BY <1>2, <2>1
  <2>4. at[j] = at[k] => j = k
    BY <2>1
  <2> QED BY <1>1, <2>2, <2>3, <2>4
<1> QED BY <1>1, <1>5, <1>6 DEF n

-----------------------------------------------------------------------------
(* Positions of a sequence.                                                *)

Increasing(S) == {p \in S \X S : p[1] < p[2]}

LEMMA PositionsFinite ==
    ASSUME NEW T, NEW s \in Seq(T), NEW kept \in SUBSET DOMAIN s
    PROVE  /\ IsFiniteSet(kept) /\ Cardinality(kept) \in Nat /\ Cardinality(kept) <= Len(s)
           /\ kept \subseteq Nat /\ TotalOrder(kept, Increasing(kept))
<1>1. Len(s) \in Nat /\ DOMAIN s = 1..Len(s)
  OBVIOUS
<1>2. IsFiniteSet(1..Len(s)) /\ Cardinality(1..Len(s)) = Len(s)
  <2>1. \A n \in Nat : IsFiniteSet(1..n) /\ Cardinality(1..n) = n
    BY FS_Interval
  <2> QED BY <1>1, <2>1
<1>3. IsFiniteSet(kept) /\ Cardinality(kept) <= Len(s)
  BY <1>1, <1>2, FS_Subset
<1>4. kept \subseteq Nat
  BY <1>1
<1>5. TotalOrder(kept, Increasing(kept))
  BY <1>4 DEF TotalOrder, Increasing
<1> QED BY <1>3, <1>4, <1>5, FS_CardinalityType

\* A set of positions that is not empty has a first one.
LEMMA FirstPosition ==
    ASSUME NEW T, NEW s \in Seq(T), NEW M \in SUBSET DOMAIN s, M # {}
    PROVE  Earliest(M) \in M /\ \A m \in M : Earliest(M) <= m
<1>1. /\ IsFiniteSet(M) /\ M \subseteq Nat /\ TotalOrder(M, Increasing(M))
      /\ Cardinality(M) \in Nat
  BY PositionsFinite
<1>2. 1 \in 1..Cardinality(M)
  BY <1>1, FS_EmptySet
<1>3. PICK first \in M : Cardinality(Before(M, Increasing(M), first)) = 0
  BY <1>1, <1>2, RanksTaken
<1>4. \A m \in M : <<m, first>> \notin Increasing(M)
  <2>1. IsFiniteSet(Before(M, Increasing(M), first))
    BY <1>1, FS_Subset DEF Before
  <2>2. Before(M, Increasing(M), first) = {}
    BY <1>3, <2>1, FS_EmptySet
  <2> QED BY <2>2 DEF Before
<1>5. \A m \in M : first <= m
  <2> SUFFICES ASSUME NEW m \in M, m < first PROVE FALSE
    BY <1>1
  <2>1. <<m, first>> \in Increasing(M)
    BY DEF Increasing
  <2> QED BY <1>4, <2>1
<1> QED BY <1>5 DEF Earliest

\* Only keeps the elements at the positions, in their order.
LEMMA OnlyKeeps ==
    ASSUME NEW T, NEW s \in Seq(T), NEW kept \in SUBSET DOMAIN s
    PROVE  /\ Only(s, kept) \in Seq(T)
           /\ Len(Only(s, kept)) = Cardinality(kept)
           /\ Len(Only(s, kept)) <= Len(s)
           /\ \E at \in [DOMAIN Only(s, kept) -> kept] :
                 /\ \A k \in DOMAIN Only(s, kept) : Only(s, kept)[k] = s[at[k]]
                 /\ \A n \in kept : \E k \in DOMAIN Only(s, kept) : at[k] = n
                 /\ \A j, k \in DOMAIN Only(s, kept) : j < k <=> at[j] < at[k]
<1>1. /\ IsFiniteSet(kept) /\ kept \subseteq Nat /\ TotalOrder(kept, Increasing(kept))
      /\ Cardinality(kept) \in Nat /\ Cardinality(kept) <= Len(s)
  BY PositionsFinite
<1> DEFINE n == Cardinality(kept)
           at == [k \in 1..n |->
                     CHOOSE x \in kept : Cardinality({m \in kept : m < x}) = k - 1]
<1>2. \A x \in kept : Before(kept, Increasing(kept), x) = {m \in kept : m < x}
  BY DEF Before, Increasing
<1>3. \A k \in 1..n : at[k] \in kept /\ Cardinality({m \in kept : m < at[k]}) = k - 1
  <2> SUFFICES ASSUME NEW k \in 1..n
               PROVE  at[k] \in kept /\ Cardinality({m \in kept : m < at[k]}) = k - 1
    OBVIOUS
  <2>1. \E x \in kept : Cardinality(Before(kept, Increasing(kept), x)) = k - 1
    BY <1>1, RanksTaken
  <2>2. \E x \in kept : Cardinality({m \in kept : m < x}) = k - 1
    BY <1>2, <2>1
  <2> QED BY <2>2
<1>4. Only(s, kept) = [k \in 1..n |-> s[at[k]]]
  BY DEF Only
<1>5. at \in [1..n -> kept]
  BY <1>3
<1> HIDE DEF at
<1>6. \A k \in 1..n : Cardinality(Before(kept, Increasing(kept), at[k])) = k - 1
  BY <1>2, <1>3
<1>7. /\ \A x \in kept : \E k \in 1..n : at[k] = x
      /\ \A j, k \in 1..n : j < k <=> <<at[j], at[k]>> \in Increasing(kept)
  BY <1>1, <1>3, <1>6, Listing
<1>8. \A j, k \in 1..n : j < k <=> at[j] < at[k]
  BY <1>5, <1>7 DEF Increasing
<1>9. Only(s, kept) \in Seq(T) /\ Len(Only(s, kept)) = n /\ DOMAIN Only(s, kept) = 1..n
  <2>1. Only(s, kept) \in [1..n -> T]
    BY <1>4, <1>5
  <2> QED BY <1>1, <2>1
<1>10. /\ at \in [DOMAIN Only(s, kept) -> kept]
       /\ \A k \in DOMAIN Only(s, kept) : Only(s, kept)[k] = s[at[k]]
       /\ \A x \in kept : \E k \in DOMAIN Only(s, kept) : at[k] = x
       /\ \A j, k \in DOMAIN Only(s, kept) : j < k <=> at[j] < at[k]
  BY <1>4, <1>5, <1>7, <1>8, <1>9
<1> QED BY <1>1, <1>9, <1>10

-----------------------------------------------------------------------------
(* The chain of modules of an ingress.                                     *)

WeightOrder(s) == {p \in (DOMAIN s) \X (DOMAIN s) : Precedes(s, p[1], p[2])}

LEMMA WeightsAreNaturals ==
    ASSUME NEW s \in Seq(MergedModule), NEW i \in DOMAIN s
    PROVE  Weight[s[i].def] \in Nat /\ i \in Nat
<1>1. s[i] \in MergedModule /\ i \in Nat
  OBVIOUS
<1>2. s[i].def \in Definitions
  BY <1>1 DEF MergedModule
<1> QED BY <1>1, <1>2, RouterAssumption

LEMMA WeightOrders ==
    ASSUME NEW s \in Seq(MergedModule)
    PROVE  TotalOrder(DOMAIN s, WeightOrder(s))
<1> DEFINE w == [i \in DOMAIN s |-> Weight[s[i].def]]
<1>1. \A i \in DOMAIN s : w[i] \in Nat /\ i \in Nat
  BY WeightsAreNaturals
<1>2. \A i, j \in DOMAIN s : <<i, j>> \in WeightOrder(s) <=> w[i] > w[j] \/ (w[i] = w[j] /\ i < j)
  BY DEF WeightOrder, Precedes
<1> HIDE DEF w
<1> QED BY <1>1, <1>2 DEF TotalOrder

\* ByWeight permutes a chain: the heavier before the lighter, and of equal weight the
\* earlier before the later.
LEMMA ByWeightSorts ==
    ASSUME NEW s \in Seq(MergedModule)
    PROVE  /\ ByWeight(s) \in Seq(MergedModule)
           /\ DOMAIN ByWeight(s) = DOMAIN s
           /\ \E at \in [DOMAIN s -> DOMAIN s] :
                 /\ \A k \in DOMAIN s : ByWeight(s)[k] = s[at[k]]
                 /\ \A i \in DOMAIN s : \E k \in DOMAIN s : at[k] = i
                 /\ \A j, k \in DOMAIN s : j < k <=> Precedes(s, at[j], at[k])
<1> DEFINE S == DOMAIN s
           R == WeightOrder(s)
           at == [n \in S |-> CHOOSE i \in S : Cardinality({j \in S : Precedes(s, j, i)}) = n - 1]
<1>1. Len(s) \in Nat /\ S = 1..Len(s) /\ IsFiniteSet(S) /\ TotalOrder(S, R)
  BY WeightOrders, PositionsFinite
<1>2. Cardinality(S) = Len(s)
  <2>1. \A n \in Nat : Cardinality(1..n) = n
    BY FS_Interval
  <2> QED BY <1>1, <2>1
<1>3. \A i \in S : Before(S, R, i) = {j \in S : Precedes(s, j, i)}
  BY DEF Before, WeightOrder
<1>4. \A k \in S : at[k] \in S /\ Cardinality({j \in S : Precedes(s, j, at[k])}) = k - 1
  <2> SUFFICES ASSUME NEW k \in S
               PROVE  at[k] \in S /\ Cardinality({j \in S : Precedes(s, j, at[k])}) = k - 1
    OBVIOUS
  <2> HIDE DEF R
  <2>1. \E i \in S : Cardinality(Before(S, R, i)) = k - 1
    BY <1>1, <1>2, RanksTaken
  <2>2. \E i \in S : Cardinality({j \in S : Precedes(s, j, i)}) = k - 1
    BY <1>3, <2>1
  <2> QED BY <2>2
<1>5. ByWeight(s) = [k \in S |-> s[at[k]]]
  BY DEF ByWeight
<1>6. at \in [S -> S]
  BY <1>4
<1> HIDE DEF at
<1>7. \A k \in S : Cardinality(Before(S, R, at[k])) = k - 1
  BY <1>3, <1>4
<1>8. /\ \A i \in S : \E k \in S : at[k] = i
      /\ \A j, k \in S : j < k <=> <<at[j], at[k]>> \in R
  <2> HIDE DEF R
  <2>1. \A k \in 1..Cardinality(S) : at[k] \in S /\ Cardinality(Before(S, R, at[k])) = k - 1
    BY <1>1, <1>2, <1>6, <1>7
  <2>2. /\ \A i \in S : \E k \in 1..Cardinality(S) : at[k] = i
        /\ \A j, k \in 1..Cardinality(S) : j < k <=> <<at[j], at[k]>> \in R
    BY <1>1, <2>1, Listing
  <2> QED BY <1>1, <1>2, <2>2
<1>9. \A j, k \in S : j < k <=> Precedes(s, at[j], at[k])
  BY <1>6, <1>8 DEF WeightOrder
<1>10. ByWeight(s) \in Seq(MergedModule) /\ DOMAIN ByWeight(s) = S
  <2>1. ByWeight(s) \in [1..Len(s) -> MergedModule]
    BY <1>1, <1>5, <1>6
  <2> QED BY <1>1, <2>1
<1> QED BY <1>5, <1>6, <1>8, <1>9, <1>10

Registries == [Modules -> Definitions \cup {Absent}]

\* Defined lists, in the order of the names, those that the registry has.
LEMMA DefinedLists ==
    ASSUME NEW names \in Seq(Modules), NEW registry \in Registries
    PROVE  LET list == Defined(names, registry)
           IN  /\ list \in Seq(MergedModule)
               /\ \A k \in DOMAIN list :
                     /\ list[k].name \in Elements(names)
                     /\ list[k].def = registry[list[k].name]
                     /\ list[k].def # Absent
               /\ \A n \in DOMAIN names : registry[names[n]] # Absent =>
                     \E k \in DOMAIN list : list[k].name = names[n]
               /\ \A n, m \in DOMAIN names :
                     n < m /\ registry[names[n]] # Absent /\ registry[names[m]] # Absent =>
                        \E j, k \in DOMAIN list :
                           j < k /\ list[j].name = names[n] /\ list[k].name = names[m]
<1> DEFINE kept == {n \in DOMAIN names : registry[names[n]] # Absent}
           known == Only(names, kept)
           list == Defined(names, registry)
<1>1. /\ known \in Seq(Modules)
      /\ \E at \in [DOMAIN known -> kept] :
            /\ \A k \in DOMAIN known : known[k] = names[at[k]]
            /\ \A n \in kept : \E k \in DOMAIN known : at[k] = n
            /\ \A j, k \in DOMAIN known : j < k <=> at[j] < at[k]
  <2>1. kept \in SUBSET DOMAIN names
    OBVIOUS
  <2> HIDE DEF kept
  <2> QED BY <2>1, OnlyKeeps
<1>2. list = [k \in DOMAIN known |-> [name |-> known[k], def |-> registry[known[k]]]]
  BY DEF Defined
<1>3. PICK at \in [DOMAIN known -> kept] :
            /\ \A k \in DOMAIN known : known[k] = names[at[k]]
            /\ \A n \in kept : \E k \in DOMAIN known : at[k] = n
            /\ \A j, k \in DOMAIN known : j < k <=> at[j] < at[k]
  BY <1>1
<1> HIDE DEF known, list
<1>4. \A k \in DOMAIN known : /\ known[k] \in Modules /\ known[k] \in Elements(names)
                              /\ registry[known[k]] \in Definitions
                              /\ registry[known[k]] # Absent
  BY <1>1, <1>3, RouterAssumption DEF Elements, Registries
<1>5. list \in Seq(MergedModule)
  <2>1. DOMAIN known = 1..Len(known) /\ Len(known) \in Nat
    BY <1>1
  <2>2. \A k \in DOMAIN known : [name |-> known[k], def |-> registry[known[k]]] \in MergedModule
    BY <1>4 DEF MergedModule
  <2>3. list \in [1..Len(known) -> MergedModule]
    BY <1>2, <2>1, <2>2
  <2> QED BY <2>1, <2>3
<1>6. \A k \in DOMAIN list : list[k].name \in Elements(names)
                            /\ list[k].def = registry[list[k].name] /\ list[k].def # Absent
  BY <1>2, <1>4
<1>7. \A n \in DOMAIN names : registry[names[n]] # Absent =>
          \E k \in DOMAIN list : list[k].name = names[n]
  BY <1>2, <1>3
<1>8. \A n, m \in DOMAIN names :
          n < m /\ registry[names[n]] # Absent /\ registry[names[m]] # Absent =>
            \E j, k \in DOMAIN list :
                j < k /\ list[j].name = names[n] /\ list[k].name = names[m]
  <2> SUFFICES ASSUME NEW n \in DOMAIN names, NEW m \in DOMAIN names,
                      n < m, registry[names[n]] # Absent, registry[names[m]] # Absent
               PROVE  \E j, k \in DOMAIN list :
                         j < k /\ list[j].name = names[n] /\ list[k].name = names[m]
    OBVIOUS
  <2>1. n \in kept /\ m \in kept
    OBVIOUS
  <2>2. PICK j \in DOMAIN known : at[j] = n
    BY <1>3, <2>1
  <2>3. PICK k \in DOMAIN known : at[k] = m
    BY <1>3, <2>1
  <2> QED BY <1>2, <1>3, <2>2, <2>3
<1> QED BY <1>5, <1>6, <1>7, <1>8 DEF list

\* Sorting keeps the modules and puts no lighter one before a heavier one; of two of
\* the same weight the earlier one stays before the later one.
LEMMA SortedChain ==
    ASSUME NEW s \in Seq(MergedModule)
    PROVE  LET chain == ByWeight(s)
           IN  /\ chain \in Seq(MergedModule)
               /\ Elements(chain) = Elements(s)
               /\ \A n, m \in DOMAIN chain :
                     n < m => Weight[chain[n].def] >= Weight[chain[m].def]
               /\ \A i, j \in DOMAIN s : i < j /\ Weight[s[i].def] = Weight[s[j].def] =>
                     \E x, y \in DOMAIN chain : x < y /\ chain[x] = s[i] /\ chain[y] = s[j]
<1> DEFINE chain == ByWeight(s)
<1>1. /\ chain \in Seq(MergedModule) /\ DOMAIN chain = DOMAIN s
      /\ \E at \in [DOMAIN s -> DOMAIN s] :
            /\ \A k \in DOMAIN s : chain[k] = s[at[k]]
            /\ \A i \in DOMAIN s : \E k \in DOMAIN s : at[k] = i
            /\ \A j, k \in DOMAIN s : j < k <=> Precedes(s, at[j], at[k])
  BY ByWeightSorts
<1> HIDE DEF chain
<1>2. PICK at \in [DOMAIN s -> DOMAIN s] :
            /\ \A k \in DOMAIN s : chain[k] = s[at[k]]
            /\ \A i \in DOMAIN s : \E k \in DOMAIN s : at[k] = i
            /\ \A j, k \in DOMAIN s : j < k <=> Precedes(s, at[j], at[k])
  BY <1>1
<1>3. Elements(chain) = Elements(s)
  BY <1>1, <1>2 DEF Elements
<1>4. ASSUME NEW n \in DOMAIN chain, NEW m \in DOMAIN chain, n < m
      PROVE  Weight[chain[n].def] >= Weight[chain[m].def]
  <2>1. Precedes(s, at[n], at[m]) /\ at[n] \in DOMAIN s /\ at[m] \in DOMAIN s
    BY <1>1, <1>2, <1>4
  <2>2. Weight[s[at[n]].def] \in Nat /\ Weight[s[at[m]].def] \in Nat
    BY <2>1, WeightsAreNaturals
  <2>3. Weight[s[at[n]].def] >= Weight[s[at[m]].def]
    BY <2>1, <2>2 DEF Precedes
  <2> QED BY <1>1, <1>2, <2>3
<1>5. ASSUME NEW i \in DOMAIN s, NEW j \in DOMAIN s, i < j, Weight[s[i].def] = Weight[s[j].def]
      PROVE  \E x, y \in DOMAIN chain : x < y /\ chain[x] = s[i] /\ chain[y] = s[j]
  <2>1. Precedes(s, i, j)
    BY <1>5 DEF Precedes
  <2>2. PICK x \in DOMAIN s : at[x] = i
    BY <1>2
  <2>3. PICK y \in DOMAIN s : at[y] = j
    BY <1>2
  <2>4. x < y
    BY <1>2, <2>1, <2>2, <2>3
  <2> QED BY <1>1, <1>2, <2>2, <2>3, <2>4
<1> QED BY <1>1, <1>3, <1>4, <1>5 DEF chain

RegistriesTyped == module_registry \in Registries /\ global_module_registry \in Registries

LEMMA GlobalModulesList ==
    ASSUME RegistriesTyped
    PROVE  /\ GlobalModules \in Seq(MergedModule)
           /\ \A m \in Elements(GlobalModules) :
                 m.name \in Modules /\ m.def = global_module_registry[m.name] /\ m.def # Absent
           /\ \A name \in Modules : global_module_registry[name] # Absent =>
                 \E m \in Elements(GlobalModules) : m.name = name
           /\ \A n, m \in DOMAIN GlobalModules :
                 n < m => Weight[GlobalModules[n].def] >= Weight[GlobalModules[m].def]
<1> DEFINE list == Defined(HashOrder, global_module_registry)
<1>1. HashOrder \in Seq(Modules) /\ \A m \in Modules : \E n \in DOMAIN HashOrder : HashOrder[n] = m
  BY RouterAssumption
<1>2. /\ list \in Seq(MergedModule)
      /\ \A k \in DOMAIN list :
            list[k].def = global_module_registry[list[k].name] /\ list[k].def # Absent
      /\ \A n \in DOMAIN HashOrder : global_module_registry[HashOrder[n]] # Absent =>
            \E k \in DOMAIN list : list[k].name = HashOrder[n]
  BY <1>1, DefinedLists DEF RegistriesTyped
<1> HIDE DEF list
<1>3. GlobalModules = ByWeight(list)
  BY DEF GlobalModules, list
<1>4. /\ GlobalModules \in Seq(MergedModule) /\ Elements(GlobalModules) = Elements(list)
      /\ \A n, m \in DOMAIN GlobalModules :
            n < m => Weight[GlobalModules[n].def] >= Weight[GlobalModules[m].def]
  BY <1>2, <1>3, SortedChain
<1>5. \A m \in Elements(list) :
          m.name \in Modules /\ m.def = global_module_registry[m.name] /\ m.def # Absent
  <2>1. \A k \in DOMAIN list : list[k] \in MergedModule
    BY <1>2
  <2> QED BY <1>2, <2>1 DEF Elements, MergedModule
<1>6. \A name \in Modules : global_module_registry[name] # Absent =>
          \E m \in Elements(list) : m.name = name
  BY <1>1, <1>2 DEF Elements
<1> QED BY <1>4, <1>5, <1>6

\* The four things that ChainIsCurrent says, of a chain made by Merge.
LEMMA MergeIsCurrent ==
    ASSUME RegistriesTyped, NEW cfg \in IngressConfigs
    PROVE  LET own == Elements(cfg.modules)
               chain == Merge(cfg)
           IN  /\ chain \in Seq(MergedModule)
               /\ {m.name : m \in Elements(chain)} =
                      {m \in own : module_registry[m] # Absent}
                      \cup {m \in Modules \ (own \cup cfg.excluded) :
                              global_module_registry[m] # Absent}
               /\ \A m \in Elements(chain) :
                      m.def = IF m.name \in own THEN module_registry[m.name]
                              ELSE global_module_registry[m.name]
               /\ \A n, m \in DOMAIN chain :
                      n < m => Weight[chain[n].def] >= Weight[chain[m].def]
               /\ \A n, m \in DOMAIN cfg.modules :
                      LET first == module_registry[cfg.modules[n]]
                          second == module_registry[cfg.modules[m]]
                      IN  (/\ n < m /\ first # Absent /\ second # Absent
                           /\ Weight[first] = Weight[second])
                          => \E x, y \in DOMAIN chain :
                                /\ x < y
                                /\ chain[x].name = cfg.modules[n]
                                /\ chain[y].name = cfg.modules[m]
<1> DEFINE own == Elements(cfg.modules)
           g == GlobalModules
           kept == {n \in DOMAIN g : g[n].name \notin cfg.excluded \cup own}
           left == Only(g, kept)
           named == Defined(cfg.modules, module_registry)
           both == left \o named
           chain == Merge(cfg)
<1>1. cfg.modules \in Seq(Modules) /\ own \subseteq Modules
  <2>1. cfg.modules \in Seq(Modules)
    BY RouterAssumption
  <2> QED BY <2>1 DEF Elements
<1>2. /\ g \in Seq(MergedModule)
      /\ \A m \in Elements(g) :
            m.name \in Modules /\ m.def = global_module_registry[m.name] /\ m.def # Absent
      /\ \A name \in Modules : global_module_registry[name] # Absent =>
            \E m \in Elements(g) : m.name = name
  BY GlobalModulesList
<1>3. chain = ByWeight(both)
  BY DEF Merge
<1> HIDE DEF g
<1>4. kept \in SUBSET DOMAIN g
  OBVIOUS
<1>5. /\ left \in Seq(MergedModule)
      /\ Elements(left) = {m \in Elements(g) : m.name \notin cfg.excluded \cup own}
  <2> HIDE DEF kept
  <2>1. /\ left \in Seq(MergedModule)
        /\ \E at \in [DOMAIN left -> kept] :
              /\ \A k \in DOMAIN left : left[k] = g[at[k]]
              /\ \A n \in kept : \E k \in DOMAIN left : at[k] = n
    BY <1>2, <1>4, OnlyKeeps
  <2> HIDE DEF left
  <2>2. Elements(left) = {g[n] : n \in kept}
    BY <2>1 DEF Elements
  <2>3. {g[n] : n \in kept} = {m \in Elements(g) : m.name \notin cfg.excluded \cup own}
    BY DEF kept, Elements
  <2> QED BY <2>1, <2>2, <2>3
<1> HIDE DEF kept, left
<1>6. /\ named \in Seq(MergedModule)
      /\ \A k \in DOMAIN named :
            named[k].name \in own /\ named[k].def = module_registry[named[k].name]
            /\ named[k].def # Absent
      /\ \A n \in DOMAIN cfg.modules : module_registry[cfg.modules[n]] # Absent =>
            \E k \in DOMAIN named : named[k].name = cfg.modules[n]
      /\ \A n, m \in DOMAIN cfg.modules :
            n < m /\ module_registry[cfg.modules[n]] # Absent
                  /\ module_registry[cfg.modules[m]] # Absent =>
              \E j, k \in DOMAIN named :
                  j < k /\ named[j].name = cfg.modules[n] /\ named[k].name = cfg.modules[m]
  BY <1>1, DefinedLists DEF RegistriesTyped
<1> HIDE DEF named
<1>7. /\ both \in Seq(MergedModule)
      /\ Elements(both) = Elements(left) \cup Elements(named)
      /\ \A k \in DOMAIN named : Len(left) + k \in DOMAIN both /\ both[Len(left) + k] = named[k]
  <2>1. /\ both \in Seq(MergedModule) /\ Len(both) = Len(left) + Len(named)
        /\ Len(left) \in Nat /\ Len(named) \in Nat
        /\ \A k \in 1..(Len(left) + Len(named)) :
              both[k] = IF k <= Len(left) THEN left[k] ELSE named[k - Len(left)]
    BY <1>5, <1>6, ConcatProperties
  <2>2. DOMAIN both = 1..Len(both) /\ DOMAIN left = 1..Len(left) /\ DOMAIN named = 1..Len(named)
    BY <1>5, <1>6, <2>1
  <2> HIDE DEF both
  <2>3. \A k \in DOMAIN left : k \in DOMAIN both /\ both[k] = left[k]
    BY <2>1, <2>2
  <2>4. \A k \in DOMAIN named : Len(left) + k \in DOMAIN both /\ both[Len(left) + k] = named[k]
    BY <2>1, <2>2
  <2>5. \A k \in DOMAIN both : both[k] \in Elements(left) \cup Elements(named)
    <3> SUFFICES ASSUME NEW k \in DOMAIN both PROVE both[k] \in Elements(left) \cup Elements(named)
      OBVIOUS
    <3>1. CASE k <= Len(left)
      BY <2>1, <2>2, <3>1 DEF Elements
    <3>2. CASE ~(k <= Len(left))
      <4>1. k - Len(left) \in DOMAIN named /\ both[k] = named[k - Len(left)]
        BY <2>1, <2>2, <3>2
      <4> QED BY <4>1 DEF Elements
    <3> QED BY <3>1, <3>2
  <2> QED BY <2>1, <2>3, <2>4, <2>5 DEF Elements
<1> HIDE DEF both
<1>8. /\ chain \in Seq(MergedModule) /\ Elements(chain) = Elements(both)
      /\ \A n, m \in DOMAIN chain : n < m => Weight[chain[n].def] >= Weight[chain[m].def]
      /\ \A i, j \in DOMAIN both : i < j /\ Weight[both[i].def] = Weight[both[j].def] =>
            \E x, y \in DOMAIN chain : x < y /\ chain[x] = both[i] /\ chain[y] = both[j]
  BY <1>3, <1>7, SortedChain
<1> HIDE DEF chain
<1>9. \A m \in Elements(chain) :
          \/ /\ m.name \in own /\ m.def = module_registry[m.name] /\ m.def # Absent
          \/ /\ m.name \in Modules \ (own \cup cfg.excluded)
             /\ m.def = global_module_registry[m.name] /\ m.def # Absent
  <2> HIDE DEF own
  <2>1. \A m \in Elements(named) :
            m.name \in own /\ m.def = module_registry[m.name] /\ m.def # Absent
    BY <1>6 DEF Elements
  <2> QED BY <1>2, <1>5, <1>7, <1>8, <2>1
<1>10. \A name \in own : module_registry[name] # Absent => \E m \in Elements(chain) : m.name = name
  <2>1. \A name \in own : module_registry[name] # Absent => \E m \in Elements(named) : m.name = name
    BY <1>6 DEF Elements
  <2> QED BY <1>7, <1>8, <2>1
<1>11. \A name \in Modules \ (own \cup cfg.excluded) : global_module_registry[name] # Absent =>
           \E m \in Elements(chain) : m.name = name
  <2> HIDE DEF own
  <2> QED BY <1>2, <1>5, <1>7, <1>8
<1>12. {m.name : m \in Elements(chain)} =
           {m \in own : module_registry[m] # Absent}
           \cup {m \in Modules \ (own \cup cfg.excluded) : global_module_registry[m] # Absent}
  <2> HIDE DEF own
  <2> QED BY <1>9, <1>10, <1>11
<1>13. \A m \in Elements(chain) :
           m.def = IF m.name \in own THEN module_registry[m.name]
                   ELSE global_module_registry[m.name]
  <2> HIDE DEF own
  <2> QED BY <1>9
<1>14. ASSUME NEW n \in DOMAIN cfg.modules, NEW m \in DOMAIN cfg.modules, n < m,
              module_registry[cfg.modules[n]] # Absent, module_registry[cfg.modules[m]] # Absent,
              Weight[module_registry[cfg.modules[n]]] = Weight[module_registry[cfg.modules[m]]]
       PROVE  \E x, y \in DOMAIN chain :
                  /\ x < y
                  /\ chain[x].name = cfg.modules[n]
                  /\ chain[y].name = cfg.modules[m]
  <2> HIDE DEF own
  <2>1. PICK j \in DOMAIN named, k \in DOMAIN named :
            j < k /\ named[j].name = cfg.modules[n] /\ named[k].name = cfg.modules[m]
    BY <1>6, <1>14
  <2>2. /\ Len(left) + j \in DOMAIN both /\ both[Len(left) + j] = named[j]
        /\ Len(left) + k \in DOMAIN both /\ both[Len(left) + k] = named[k]
        /\ Len(left) + j < Len(left) + k
    <3>1. Len(left) \in Nat /\ j \in Nat /\ k \in Nat
      BY <1>5, <1>6
    <3> QED BY <1>7, <2>1, <3>1
  <2>3. Weight[named[j].def] = Weight[named[k].def]
    BY <1>6, <1>14, <2>1
  <2>4. PICK x \in DOMAIN chain, y \in DOMAIN chain :
            x < y /\ chain[x] = named[j] /\ chain[y] = named[k]
    BY <1>8, <2>2, <2>3
  <2> QED BY <2>1, <2>4
<1> QED BY <1>8, <1>12, <1>13, <1>14 DEF chain

\* What the code builds for an ingress is the chain it should carry.
LEMMA ChainsAreMadeCurrent ==
    ASSUME RegistriesTyped, NEW e,
           ingress_module_config[e.ingress] \in IngressConfigs \cup {Absent},
           e.merged_modules = MergedModules(e.ingress)
    PROVE  ChainIsCurrent(e) /\ e.merged_modules \in Seq(MergedModule)
<1> DEFINE cfg == ingress_module_config[e.ingress]
<1>1. CASE cfg = Absent
  <2>1. e.merged_modules = GlobalModules
    BY <1>1 DEF MergedModules
  <2>2. {m.name : m \in Elements(GlobalModules)} =
            {m \in Modules : global_module_registry[m] # Absent}
    BY GlobalModulesList
  <2> QED BY <1>1, <2>1, <2>2, GlobalModulesList DEF ChainIsCurrent
<1>2. CASE cfg \in IngressConfigs /\ cfg # Absent
  <2>1. e.merged_modules = Merge(cfg)
    BY <1>2 DEF MergedModules
  <2> QED BY <1>2, <2>1, MergeIsCurrent DEF ChainIsCurrent
<1> QED BY <1>1, <1>2

-----------------------------------------------------------------------------
(* The inductive invariant.                                                *)

Rule == [host : Hosts, paths : DeclaredPaths]

\* How many entries the insertion will still add to a host.
Pending(h) == {n \in DOMAIN rules : rules[n].host = h}

RoomInv ==
    writer = "inserting" =>
        \A h \in Hosts : Len(hosts[h]) + Cardinality(Pending(h)) <= MaxEntries

\* An ingress is configured before it is inserted.
WritingConfigured == writer = "inserting" => ingress_module_config[writing] # Absent

\* The hosts that a reload has been at, or that had nothing to reload, are current.
VisitedCurrent ==
    writer = "reloading" =>
        \A h \in Hosts \ host_keys : \A e \in Elements(hosts[h]) : ChainIsCurrent(e)

RInv == TypeOK /\ RoomInv /\ WritingConfigured /\ NoOrphanRoutes /\ VisitedCurrent

LEMMA RInvInit == Init => RInv
<1> SUFFICES ASSUME Init PROVE RInv
  OBVIOUS
<1>1. \A h \in Hosts : hosts[h] = <<>> /\ Elements(hosts[h]) = {}
  BY DEF Init, Elements
<1>2. TypeOK
  <2>1. \A h \in Hosts : hosts[h] \in Seq(HostEntry) /\ Len(hosts[h]) <= MaxEntries
    <3>1. <<>> \in Seq(HostEntry) /\ Len(<<>>) = 0 /\ 0 <= MaxEntries
      BY RouterAssumption
    <3> QED BY <1>1, <3>1, Zenon
  <2>2. hosts \in [Hosts -> Seq(HostEntry)]
    BY <2>1 DEF Init
  <2>3. rules \in Seq(Rule)
    BY DEF Init
  <2> QED BY <2>1, <2>2, <2>3 DEF Init, TypeOK, Rule
<1> QED BY <1>1, <1>2 DEF Init, RInv, RoomInv, WritingConfigured, NoOrphanRoutes, VisitedCurrent

LEMMA TypesOfRegistries ==
    ASSUME TypeOK
    PROVE  RegistriesTyped
BY DEF TypeOK, RegistriesTyped, Registries

\* Only hosts with entries are visited, and that is enough.
LEMMA KnownHostsSuffice == \A h \in Hosts \ KnownHosts : Elements(hosts[h]) = {}
BY DEF KnownHosts, Elements

LEMMA RInvStartReload ==
    ASSUME RInv, writer = "idle",
           module_registry' \in Registries, global_module_registry' \in Registries, StartReload
    PROVE  RInv'
<1>1. /\ UNCHANGED <<hosts, ingress_module_config, writing, rules>>
      /\ writer' = "reloading" /\ host_keys' = KnownHosts
  BY DEF StartReload
<1>2. TypeOK'
  <2>1. writing' = Absent /\ rules' = <<>>
    BY <1>1 DEF RInv, TypeOK
  <2>2. KnownHosts \in SUBSET Hosts
    BY DEF KnownHosts
  <2> QED BY <1>1, <2>1, <2>2, RouterAssumption DEF RInv, TypeOK, Registries
<1>3. RoomInv' /\ WritingConfigured'
  BY <1>1 DEF RoomInv, WritingConfigured
<1>4. NoOrphanRoutes'
  BY <1>1 DEF RInv, NoOrphanRoutes
<1>5. VisitedCurrent'
  <2> SUFFICES ASSUME NEW h \in Hosts \ KnownHosts PROVE Elements(hosts'[h]) = {}
    BY <1>1 DEF VisitedCurrent
  <2> QED BY <1>1, KnownHostsSuffice
<1> QED BY <1>2, <1>3, <1>4, <1>5 DEF RInv

LEMMA RInvUpsertModule ==
    ASSUME RInv, NEW m \in Modules, NEW global \in BOOLEAN, NEW d \in Definitions,
           UpsertModule(m, global, d)
    PROVE  RInv'
<1>1. module_registry' \in Registries /\ global_module_registry' \in Registries
  BY DEF UpsertModule, RInv, TypeOK, Registries
<1> QED BY <1>1, RInvStartReload DEF UpsertModule

LEMMA RInvDeleteModule ==
    ASSUME RInv, NEW m \in Modules, DeleteModuleConfig(m)
    PROVE  RInv'
<1>1. module_registry' \in Registries /\ global_module_registry' \in Registries
  BY DEF DeleteModuleConfig, RInv, TypeOK, Registries
<1> QED BY <1>1, RInvStartReload DEF DeleteModuleConfig

\* A reload changes nothing of an entry but its chain.
LEMMA ReloadKeepsEntries ==
    ASSUME TypeOK, NEW h \in Hosts
    PROVE  LET new == Reload(hosts[h])
           IN  /\ new \in Seq(HostEntry) /\ Len(new) = Len(hosts[h])
               /\ DOMAIN new = DOMAIN hosts[h]
               /\ \A n \in DOMAIN new :
                     /\ new[n].ingress = hosts[h][n].ingress
                     /\ new[n].paths = hosts[h][n].paths
                     /\ ChainIsCurrent(new[n])
<1> DEFINE old == hosts[h]
           new == Reload(hosts[h])
<1>1. old \in Seq(HostEntry) /\ Len(old) \in Nat /\ DOMAIN old = 1..Len(old)
  BY DEF TypeOK
<1>2. new = [n \in DOMAIN old |->
                [old[n] EXCEPT !.merged_modules = MergedModules(old[n].ingress)]]
  BY DEF Reload
<1> HIDE DEF old, new
<1>3. ASSUME NEW n \in DOMAIN old
      PROVE  /\ new[n] \in HostEntry /\ new[n].ingress = old[n].ingress
             /\ new[n].paths = old[n].paths /\ ChainIsCurrent(new[n])
  <2>1. old[n] \in HostEntry
    BY <1>1
  <2>2. /\ new[n].ingress = old[n].ingress /\ new[n].paths = old[n].paths
        /\ new[n].merged_modules = MergedModules(new[n].ingress)
        /\ new[n] = [ingress |-> old[n].ingress, merged_modules |-> new[n].merged_modules,
                     paths |-> old[n].paths]
    BY <1>2, <2>1 DEF HostEntry
  <2>3. ingress_module_config[new[n].ingress] \in IngressConfigs \cup {Absent}
    BY <2>1, <2>2 DEF HostEntry, TypeOK
  <2>4. ChainIsCurrent(new[n]) /\ new[n].merged_modules \in Seq(MergedModule)
    BY <2>2, <2>3, TypesOfRegistries, ChainsAreMadeCurrent
  <2> QED BY <2>1, <2>2, <2>4 DEF HostEntry
<1>4. new \in [1..Len(old) -> HostEntry]
  BY <1>1, <1>2, <1>3
<1>5. new \in Seq(HostEntry) /\ Len(new) = Len(old) /\ DOMAIN new = DOMAIN old
  BY <1>1, <1>4
<1> QED BY <1>3, <1>5 DEF old, new

LEMMA RInvReloadHost ==
    ASSUME RInv, NEW h \in Hosts, ReloadHost(h)
    PROVE  RInv'
<1> DEFINE new == Reload(hosts[h])
<1>1. /\ writer = "reloading" /\ writer' = "reloading" /\ h \in host_keys
      /\ hosts' = [hosts EXCEPT ![h] = new] /\ host_keys' = host_keys \ {h}
      /\ UNCHANGED <<registries, ingress_module_config, writing, rules>>
      /\ UNCHANGED <<module_registry, global_module_registry>>
  BY DEF ReloadHost, registries
<1>2. /\ new \in Seq(HostEntry) /\ Len(new) = Len(hosts[h])
      /\ DOMAIN new = DOMAIN hosts[h]
      /\ \A n \in DOMAIN new : new[n].ingress = hosts[h][n].ingress /\ ChainIsCurrent(new[n])
  BY ReloadKeepsEntries DEF RInv
<1> HIDE DEF new
<1>3. \A g \in Hosts : hosts'[g] = IF g = h THEN new ELSE hosts[g]
  BY <1>1 DEF RInv, TypeOK
<1>4. TypeOK'
  BY <1>1, <1>2, <1>3 DEF RInv, TypeOK
<1>5. RoomInv' /\ WritingConfigured'
  BY <1>1 DEF RoomInv, WritingConfigured
<1>6. NoOrphanRoutes'
  <2> SUFFICES ASSUME NEW g \in Hosts, NEW e \in Elements(hosts'[g])
               PROVE  ingress_module_config[e.ingress] # Absent
    BY <1>1 DEF NoOrphanRoutes
  <2>1. \E f \in Elements(hosts[g]) : f.ingress = e.ingress
    BY <1>2, <1>3 DEF Elements
  <2> QED BY <1>1, <2>1 DEF RInv, NoOrphanRoutes
<1>7. VisitedCurrent'
  <2>1. \A e : ChainIsCurrent(e)' <=> ChainIsCurrent(e)
    BY <1>1 DEF ChainIsCurrent
  <2> SUFFICES ASSUME NEW g \in Hosts \ host_keys', NEW e \in Elements(hosts'[g])
               PROVE  ChainIsCurrent(e)
    BY <2>1 DEF VisitedCurrent
  <2>2. CASE g = h
    BY <1>2, <1>3, <2>2 DEF Elements
  <2>3. CASE g # h
    BY <1>1, <1>3, <2>3 DEF RInv, VisitedCurrent
  <2> QED BY <2>2, <2>3
<1> QED BY <1>4, <1>5, <1>6, <1>7 DEF RInv

LEMMA EntriesTyped ==
    ASSUME TypeOK, NEW h \in Hosts, NEW e \in Elements(hosts[h])
    PROVE  e \in HostEntry
<1>1. hosts[h] \in Seq(HostEntry)
  BY DEF TypeOK
<1>2. PICK n \in DOMAIN hosts[h] : e = hosts[h][n]
  BY DEF Elements
<1> QED BY <1>1, <1>2

LEMMA RInvInsertIngress ==
    ASSUME RInv, NEW i \in Ingresses, NEW list \in Rules, NEW c \in IngressConfigs,
           InsertIngress(i, list, c)
    PROVE  RInv'
<1>1. /\ writer = "idle" /\ writer' = "inserting" /\ writing' = i /\ rules' = list
      /\ ingress_module_config' = [ingress_module_config EXCEPT ![i] = c]
      /\ UNCHANGED <<hosts, registries, host_keys>>
      /\ UNCHANGED <<module_registry, global_module_registry>>
  BY DEF InsertIngress, registries
<1>2. i # Absent /\ c # Absent /\ list \in Seq(Rule)
  BY RouterAssumption DEF Rule
<1>3. TypeOK'
  BY <1>1, <1>2 DEF RInv, TypeOK, Rule
<1>4. RoomInv'
  BY <1>1 DEF RoomInv, Pending, InsertIngress
<1>5. \A j \in Ingresses : ingress_module_config'[j] =
          IF j = i THEN c ELSE ingress_module_config[j]
  BY <1>1 DEF RInv, TypeOK
<1>6. WritingConfigured'
  BY <1>1, <1>2, <1>5 DEF WritingConfigured
<1>7. NoOrphanRoutes'
  <2> SUFFICES ASSUME NEW h \in Hosts, NEW e \in Elements(hosts[h])
               PROVE  ingress_module_config'[e.ingress] # Absent
    BY <1>1 DEF NoOrphanRoutes
  <2>1. e.ingress \in Ingresses
    BY EntriesTyped DEF RInv, HostEntry
  <2> QED BY <1>1, <1>2, <1>5, <2>1 DEF RInv, NoOrphanRoutes
<1>8. VisitedCurrent'
  BY <1>1 DEF VisitedCurrent
<1> QED BY <1>3, <1>4, <1>6, <1>7, <1>8 DEF RInv

\* What is left to insert once the first rule is done.
LEMMA PendingShrinks ==
    ASSUME rules \in Seq(Rule), rules # <<>>, rules' = Tail(rules), NEW h \in Hosts
    PROVE  Cardinality(Pending(h)') + (IF Head(rules).host = h THEN 1 ELSE 0)
               <= Cardinality(Pending(h))
           /\ Cardinality(Pending(h)') \in Nat /\ Cardinality(Pending(h)) \in Nat
<1>1. /\ rules' \in Seq(Rule) /\ Len(rules') = Len(rules) - 1 /\ Len(rules) \in Nat \ {0}
      /\ \A n \in 1..Len(rules') : rules'[n] = rules[n + 1]
      /\ Head(rules) = rules[1]
  BY HeadTailProperties
<1> DEFINE rest == Pending(h) \ {1}
           next == [n \in Pending(h)' |-> n + 1]
<1>2. /\ IsFiniteSet(Pending(h)) /\ Cardinality(Pending(h)) \in Nat
      /\ IsFiniteSet(Pending(h)') /\ Cardinality(Pending(h)') \in Nat
  <2>1. Pending(h) \in SUBSET DOMAIN rules /\ Pending(h)' \in SUBSET DOMAIN rules'
    BY DEF Pending
  <2> QED BY <1>1, <2>1, PositionsFinite
<1>3. 1 \in Pending(h) <=> Head(rules).host = h
  BY <1>1 DEF Pending
<1>4. /\ IsFiniteSet(rest)
      /\ Cardinality(rest) = IF 1 \in Pending(h) THEN Cardinality(Pending(h)) - 1
                             ELSE Cardinality(Pending(h))
  BY <1>2, FS_RemoveElement
<1>5. next \in [Pending(h)' -> rest]
  <2> SUFFICES ASSUME NEW n \in Pending(h)' PROVE n + 1 \in rest
    OBVIOUS
  <2>1. n \in 1..Len(rules') /\ rules'[n].host = h
    BY <1>1 DEF Pending
  <2>2. n + 1 \in 1..Len(rules) /\ rules[n + 1].host = h /\ n + 1 # 1
    BY <1>1, <2>1
  <2> QED BY <1>1, <2>2 DEF Pending
<1>6. \A n, m \in Pending(h)' : n # m => next[n] # next[m]
  <2>1. Pending(h)' \subseteq Nat
    BY <1>1 DEF Pending
  <2> QED BY <2>1
<1>7. next \in Injection(Pending(h)', rest)
  BY <1>5, <1>6 DEF Injection, IsInjective
<1>8. Cardinality(Pending(h)') <= Cardinality(rest)
  BY <1>4, <1>7, FS_Injection
<1> QED BY <1>2, <1>3, <1>4, <1>8

LEMMA PushAppends ==
    ASSUME TypeOK, NEW h \in Hosts, NEW entry \in HostEntry
    PROVE  LET new == Push(hosts[h], entry)
           IN  /\ new \in Seq(HostEntry) /\ Len(new) = Len(hosts[h]) + 1
               /\ Len(hosts[h]) \in Nat
               /\ \A n \in DOMAIN hosts[h] : n \in DOMAIN new /\ new[n] = hosts[h][n]
               /\ new[Len(new)] = entry
               /\ \A n \in DOMAIN new : n \in DOMAIN hosts[h] \/ n = Len(new)
               /\ Elements(new) = Elements(hosts[h]) \cup {entry}
<1> DEFINE old == hosts[h]
           new == Push(old, entry)
<1>1. old \in Seq(HostEntry) /\ Len(old) \in Nat /\ DOMAIN old = 1..Len(old)
  BY DEF TypeOK
<1>2. new = Append(old, entry)
  BY DEF Push
<1>3. /\ new \in Seq(HostEntry) /\ Len(new) = Len(old) + 1
      /\ \A n \in 1..Len(old) : new[n] = old[n]
      /\ new[Len(old) + 1] = entry
  BY <1>1, <1>2, AppendProperties
<1> HIDE DEF old, new
<1>4. DOMAIN new = 1..(Len(old) + 1)
  BY <1>1, <1>3
<1>5. \A n \in DOMAIN new : n \in DOMAIN old \/ n = Len(new)
  BY <1>1, <1>3, <1>4
<1>6. \A n \in DOMAIN old : n \in DOMAIN new /\ new[n] = old[n]
  BY <1>1, <1>3, <1>4
<1>7. Len(new) \in DOMAIN new /\ new[Len(new)] = entry
  BY <1>1, <1>3, <1>4
<1>8. Elements(new) = Elements(old) \cup {entry}
  BY <1>5, <1>6, <1>7 DEF Elements
<1> QED BY <1>1, <1>3, <1>5, <1>6, <1>7, <1>8 DEF old, new

\* What InsertHost does to the variables, and the entry it appends.
NewEntry ==
    [ingress |-> writing, merged_modules |-> MergedModules(writing), paths |-> Head(rules).paths]

LEMMA InsertHostAppends ==
    ASSUME RInv, InsertHost
    PROVE  /\ writer = "inserting" /\ rules \in Seq(Rule) /\ rules # <<>> /\ rules' = Tail(rules)
           /\ Head(rules).host \in Hosts
           /\ NewEntry \in HostEntry /\ ChainIsCurrent(NewEntry)
           /\ \A h \in Hosts : hosts'[h] = IF h = Head(rules).host THEN Push(hosts[h], NewEntry)
                                           ELSE hosts[h]
           /\ DOMAIN hosts' = Hosts
           /\ UNCHANGED <<registries, ingress_module_config, writer, writing, host_keys>>
           /\ UNCHANGED <<module_registry, global_module_registry>>
<1>1. /\ writer = "inserting" /\ rules \in Seq(Rule) /\ rules # <<>> /\ rules' = Tail(rules)
      /\ hosts' = [hosts EXCEPT ![Head(rules).host] = Push(@, NewEntry)]
      /\ UNCHANGED <<registries, ingress_module_config, writer, writing, host_keys>>
      /\ UNCHANGED <<module_registry, global_module_registry>>
  BY DEF InsertHost, NewEntry, RInv, TypeOK, Rule, registries
<1>2. Head(rules) \in Rule
  BY <1>1, HeadTailProperties
<1>3. writing \in Ingresses
  BY <1>1 DEF RInv, TypeOK
<1>4. ingress_module_config[NewEntry.ingress] \in IngressConfigs \cup {Absent}
  BY <1>3 DEF NewEntry, RInv, TypeOK
<1>5. NewEntry.merged_modules = MergedModules(NewEntry.ingress)
  BY DEF NewEntry
<1>6. ChainIsCurrent(NewEntry) /\ NewEntry.merged_modules \in Seq(MergedModule)
  BY <1>4, <1>5, TypesOfRegistries, ChainsAreMadeCurrent DEF RInv
<1>7. NewEntry \in HostEntry
  BY <1>2, <1>3, <1>6 DEF NewEntry, HostEntry, Rule
<1> QED BY <1>1, <1>2, <1>6, <1>7 DEF RInv, TypeOK, Rule

LEMMA RInvInsertHost ==
    ASSUME RInv, InsertHost
    PROVE  RInv'
<1> DEFINE at == Head(rules).host
<1>1. /\ writer = "inserting" /\ rules \in Seq(Rule) /\ rules # <<>> /\ rules' = Tail(rules)
      /\ at \in Hosts /\ NewEntry \in HostEntry
      /\ \A h \in Hosts : hosts'[h] = IF h = at THEN Push(hosts[h], NewEntry) ELSE hosts[h]
      /\ UNCHANGED <<ingress_module_config, writer, writing, host_keys>>
      /\ UNCHANGED <<module_registry, global_module_registry>>
      /\ DOMAIN hosts' = Hosts
  BY InsertHostAppends
<1>0. at = Head(rules).host
  OBVIOUS
<1> HIDE DEF at
<1>2. \A h \in Hosts : /\ Push(hosts[h], NewEntry) \in Seq(HostEntry)
                       /\ Len(Push(hosts[h], NewEntry)) = Len(hosts[h]) + 1
                       /\ Len(hosts[h]) \in Nat
                       /\ Elements(Push(hosts[h], NewEntry)) = Elements(hosts[h]) \cup {NewEntry}
  BY <1>1, PushAppends DEF RInv
<1>3. RoomInv'
  <2> SUFFICES ASSUME NEW h \in Hosts
               PROVE  Len(hosts'[h]) + Cardinality(Pending(h)') <= MaxEntries
    BY DEF RoomInv
  <2>1. /\ Cardinality(Pending(h)') + (IF at = h THEN 1 ELSE 0) <= Cardinality(Pending(h))
        /\ Cardinality(Pending(h)') \in Nat /\ Cardinality(Pending(h)) \in Nat
    BY <1>0, <1>1, PendingShrinks
  <2>2. Len(hosts[h]) + Cardinality(Pending(h)) <= MaxEntries /\ MaxEntries \in Nat
    BY <1>1, RouterAssumption DEF RInv, RoomInv
  <2>3. CASE at = h
    <3>1. Len(hosts'[h]) = Len(hosts[h]) + 1 /\ Len(hosts[h]) \in Nat
      BY <1>1, <1>2, <2>3
    <3> QED BY <2>1, <2>2, <2>3, <3>1
  <2>4. CASE at # h
    <3>1. hosts'[h] = hosts[h] /\ Len(hosts[h]) \in Nat
      BY <1>1, <1>2, <2>4
    <3>2. Cardinality(Pending(h)') <= Cardinality(Pending(h))
      BY <2>1, <2>4
    <3> QED BY <2>1, <2>2, <3>1, <3>2
  <2> QED BY <2>3, <2>4
<1>4. \A h \in Hosts : Len(hosts'[h]) <= MaxEntries /\ hosts'[h] \in Seq(HostEntry)
  <2> SUFFICES ASSUME NEW h \in Hosts
               PROVE  Len(hosts'[h]) <= MaxEntries /\ hosts'[h] \in Seq(HostEntry)
    OBVIOUS
  <2>1. hosts'[h] \in Seq(HostEntry)
    BY <1>1, <1>2 DEF RInv, TypeOK
  <2>2. Len(hosts'[h]) + Cardinality(Pending(h)') <= MaxEntries
    BY <1>1, <1>3 DEF RoomInv
  <2>3. Cardinality(Pending(h)') \in Nat /\ MaxEntries \in Nat
    BY <1>0, <1>1, PendingShrinks, RouterAssumption
  <2> QED BY <2>1, <2>2, <2>3
<1>5. TypeOK'
  <2>1. hosts' \in [Hosts -> Seq(HostEntry)]
    <3>1. hosts' = [h \in Hosts |-> hosts'[h]]
      BY DEF InsertHost, RInv, TypeOK
    <3> QED BY <1>4, <3>1
  <2>2. rules' \in Seq(Rule)
    BY <1>1, HeadTailProperties
  <2> QED BY <1>1, <1>4, <2>1, <2>2 DEF RInv, TypeOK, Rule
<1>6. NoOrphanRoutes'
  <2> SUFFICES ASSUME NEW h \in Hosts, NEW e \in Elements(hosts'[h])
               PROVE  ingress_module_config[e.ingress] # Absent
    BY <1>1 DEF NoOrphanRoutes
  <2>1. e \in Elements(hosts[h]) \/ e = NewEntry
    BY <1>1, <1>2
  <2>2. CASE e \in Elements(hosts[h])
    BY <1>1, <2>2 DEF RInv, NoOrphanRoutes
  <2>3. CASE e = NewEntry
    BY <1>1, <2>3 DEF NewEntry, RInv, WritingConfigured
  <2> QED BY <2>1, <2>2, <2>3
<1>7. WritingConfigured' /\ VisitedCurrent'
  BY <1>1 DEF RInv, WritingConfigured, VisitedCurrent
<1> QED BY <1>3, <1>5, <1>6, <1>7 DEF RInv

LEMMA RInvDeleteIngress ==
    ASSUME RInv, NEW i \in Ingresses, DeleteIngress(i)
    PROVE  RInv'
<1>1. /\ writer = "idle" /\ writer' = "deleting" /\ writing' = i /\ host_keys' = KnownHosts
      /\ ingress_module_config' = [ingress_module_config EXCEPT ![i] = Absent]
      /\ UNCHANGED <<hosts, registries, rules>>
      /\ UNCHANGED <<module_registry, global_module_registry>>
  BY DEF DeleteIngress, registries
<1>2. TypeOK'
  <2>1. i # Absent /\ KnownHosts \in SUBSET Hosts
    BY RouterAssumption DEF KnownHosts
  <2> QED BY <1>1, <2>1 DEF RInv, TypeOK
<1>3. RoomInv' /\ WritingConfigured' /\ VisitedCurrent'
  BY <1>1 DEF RoomInv, WritingConfigured, VisitedCurrent
<1>4. NoOrphanRoutes'
  <2> SUFFICES ASSUME NEW h \in Hosts, NEW e \in Elements(hosts[h])
               PROVE  \/ ingress_module_config'[e.ingress] # Absent
                      \/ e.ingress = i /\ h \in KnownHosts
    BY <1>1 DEF NoOrphanRoutes
  <2>1. e.ingress \in Ingresses
    BY EntriesTyped DEF RInv, HostEntry
  <2>2. h \in KnownHosts
    BY KnownHostsSuffice
  <2>3. CASE e.ingress # i
    BY <1>1, <2>1, <2>3 DEF RInv, TypeOK, NoOrphanRoutes
  <2> QED BY <2>2, <2>3
<1> QED BY <1>2, <1>3, <1>4 DEF RInv

\* What Without keeps: the entries of the other ingresses, in their order.
LEMMA WithoutKeeps ==
    ASSUME TypeOK, NEW h \in Hosts, NEW i
    PROVE  LET old == hosts[h]
               new == Without(hosts[h], i)
           IN  /\ new \in Seq(HostEntry) /\ Len(new) <= Len(old)
               /\ \E at \in [DOMAIN new -> DOMAIN old] :
                     /\ \A k \in DOMAIN new : new[k] = old[at[k]] /\ old[at[k]].ingress # i
                     /\ \A n \in DOMAIN old : old[n].ingress # i => \E k \in DOMAIN new : at[k] = n
                     /\ \A j, k \in DOMAIN new : j < k <=> at[j] < at[k]
<1> DEFINE old == hosts[h]
           new == Without(hosts[h], i)
           kept == {n \in DOMAIN old : old[n].ingress # i}
<1>1. old \in Seq(HostEntry)
  BY DEF TypeOK
<1>2. new = Only(old, kept)
  BY DEF Without
<1>3. kept \in SUBSET DOMAIN old
  OBVIOUS
<1> HIDE DEF old, new, kept
<1>4. /\ new \in Seq(HostEntry) /\ Len(new) <= Len(old)
      /\ \E at \in [DOMAIN new -> kept] :
            /\ \A k \in DOMAIN new : new[k] = old[at[k]]
            /\ \A n \in kept : \E k \in DOMAIN new : at[k] = n
            /\ \A j, k \in DOMAIN new : j < k <=> at[j] < at[k]
  <2>1. /\ Only(old, kept) \in Seq(HostEntry) /\ Len(Only(old, kept)) <= Len(old)
        /\ \E at \in [DOMAIN Only(old, kept) -> kept] :
              /\ \A k \in DOMAIN Only(old, kept) : Only(old, kept)[k] = old[at[k]]
              /\ \A n \in kept : \E k \in DOMAIN Only(old, kept) : at[k] = n
              /\ \A j, k \in DOMAIN Only(old, kept) : j < k <=> at[j] < at[k]
    BY <1>1, <1>3, OnlyKeeps
  <2> QED BY <1>2, <2>1, Zenon
<1>5. PICK at \in [DOMAIN new -> kept] :
            /\ \A k \in DOMAIN new : new[k] = old[at[k]]
            /\ \A n \in kept : \E k \in DOMAIN new : at[k] = n
            /\ \A j, k \in DOMAIN new : j < k <=> at[j] < at[k]
  BY <1>4
<1>6. at \in [DOMAIN new -> DOMAIN old]
  BY <1>3
<1>7. /\ \A k \in DOMAIN new : new[k] = old[at[k]] /\ old[at[k]].ingress # i
      /\ \A n \in DOMAIN old : old[n].ingress # i => \E k \in DOMAIN new : at[k] = n
  BY <1>5 DEF kept
<1> QED BY <1>4, <1>5, <1>6, <1>7 DEF old, new

LEMMA RInvDeleteFromHost ==
    ASSUME RInv, NEW h \in Hosts, DeleteFromHost(h)
    PROVE  RInv'
<1> DEFINE new == Without(hosts[h], writing)
<1>1. /\ writer = "deleting" /\ writer' = "deleting" /\ h \in host_keys
      /\ hosts' = [hosts EXCEPT ![h] = new] /\ host_keys' = host_keys \ {h}
      /\ UNCHANGED <<ingress_module_config, writing, rules>>
      /\ UNCHANGED <<module_registry, global_module_registry>>
  BY DEF DeleteFromHost, registries
<1>2. /\ new \in Seq(HostEntry) /\ Len(new) <= Len(hosts[h]) /\ Len(new) \in Nat
      /\ \A e \in Elements(new) : e \in Elements(hosts[h]) /\ e.ingress # writing
  <2>1. /\ new \in Seq(HostEntry) /\ Len(new) <= Len(hosts[h])
        /\ \E at \in [DOMAIN new -> DOMAIN hosts[h]] :
              /\ \A k \in DOMAIN new : new[k] = hosts[h][at[k]] /\ hosts[h][at[k]].ingress # writing
              /\ \A n \in DOMAIN hosts[h] :
                    hosts[h][n].ingress # writing => \E k \in DOMAIN new : at[k] = n
              /\ \A j, k \in DOMAIN new : j < k <=> at[j] < at[k]
    BY WithoutKeeps DEF RInv
  <2> HIDE DEF new
  <2> QED BY <2>1 DEF Elements
<1> HIDE DEF new
<1>3. \A g \in Hosts : hosts'[g] = IF g = h THEN new ELSE hosts[g]
  BY <1>1 DEF RInv, TypeOK
<1>4. TypeOK'
  <2>1. hosts' \in [Hosts -> Seq(HostEntry)]
    BY <1>1, <1>2 DEF RInv, TypeOK
  <2>2. \A g \in Hosts : Len(hosts'[g]) <= MaxEntries
    <3> SUFFICES ASSUME NEW g \in Hosts PROVE Len(hosts'[g]) <= MaxEntries
      OBVIOUS
    <3>1. Len(hosts[g]) <= MaxEntries /\ Len(hosts[g]) \in Nat /\ MaxEntries \in Nat
      <4>1. hosts[g] \in Seq(HostEntry)
        BY DEF RInv, TypeOK
      <4> QED BY <4>1, RouterAssumption DEF RInv, TypeOK
    <3>2. CASE g = h
      BY <1>2, <1>3, <3>1, <3>2
    <3>3. CASE g # h
      BY <1>3, <3>1, <3>3
    <3> QED BY <3>2, <3>3
  <2> QED BY <1>1, <2>1, <2>2 DEF RInv, TypeOK
<1>5. RoomInv' /\ WritingConfigured' /\ VisitedCurrent'
  BY <1>1 DEF RoomInv, WritingConfigured, VisitedCurrent
<1>6. NoOrphanRoutes'
  <2> SUFFICES ASSUME NEW g \in Hosts, NEW e \in Elements(hosts'[g])
               PROVE  \/ ingress_module_config[e.ingress] # Absent
                      \/ writing = e.ingress /\ g \in host_keys'
    BY <1>1 DEF NoOrphanRoutes
  <2>1. CASE g = h
    BY <1>2, <1>3, <2>1 DEF RInv, NoOrphanRoutes
  <2>2. CASE g # h
    BY <1>1, <1>3, <2>2 DEF RInv, NoOrphanRoutes
  <2> QED BY <2>1, <2>2
<1> QED BY <1>4, <1>5, <1>6 DEF RInv

LEMMA RInvFinish ==
    ASSUME RInv, Finish
    PROVE  RInv' /\ (writer = "reloading" => AllCurrent')
<1>1. /\ rules = <<>> /\ host_keys = {} /\ writer' = "idle" /\ writing' = Absent
      /\ UNCHANGED <<hosts, registries, ingress_module_config, rules, host_keys>>
      /\ UNCHANGED <<module_registry, global_module_registry>>
  BY DEF Finish, LoopEnds, registries
<1>2. TypeOK'
  BY <1>1 DEF RInv, TypeOK
<1>3. RoomInv' /\ WritingConfigured' /\ VisitedCurrent'
  BY <1>1 DEF RoomInv, WritingConfigured, VisitedCurrent
<1>4. NoOrphanRoutes'
  BY <1>1 DEF RInv, NoOrphanRoutes
<1>5. writer = "reloading" => AllCurrent'
  <2>1. \A e : ChainIsCurrent(e)' <=> ChainIsCurrent(e)
    BY <1>1 DEF ChainIsCurrent
  <2> QED BY <1>1, <2>1 DEF RInv, VisitedCurrent, AllCurrent
<1> QED BY <1>2, <1>3, <1>4, <1>5 DEF RInv

LEMMA RInvStep == RInv /\ [Next]_vars => RInv'
<1> SUFFICES ASSUME RInv, [Next]_vars PROVE RInv'
  OBVIOUS
<1>1. CASE UNCHANGED vars
  BY <1>1 DEF vars, registries, RInv, TypeOK, RoomInv, Pending, WritingConfigured, NoOrphanRoutes,
              VisitedCurrent, ChainIsCurrent
<1>2. CASE Next
  BY <1>2, RInvUpsertModule, RInvDeleteModule, RInvInsertIngress, RInvDeleteIngress,
     RInvInsertHost, RInvReloadHost, RInvDeleteFromHost, RInvFinish DEF Next, WriterStep
<1> QED BY <1>1, <1>2

LEMMA RInvAlways == Spec => []RInv
BY RInvInit, RInvStep, PTL DEF Spec

\* For all hosts, ingresses, modules, rules and configurations the tables keep their
\* types, and no host has more entries than were asked for (routing/router.rs).
THEOREM TypeCorrect == Spec => []TypeOK
BY RInvAlways, PTL DEF RInv

\* delete_ingress leaves no entry of its ingress on any host, however often the ingress
\* was inserted (routing/router.rs, delete_ingress and insert_ingress).
THEOREM RoutesHaveOwners == Spec => []NoOrphanRoutes
BY RInvAlways, PTL DEF RInv

\* A module operation returns only after every entry of every host has the chain that
\* the registries and its ingress ask for (routing/router.rs, reload_modules).
THEOREM ReloadsComplete == Spec => ReloadIsComplete
<1>1. RInv /\ [Next]_vars => [writer = "reloading" /\ writer' = "idle" => AllCurrent']_vars
  <2> SUFFICES ASSUME RInv, Next, writer = "reloading", writer' = "idle" PROVE AllCurrent'
    OBVIOUS
  <2>1. Finish
    BY DEF Next, WriterStep, UpsertModule, DeleteModuleConfig, InsertIngress, DeleteIngress,
           InsertHost, ReloadHost, DeleteFromHost, StartReload
  <2> QED BY <2>1, RInvFinish
<1> QED BY <1>1, RInvAlways, PTL DEF Spec, ReloadIsComplete

-----------------------------------------------------------------------------
(* What an operation does to the answers.                                  *)

\* The first of some positions.
IsFirst(n, M) == n \in M /\ \A m \in M : n <= m

LEMMA FirstIsUnique ==
    ASSUME NEW M \in SUBSET Nat, NEW n, IsFirst(n, M)
    PROVE  n = Earliest(M)
<1>1. \A k \in M : (\A m \in M : k <= m) => k = n
  BY DEF IsFirst
<1> QED BY <1>1 DEF IsFirst, Earliest

\* The first entry that matches answers.
LEMMA AnswerOfFirst ==
    ASSUME NEW entries \in Seq(HostEntry), NEW p
    PROVE  /\ Matching(entries, p) = {} => AnswerOf(entries, p) = Absent
           /\ Matching(entries, p) # {} => \E n : IsFirst(n, Matching(entries, p))
           /\ \A n : IsFirst(n, Matching(entries, p)) =>
                 AnswerOf(entries, p) = <<entries[n].ingress, BackendOf(entries[n].paths, p)>>
<1> DEFINE M == Matching(entries, p)
<1>1. M \in SUBSET DOMAIN entries /\ M \in SUBSET Nat
  BY DEF Matching
<1>2. M = {} => AnswerOf(entries, p) = Absent
  BY DEF AnswerOf
<1> HIDE DEF M
<1>3. M # {} => \E n : IsFirst(n, M)
  BY <1>1, FirstPosition DEF IsFirst
<1>4. ASSUME NEW n, IsFirst(n, M)
      PROVE  AnswerOf(entries, p) = <<entries[n].ingress, BackendOf(entries[n].paths, p)>>
  <2>1. n = Earliest(M)
    BY <1>1, <1>4, FirstIsUnique
  <2>2. M # {}
    BY <1>4 DEF IsFirst
  <2> QED BY <2>1, <2>2 DEF AnswerOf, M
<1> QED BY <1>2, <1>3, <1>4 DEF M

\* What RoutesChangeOnPurpose says of a host and a path.
Purposeful(h, p) ==
    LET old == Answer(h, p)
        new == AnswerOf(hosts'[h], p)
    IN  \/ new = old
        \/ writer = "inserting" /\ old = Absent /\ new[1] = writing
        \/ writer = "deleting" /\ old[1] = writing

LEMMA ReloadKeepsAnswers ==
    ASSUME RInv, NEW h \in Hosts, NEW p, ReloadHost(h)
    PROVE  AnswerOf(hosts'[h], p) = Answer(h, p)
<1> DEFINE old == hosts[h]
           new == Reload(hosts[h])
<1>1. hosts'[h] = new /\ old \in Seq(HostEntry)
  BY DEF ReloadHost, RInv, TypeOK
<1>2. /\ new \in Seq(HostEntry) /\ DOMAIN new = DOMAIN old
      /\ \A n \in DOMAIN new : new[n].ingress = old[n].ingress /\ new[n].paths = old[n].paths
  BY ReloadKeepsEntries DEF RInv
<1> HIDE DEF old, new
<1>3. Matching(new, p) = Matching(old, p)
  BY <1>2 DEF Matching
<1>4. AnswerOf(new, p) = AnswerOf(old, p)
  <2>1. CASE Matching(old, p) = {}
    BY <1>1, <1>2, <1>3, <2>1, AnswerOfFirst
  <2>2. CASE Matching(old, p) # {}
    <3>1. PICK n : IsFirst(n, Matching(old, p))
      BY <1>1, <2>2, AnswerOfFirst
    <3>2. n \in DOMAIN new
      BY <1>2, <3>1 DEF IsFirst, Matching
    <3>3. AnswerOf(old, p) = <<old[n].ingress, BackendOf(old[n].paths, p)>>
      BY <1>1, <3>1, AnswerOfFirst
    <3>4. AnswerOf(new, p) = <<new[n].ingress, BackendOf(new[n].paths, p)>>
      BY <1>2, <1>3, <3>1, AnswerOfFirst
    <3> QED BY <1>2, <3>2, <3>3, <3>4
  <2> QED BY <2>1, <2>2
<1> QED BY <1>1, <1>4 DEF Answer, old

LEMMA InsertAnswersWhereNone ==
    ASSUME RInv, NEW h \in Hosts, NEW p, InsertHost
    PROVE  Purposeful(h, p)
<1> DEFINE old == hosts[h]
           new == Push(hosts[h], NewEntry)
<1>1. /\ writer = "inserting" /\ NewEntry \in HostEntry
      /\ hosts'[h] = new \/ hosts'[h] = old
      /\ old \in Seq(HostEntry) /\ NewEntry.ingress = writing
  BY InsertHostAppends DEF RInv, TypeOK, NewEntry
<1>2. CASE hosts'[h] = old
  BY <1>2 DEF Purposeful, Answer
<1>3. CASE hosts'[h] = new
  <2>1. /\ new \in Seq(HostEntry) /\ Len(new) = Len(old) + 1 /\ Len(old) \in Nat
        /\ \A n \in DOMAIN old : n \in DOMAIN new /\ new[n] = old[n]
        /\ new[Len(new)] = NewEntry
        /\ \A n \in DOMAIN new : n \in DOMAIN old \/ n = Len(new)
    BY <1>1, PushAppends DEF RInv
  <2>2. DOMAIN old = 1..Len(old)
    BY <1>1
  <2> HIDE DEF old, new
  <2>3. /\ Matching(old, p) \subseteq Matching(new, p)
        /\ \A n \in Matching(new, p) : n \in Matching(old, p) \/ n = Len(new)
    BY <2>1 DEF Matching
  <2>4. CASE Matching(old, p) # {}
    <3>1. PICK n : IsFirst(n, Matching(old, p))
      BY <1>1, <2>4, AnswerOfFirst
    <3>2. n \in DOMAIN old
      BY <3>1 DEF IsFirst, Matching
    <3>3. IsFirst(n, Matching(new, p))
      BY <2>1, <2>2, <2>3, <3>1, <3>2 DEF IsFirst
    <3>4. AnswerOf(old, p) = <<old[n].ingress, BackendOf(old[n].paths, p)>>
      BY <1>1, <3>1, AnswerOfFirst
    <3>5. AnswerOf(new, p) = <<new[n].ingress, BackendOf(new[n].paths, p)>>
      BY <2>1, <3>3, AnswerOfFirst
    <3>6. AnswerOf(new, p) = AnswerOf(old, p)
      BY <2>1, <3>2, <3>4, <3>5
    <3> QED BY <1>3, <3>6 DEF Purposeful, Answer, old
  <2>5. CASE Matching(old, p) = {}
    <3>1. AnswerOf(old, p) = Absent
      BY <1>1, <2>5, AnswerOfFirst
    <3>2. CASE Matching(new, p) = {}
      <4>1. AnswerOf(new, p) = Absent
        BY <2>1, <3>2, AnswerOfFirst
      <4> QED BY <1>3, <3>1, <4>1 DEF Purposeful, Answer, old
    <3>3. CASE Matching(new, p) # {}
      <4>1. PICK n : IsFirst(n, Matching(new, p))
        BY <2>1, <3>3, AnswerOfFirst
      <4>2. n = Len(new)
        BY <2>3, <2>5, <4>1 DEF IsFirst
      <4>3. AnswerOf(new, p) = <<new[n].ingress, BackendOf(new[n].paths, p)>>
        BY <2>1, <4>1, AnswerOfFirst
      <4>4. AnswerOf(new, p)[1] = writing
        BY <1>1, <2>1, <4>2, <4>3
      <4> QED BY <1>1, <1>3, <3>1, <4>4 DEF Purposeful, Answer, old
    <3> QED BY <3>2, <3>3
  <2> QED BY <2>4, <2>5
<1> QED BY <1>1, <1>2, <1>3

LEMMA DeleteTakesOwnAnswers ==
    ASSUME RInv, NEW h \in Hosts, NEW p, DeleteFromHost(h)
    PROVE  Purposeful(h, p)
<1> DEFINE old == hosts[h]
           new == Without(hosts[h], writing)
<1>1. writer = "deleting" /\ hosts'[h] = new /\ old \in Seq(HostEntry)
  BY DEF DeleteFromHost, RInv, TypeOK
<1>2. /\ new \in Seq(HostEntry) /\ Len(new) <= Len(old)
      /\ \E at \in [DOMAIN new -> DOMAIN old] :
            /\ \A k \in DOMAIN new : new[k] = old[at[k]] /\ old[at[k]].ingress # writing
            /\ \A n \in DOMAIN old : old[n].ingress # writing => \E k \in DOMAIN new : at[k] = n
            /\ \A j, k \in DOMAIN new : j < k <=> at[j] < at[k]
  BY WithoutKeeps DEF RInv
<1> HIDE DEF old, new
<1>3. PICK at \in [DOMAIN new -> DOMAIN old] :
            /\ \A k \in DOMAIN new : new[k] = old[at[k]] /\ old[at[k]].ingress # writing
            /\ \A n \in DOMAIN old : old[n].ingress # writing => \E k \in DOMAIN new : at[k] = n
            /\ \A j, k \in DOMAIN new : j < k <=> at[j] < at[k]
  BY <1>2
<1>4. \A k \in DOMAIN new : k \in Matching(new, p) <=> at[k] \in Matching(old, p)
  BY <1>3 DEF Matching
<1>5. CASE Matching(old, p) = {}
  <2>1. Matching(new, p) = {}
    BY <1>4, <1>5 DEF Matching
  <2>2. AnswerOf(new, p) = AnswerOf(old, p)
    BY <1>1, <1>2, <1>5, <2>1, AnswerOfFirst
  <2> QED BY <1>1, <2>2 DEF Purposeful, Answer, old
<1>6. CASE Matching(old, p) # {}
  <2>1. PICK n : IsFirst(n, Matching(old, p))
    BY <1>1, <1>6, AnswerOfFirst
  <2>2. n \in DOMAIN old
    BY <2>1 DEF IsFirst, Matching
  <2>3. AnswerOf(old, p) = <<old[n].ingress, BackendOf(old[n].paths, p)>>
    BY <1>1, <2>1, AnswerOfFirst
  <2>4. CASE old[n].ingress = writing
    BY <1>1, <2>3, <2>4 DEF Purposeful, Answer, old
  <2>5. CASE old[n].ingress # writing
    <3>1. PICK k \in DOMAIN new : at[k] = n
      BY <1>3, <2>2, <2>5
    <3>2. ASSUME NEW j \in Matching(new, p) PROVE k <= j
      <4>1. j \in DOMAIN new /\ at[j] \in Matching(old, p)
        BY <1>4, <3>2 DEF Matching
      <4>2. at[k] <= at[j]
        BY <2>1, <3>1, <4>1 DEF IsFirst
      <4>3. /\ at[k] \in Nat /\ at[j] \in Nat /\ k \in Nat /\ j \in Nat
        <5>1. DOMAIN old \subseteq Nat /\ DOMAIN new \subseteq Nat
          BY <1>1, <1>2
        <5> QED BY <1>3, <3>1, <4>1, <5>1
      <4>4. ~(at[j] < at[k])
        BY <4>2, <4>3
      <4> QED BY <1>3, <4>1, <4>3, <4>4
    <3>3. IsFirst(k, Matching(new, p))
      BY <1>4, <2>1, <3>1, <3>2 DEF IsFirst
    <3>4. AnswerOf(new, p) = <<new[k].ingress, BackendOf(new[k].paths, p)>>
      BY <1>2, <3>3, AnswerOfFirst
    <3>5. AnswerOf(new, p) = AnswerOf(old, p)
      BY <1>3, <2>3, <3>1, <3>4
    <3> QED BY <1>1, <3>5 DEF Purposeful, Answer, old
  <2> QED BY <2>4, <2>5
<1> QED BY <1>5, <1>6

LEMMA StepsArePurposeful ==
    ASSUME RInv, Next, NEW h \in Hosts, NEW p, hosts'[h] # hosts[h]
    PROVE  Purposeful(h, p)
<1>1. CASE InsertHost
  BY <1>1, InsertAnswersWhereNone
<1>2. ASSUME NEW g \in Hosts, ReloadHost(g) PROVE Purposeful(h, p)
  <2>1. g = h
    BY <1>2 DEF ReloadHost, RInv, TypeOK
  <2> QED BY <1>2, <2>1, ReloadKeepsAnswers DEF Purposeful
<1>3. ASSUME NEW g \in Hosts, DeleteFromHost(g) PROVE Purposeful(h, p)
  <2>1. g = h
    BY <1>3 DEF DeleteFromHost, RInv, TypeOK
  <2> QED BY <1>3, <2>1, DeleteTakesOwnAnswers
<1>4. CASE hosts' = hosts
  BY <1>4
<1> QED BY <1>1, <1>2, <1>3, <1>4
        DEF Next, WriterStep, UpsertModule, DeleteModuleConfig, StartReload, InsertIngress,
            DeleteIngress, Finish

\* No operation changes an answer it is not about, at any of its steps: an insertion
\* answers where nothing answered, a deletion takes back its own answers, and a reload
\* changes none (routing/router.rs, find_route between the writes).
THEOREM RoutesStay == Spec => RoutesChangeOnPurpose
<1>1. RInv /\ [Next]_vars =>
        [\A h \in Hosts, p \in RequestPaths :
            hosts[h]' # hosts[h] =>
                LET old == Answer(h, p)
                    new == AnswerOf(hosts'[h], p)
                IN  \/ new = old
                    \/ writer = "inserting" /\ old = Absent /\ new[1] = writing
                    \/ writer = "deleting" /\ old[1] = writing]_vars
  BY StepsArePurposeful DEF Purposeful
<1> QED BY <1>1, RInvAlways, PTL DEF Spec, RoutesChangeOnPurpose

-----------------------------------------------------------------------------
(* Find answers what the host owes.                                        *)

\* What is cut off a path at some length is a prefix of it, and the other way.
LEMMA PrefixesAreCuts ==
    ASSUME NEW s \in Path, NEW t \in Path
    PROVE  /\ IsPrefix(s, t) <=> \E n \in 0..Len(t) : s = SubSeq(t, 1, n)
           /\ \A n \in 0..Len(t) : Len(SubSeq(t, 1, n)) = n
           /\ SubSeq(t, 1, Len(t)) = t
<1>1. ASSUME NEW n \in 0..Len(t)
      PROVE  SubSeq(t, 1, n) \in Path /\ Len(SubSeq(t, 1, n)) = n
  BY <1>1 DEF Path
<1>2. \A u \in Path : SubSeq(u, 1, Len(u)) = u
  BY DEF Path
<1>3. ASSUME IsPrefix(s, t)
      PROVE  \E n \in 0..Len(t) : s = SubSeq(t, 1, n)
  <2>1. Len(s) \in 0..Len(t) /\ SubSeq(s, 1, Len(s)) = SubSeq(t, 1, Len(s))
    BY <1>3 DEF IsPrefix, Path
  <2> QED BY <2>1, <1>2
<1>4. ASSUME NEW n \in 0..Len(t), s = SubSeq(t, 1, n)
      PROVE  IsPrefix(s, t)
  <2>1. Len(s) = n /\ SubSeq(s, 1, Len(s)) = s
    BY <1>1, <1>2, <1>4
  <2> QED BY <2>1, <1>4 DEF IsPrefix
<1> QED BY <1>1, <1>2, <1>3, <1>4

\* path_prefix_match tells the ancestors of a path.
LEMMA PrefixMatchIsBelow ==
    ASSUME NEW prefix \in Path, NEW path \in Path
    PROVE  PathPrefixMatch(prefix, path) <=> Below(prefix, path)
<1> DEFINE Cut(n) == SubSeq(path, 1, n)
<1>1. /\ IsPrefix(prefix, path) <=> \E n \in 0..Len(path) : prefix = Cut(n)
      /\ \A n \in 0..Len(path) : Len(Cut(n)) = n
      /\ Cut(Len(path)) = path
  BY PrefixesAreCuts
<1>2. Below(prefix, path) <=>
        \/ prefix = Root
        \/ \E n \in 0..Len(path) :
              prefix = Cut(n) /\ (n = Len(path) \/ path[n + 1] = Slash)
  BY DEF Below, Ancestors
<1>3. Len(path) \in Nat
  BY DEF Path
<1> HIDE DEF Cut
<1>4. ASSUME path = prefix
      PROVE  Below(prefix, path)
  BY <1>1, <1>2, <1>3, <1>4
<1>5. ASSUME IsStrictPrefix(prefix, path), path[Len(prefix) + 1] = Slash
      PROVE  Below(prefix, path)
  <2>1. PICK n \in 0..Len(path) : prefix = Cut(n)
    BY <1>1, <1>5 DEF IsStrictPrefix
  <2>2. Len(prefix) = n
    BY <1>1, <2>1
  <2> QED BY <1>2, <1>5, <2>1, <2>2
<1>6. ASSUME NEW n \in 0..Len(path), prefix = Cut(n), n # Len(path), path[n + 1] = Slash
      PROVE  IsStrictPrefix(prefix, path) /\ path[Len(prefix) + 1] = Slash
  <2>1. Len(prefix) = n /\ Len(prefix) # Len(path)
    BY <1>1, <1>6
  <2>2. prefix # path
    BY <2>1
  <2>3. IsPrefix(prefix, path)
    BY <1>1, <1>6
  <2> QED BY <1>6, <2>1, <2>2, <2>3 DEF IsStrictPrefix
<1>7. ASSUME Below(prefix, path), prefix # Root, prefix # path
      PROVE  IsStrictPrefix(prefix, path) /\ path[Len(prefix) + 1] = Slash
  BY <1>1, <1>2, <1>6, <1>7
<1>8. prefix = Root => Below(prefix, path)
  BY <1>2
<1> QED BY <1>4, <1>5, <1>7, <1>8 DEF PathPrefixMatch

\* The rules by rank: at most one has each rank.
IsRanking(ranked) ==
    /\ \A r \in ranked : r[1] \in Nat /\ r[2] \in Nat
    /\ \A r, s \in ranked : r[1] = s[1] /\ r[2] = s[2] => r = s

Best(r, ranked) == \A s \in ranked : r[1] < s[1] \/ (r[1] = s[1] /\ r[2] <= s[2])

LEMMA BestIsUnique ==
    ASSUME NEW ranked, IsRanking(ranked), NEW r \in ranked, Best(r, ranked)
    PROVE  r = CHOOSE b \in ranked :
                  \A s \in ranked : b[1] < s[1] \/ (b[1] = s[1] /\ b[2] <= s[2])
<1>1. \A b \in ranked :
         (\A s \in ranked : b[1] < s[1] \/ (b[1] = s[1] /\ b[2] <= s[2])) => b = r
  BY DEF Best, IsRanking
<1> QED BY <1>1 DEF Best

\* What a set of rules contributes to the ranking of a path, and what find
\* takes from it.
LEMMA OwedIsBest ==
    ASSUME NEW paths, NEW path, IsRanking(Ranked(paths, path)),
           NEW r \in Ranked(paths, path), Best(r, Ranked(paths, path))
    PROVE  Owed(paths, path) = r[3]
<1> DEFINE R == Ranked(paths, path)
<1>1. r = CHOOSE b \in R : \A s \in R : b[1] < s[1] \/ (b[1] = s[1] /\ b[2] <= s[2])
  BY BestIsUnique
<1> QED BY <1>1 DEF Owed

\* HostPaths::find answers what the host owes.
LEMMA FindIsOwed ==
    ASSUME NEW paths \in HostPaths, NEW path \in Path
    PROVE  Find(paths, path) = Owed(paths, path)
<1> DEFINE A == {e \in paths.exact : e.path = path}
           B == {n \in DOMAIN paths.prefix : Below(paths.prefix[n].path, path)}
           Matched == {n \in DOMAIN paths.prefix : PathPrefixMatch(paths.prefix[n].path, path)}
           C == {n \in DOMAIN paths.implementation_specific :
                    IsPrefix(paths.implementation_specific[n].path, path)}
           R == Ranked(paths, path)
           prefixes == paths.prefix
           others == paths.implementation_specific
<1>1. /\ paths.exact \in SUBSET PathBackend
      /\ prefixes \in Seq(PathBackend)
      /\ others \in Seq(PathBackend)
      /\ \A a, b \in paths.exact : a.path = b.path => a = b
  BY DEF HostPaths
<1>2. /\ \A n \in DOMAIN prefixes : prefixes[n] \in PathBackend
      /\ \A n \in DOMAIN others : others[n] \in PathBackend
      /\ DOMAIN prefixes \subseteq Nat /\ DOMAIN others \subseteq Nat
  <2>1. \A s \in Seq(PathBackend) :
           DOMAIN s \subseteq Nat /\ \A n \in DOMAIN s : s[n] \in PathBackend
    OBVIOUS
  <2> QED BY <1>1, <2>1
<1>3. \A e \in PathBackend : e.path \in Path /\ e.backend \in Backends /\ e.backend # NoBackend
  BY PathMatchAssumption DEF PathBackend
<1>4. Matched = B
  BY <1>2, <1>3, PrefixMatchIsBelow
<1>5. /\ \A r \in R : \/ \E e \in A : r = <<1, 1, e.backend>>
                      \/ \E n \in B : r = <<2, n, prefixes[n].backend>>
                      \/ \E n \in C : r = <<3, n, others[n].backend>>
      /\ \A e \in A : <<1, 1, e.backend>> \in R
      /\ \A n \in B : <<2, n, prefixes[n].backend>> \in R
      /\ \A n \in C : <<3, n, others[n].backend>> \in R
  BY DEF Ranked
<1>6. B \in SUBSET DOMAIN prefixes /\ C \in SUBSET DOMAIN others
  OBVIOUS
<1>7. /\ B \in SUBSET Nat /\ C \in SUBSET Nat
      /\ \A e, f \in A : e = f
  BY <1>1, <1>2
<1>8. Find(paths, path) =
        IF A # {} THEN (CHOOSE e \in A : TRUE).backend
        ELSE IF FirstMatch(prefixes, Matched) # NoBackend THEN FirstMatch(prefixes, Matched)
        ELSE FirstMatch(others, C)
  BY DEF Find
<1>9. R = {} => Owed(paths, path) = NoBackend
  BY DEF Owed
<1>10. \A e \in A : e.backend # NoBackend
  BY <1>1, <1>3
<1>11. \A n \in B : prefixes[n].backend # NoBackend
  BY <1>2, <1>3, <1>6
<1> HIDE DEF A, B, C, R, Matched, prefixes, others
<1>12. B # {} => IsFirst(Earliest(B), B) /\ FirstMatch(prefixes, B) = prefixes[Earliest(B)].backend
  BY <1>1, <1>6, FirstPosition DEF IsFirst, FirstMatch
<1>13. C # {} => IsFirst(Earliest(C), C) /\ FirstMatch(others, C) = others[Earliest(C)].backend
  BY <1>1, <1>6, FirstPosition DEF IsFirst, FirstMatch
<1>14. /\ B = {} => FirstMatch(prefixes, B) = NoBackend
       /\ C = {} => FirstMatch(others, C) = NoBackend
  BY DEF FirstMatch
<1>15. IsRanking(R)
  BY <1>5, <1>7 DEF IsRanking
<1>16. CASE A # {}
  <2>1. PICK e \in A : e = CHOOSE f \in A : TRUE
    BY <1>16
  <2> DEFINE r == <<1, 1, e.backend>>
  <2>2. r \in R /\ Best(r, R)
    BY <1>5, <1>7 DEF Best
  <2>3. Owed(paths, path) = r[3]
    BY <1>15, <2>2, OwedIsBest DEF R
  <2> QED BY <1>8, <1>16, <2>1, <2>3
<1>17. CASE A = {} /\ B # {}
  <2> DEFINE n == Earliest(B)
             r == <<2, n, prefixes[n].backend>>
  <2>1. IsFirst(n, B) /\ FirstMatch(prefixes, B) = prefixes[n].backend
    BY <1>12, <1>17
  <2> HIDE DEF n
  <2>2. r \in R /\ Best(r, R)
    BY <1>5, <1>7, <1>17, <2>1 DEF Best, IsFirst
  <2>3. Owed(paths, path) = r[3]
    BY <1>15, <2>2, OwedIsBest DEF R
  <2>4. FirstMatch(prefixes, B) # NoBackend
    BY <1>11, <2>1 DEF IsFirst
  <2> QED BY <1>4, <1>8, <1>17, <2>1, <2>3, <2>4
<1>18. CASE A = {} /\ B = {} /\ C # {}
  <2> DEFINE n == Earliest(C)
             r == <<3, n, others[n].backend>>
  <2>1. IsFirst(n, C) /\ FirstMatch(others, C) = others[n].backend
    BY <1>13, <1>18
  <2> HIDE DEF n
  <2>2. r \in R /\ Best(r, R)
    BY <1>5, <1>7, <1>18, <2>1 DEF Best, IsFirst
  <2>3. Owed(paths, path) = r[3]
    BY <1>15, <2>2, OwedIsBest DEF R
  <2> QED BY <1>4, <1>8, <1>14, <1>18, <2>1, <2>3
<1>19. CASE A = {} /\ B = {} /\ C = {}
  <2>1. R = {}
    BY <1>5, <1>19
  <2> QED BY <1>4, <1>8, <1>9, <1>14, <1>19, <2>1
<1> QED BY <1>16, <1>17, <1>18, <1>19

\* A set of positions that is not empty has a last one.
LEMMA LastPosition ==
    ASSUME NEW T, NEW s \in Seq(T), NEW M \in SUBSET DOMAIN s, M # {}
    PROVE  Latest(M) \in M /\ \A m \in M : m <= Latest(M)
<1> DEFINE Mirror == {n \in DOMAIN s : Len(s) + 1 - n \in M}
<1>1. Len(s) \in Nat /\ DOMAIN s = 1..Len(s)
  OBVIOUS
<1>2. \A m \in M : m \in 1..Len(s) /\ Len(s) + 1 - m \in Mirror
  BY <1>1
<1>3. Mirror \in SUBSET DOMAIN s /\ Mirror # {}
  BY <1>2
<1>4. \A n \in Mirror : n \in 1..Len(s) /\ Len(s) + 1 - n \in M
  BY <1>1
<1> HIDE DEF Mirror
<1>5. PICK k \in Mirror : \A m \in Mirror : k <= m
  BY <1>3, FirstPosition
<1> DEFINE last == Len(s) + 1 - k
<1>6. last \in M
  BY <1>4, <1>5
<1>7. ASSUME NEW m \in M
      PROVE  m <= last
  <2>1. k <= Len(s) + 1 - m /\ k \in 1..Len(s) /\ m \in 1..Len(s)
    BY <1>2, <1>4, <1>5
  <2> QED BY <1>1, <2>1
<1> HIDE DEF last
<1> QED BY <1>6, <1>7 DEF Latest

\* The path of a request is a path when it is normalised.
LEMMA NormalisedIsPath ==
    ASSUME NEW p \in Path
    PROVE  Normalised(p) \in Path
<1> DEFINE kept == {n \in DOMAIN p : p[n] # Slash}
           last == Latest(kept)
<1>1. p \in Seq(Characters) /\ kept \in SUBSET DOMAIN p /\ DOMAIN p = 1..Len(p)
  BY DEF Path
<1>2. kept # {} => last \in kept
  <2> HIDE DEF kept
  <2> QED BY <1>1, LastPosition
<1>3. \A n \in 1..Len(p) : SubSeq(p, 1, n) \in Path
  BY DEF Path
<1>4. <<>> \in Path
  BY DEF Path
<1> HIDE DEF last
<1>5. kept # {} => SubSeq(p, 1, last) \in Path
  BY <1>1, <1>2, <1>3
<1> QED BY <1>4, <1>5 DEF Normalised, last

\* A slash at the end does not change what a path is normalised to, unless
\* the path is all slashes.
LEMMA SlashIsTrimmed ==
    ASSUME NEW p \in Path, p # Root, Normalised(p) # <<>>
    PROVE  Normalised(Append(p, Slash)) = Normalised(p)
<1> DEFINE q == Append(p, Slash)
           kept == {n \in DOMAIN p : p[n] # Slash}
           last == Latest(kept)
<1>1. /\ p \in Seq(Characters) /\ Len(p) \in Nat /\ DOMAIN p = 1..Len(p)
      /\ kept \in SUBSET DOMAIN p
      /\ Slash \in Characters
  BY PathMatchAssumption DEF Path
<1>2. /\ q \in Seq(Characters) /\ Len(q) = Len(p) + 1 /\ DOMAIN q = 1..(Len(p) + 1)
      /\ \A n \in 1..Len(p) : q[n] = p[n]
      /\ q[Len(p) + 1] = Slash
  BY <1>1
<1>3. {n \in DOMAIN q : q[n] # Slash} = kept
  BY <1>1, <1>2
<1> DEFINE left == {n \in DOMAIN q : q[n] # Slash}
<1>4. Len(p) # 0
  <2>1. Len(p) = 0 => p = <<>>
    BY <1>1
  <2>2. Len(p) = 0 => Normalised(p) = p
    BY DEF Normalised
  <2> QED BY <2>1, <2>2
<1>5. kept # {}
  <2>1. CASE Len(p) = 1
    <3>1. p = <<p[1]>>
      BY <1>1, <2>1
    <3>2. p[1] # Slash
      BY <3>1 DEF Root
    <3> QED BY <1>1, <2>1, <3>2
  <2>2. CASE Len(p) > 1
    BY <2>2 DEF Normalised
  <2> QED BY <1>1, <1>4, <2>1, <2>2
<1>6. Normalised(q) = SubSeq(q, 1, last)
  <2>1. Normalised(q) = IF Len(q) <= 1 THEN q
                        ELSE IF left = {} THEN <<>> ELSE SubSeq(q, 1, Latest(left))
    BY DEF Normalised
  <2>2. ~(Len(q) <= 1)
    BY <1>1, <1>2, <1>4
  <2> HIDE DEF left, kept
  <2> QED BY <1>3, <1>5, <2>1, <2>2 DEF left
<1>7. last \in kept /\ \A m \in kept : m <= last
  <2> HIDE DEF kept
  <2> QED BY <1>1, <1>5, LastPosition
<1>8. last \in 1..Len(p)
  BY <1>1, <1>7
<1> HIDE DEF last
<1>9. SubSeq(q, 1, last) = SubSeq(p, 1, last)
  <2> HIDE DEF q
  <2>1. /\ SubSeq(q, 1, last) \in Seq(Characters) /\ Len(SubSeq(q, 1, last)) = last
        /\ \A n \in 1..last : SubSeq(q, 1, last)[n] = q[n]
    BY <1>1, <1>2, <1>8
  <2>2. /\ SubSeq(p, 1, last) \in Seq(Characters) /\ Len(SubSeq(p, 1, last)) = last
        /\ \A n \in 1..last : SubSeq(p, 1, last)[n] = p[n]
    BY <1>1, <1>8
  <2>3. \A n \in 1..last : q[n] = p[n]
    BY <1>1, <1>2, <1>8
  <2> QED BY <2>1, <2>2, <2>3, SeqEqual
<1>10. Normalised(p) = SubSeq(p, 1, last)
  <2>1. CASE Len(p) = 1
    <3>1. last = 1
      BY <1>8, <2>1
    <3>2. SubSeq(p, 1, Len(p)) = p
      BY <1>1
    <3> QED BY <2>1, <3>1, <3>2 DEF Normalised
  <2>2. CASE Len(p) > 1
    <3>1. Normalised(p) = IF Len(p) <= 1 THEN p
                          ELSE IF kept = {} THEN <<>> ELSE SubSeq(p, 1, Latest(kept))
      BY DEF Normalised
    <3>2. ~(Len(p) <= 1)
      BY <1>1, <2>2
    <3>3. SubSeq(p, 1, last) = SubSeq(p, 1, Latest(kept))
      BY DEF last
    <3> HIDE DEF kept
    <3> QED BY <1>5, <3>1, <3>2, <3>3
  <2> QED BY <1>1, <1>4, <2>1, <2>2
<1> QED BY <1>6, <1>9, <1>10

\* What is found is what is owed, for every rule and every request.
LEMMA FindsAreDebts ==
    /\ Finds = Debts
    /\ \A p \in Slashable, paths \in DeclaredPaths :
          BackendOf(paths, Append(p, Slash)) = BackendOf(paths, p)
<1>1. \A paths \in DeclaredPaths : PathsOf[paths] \in HostPaths
  BY RouterAssumption
<1>2. \A p \in RequestPaths : p \in Path /\ Normalised(p) \in Path
  BY RouterAssumption, NormalisedIsPath
<1>3. \A paths \in DeclaredPaths, p \in RequestPaths :
         Find(PathsOf[paths], Normalised(p)) = Owed(PathsOf[paths], Normalised(p))
  BY <1>1, <1>2, FindIsOwed
<1>4. Finds = Debts
  BY <1>3 DEF Finds, Debts
<1>5. \A p \in Slashable : Normalised(Append(p, Slash)) = Normalised(p)
  BY <1>2, SlashIsTrimmed DEF Slashable
<1>6. \A p \in RequestPaths, paths \in DeclaredPaths :
         BackendOf(paths, p) = Find(PathsOf[paths], Normalised(p))
  BY DEF BackendOf, Finds
<1>7. \A p \in Slashable : p \in RequestPaths /\ Append(p, Slash) \in RequestPaths
  BY DEF Slashable
<1> QED BY <1>4, <1>5, <1>6, <1>7

\* AnswersAreOwed holds of every host whose entries have the right type.
LEMMA TypedHostsAnswerAsOwed == TypeOK => AnswersAreOwed
<1> SUFFICES ASSUME TypeOK, NEW h \in Hosts, NEW p \in RequestPaths
             PROVE  LET answer == Answer(h, p)
                        owing == Owing(hosts[h], p)
                        first == Earliest(owing)
                    IN  /\ answer = IF owing = {} THEN Absent
                                    ELSE <<hosts[h][first].ingress, Debts[hosts[h][first].paths][p]>>
                        /\ p \in Slashable => answer = Answer(h, Append(p, Slash))
  BY DEF AnswersAreOwed
<1> DEFINE entries == hosts[h]
           owing == Owing(entries, p)
           first == Earliest(owing)
<1>1. \A paths : BackendOf(paths, p) = Debts[paths][p]
  BY FindsAreDebts DEF BackendOf
<1>2. Matching(entries, p) = owing
  BY <1>1 DEF Matching, Owing
<1>3. Answer(h, p) = IF owing = {} THEN Absent
                     ELSE <<entries[first].ingress, Debts[entries[first].paths][p]>>
  <2>1. Answer(h, p) = IF Matching(entries, p) = {} THEN Absent
                       ELSE <<entries[Earliest(Matching(entries, p))].ingress,
                              BackendOf(entries[Earliest(Matching(entries, p))].paths, p)>>
    BY DEF Answer, AnswerOf
  <2> HIDE DEF owing
  <2> QED BY <1>1, <1>2, <2>1
<1>4. ASSUME p \in Slashable
      PROVE  Answer(h, p) = Answer(h, Append(p, Slash))
  <2> DEFINE q == Append(p, Slash)
             M == Matching(entries, p)
  <2>1. entries \in Seq(HostEntry)
    BY DEF TypeOK
  <2>2. \A n \in DOMAIN entries : entries[n].paths \in DeclaredPaths
    <3>1. \A e \in HostEntry : e.paths \in DeclaredPaths
      BY DEF HostEntry
    <3> HIDE DEF entries
    <3> QED BY <2>1, <3>1
  <2>3. \A n \in DOMAIN entries : BackendOf(entries[n].paths, q) = BackendOf(entries[n].paths, p)
    BY <1>4, <2>2, FindsAreDebts
  <2>4. Matching(entries, q) = M
    BY <2>3 DEF Matching
  <2> HIDE DEF q, M
  <2>5. CASE M = {}
    <3>1. AnswerOf(entries, p) = Absent /\ AnswerOf(entries, q) = Absent
      BY <2>1, <2>4, <2>5, AnswerOfFirst DEF M
    <3> QED BY <3>1 DEF Answer, q
  <2>6. CASE M # {}
    <3>1. PICK n : IsFirst(n, M)
      BY <2>1, <2>6, AnswerOfFirst DEF M
    <3>2. n \in DOMAIN entries
      BY <3>1 DEF IsFirst, Matching, M
    <3>3. AnswerOf(entries, p) = <<entries[n].ingress, BackendOf(entries[n].paths, p)>>
      BY <2>1, <3>1, AnswerOfFirst DEF M
    <3>4. AnswerOf(entries, q) = <<entries[n].ingress, BackendOf(entries[n].paths, q)>>
      BY <2>1, <2>4, <3>1, AnswerOfFirst DEF M
    <3> QED BY <2>3, <3>2, <3>3, <3>4 DEF Answer, q
  <2> QED BY <2>5, <2>6 DEF q
<1> QED BY <1>3, <1>4

\* AnswersAreOwed (find_route and HostPaths::find): every request is answered
\* by the first entry that has a rule for it, exact rules before prefixes
\* before the others, and with or without a slash at the end alike; for every
\* set of rules and every path.
THEOREM FindsWhatIsOwed == Spec => []AnswersAreOwed
<1>1. RInv => AnswersAreOwed
  BY TypedHostsAnswerAsOwed DEF RInv
<1> QED BY <1>1, RInvAlways, PTL
=============================================================================
