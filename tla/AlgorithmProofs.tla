-------------------------- MODULE AlgorithmProofs --------------------------
(***************************************************************************)
(* Theorems about three of the calculations, for inputs of every size: the *)
(* roles of build_topology, the fused cross entropy, its sums and its      *)
(* gradients, and the rows that the ragged dispatch sends and returns.     *)
(* The library's induction theorems take an operator; the lemmas here that *)
(* stand for them take the set of what has been shown.                     *)
(***************************************************************************)
EXTENDS MoriRoles, RaggedDispatch, EntropyKernels, FiniteSetTheorems, WellFoundedInduction, TLAPS
-----------------------------------------------------------------------------
(* Numbers, finite sets, and places in an order.                           *)

\* A set of numbers that is not empty has a least one.
LEMMA LeastNat == ASSUME NEW T \in SUBSET Nat, T # {} PROVE \E n \in T : \A m \in T : n <= m
<1> DEFINE R == OpToRel(<, Nat)
<1>1. IsWellFoundedOn(R, Nat)
  BY NatLessThanWellFounded
<1>2. \A m \in Nat, n \in Nat : m < n => <<m, n>> \in R
  BY DEF OpToRel
<1> HIDE DEF R
<1>3. PICK n \in T : \A m \in T : ~(<<m, n>> \in R)
  BY <1>1, WFMin
<1>4. \A m \in T : ~(m < n)
  BY <1>2, <1>3
<1> QED
  BY <1>4

\* Induction over the numbers, stated of a set.
LEMMA NatSets ==
  ASSUME NEW S \in SUBSET Nat, 0 \in S, \A n \in S : n + 1 \in S
  PROVE  S = Nat
<1>1. SUFFICES ASSUME Nat \ S # {} PROVE FALSE
  OBVIOUS
<1>2. PICK n \in Nat \ S : \A m \in Nat \ S : n <= m
  <2>1. Nat \ S \in SUBSET Nat
    OBVIOUS
  <2> QED
    BY <1>1, <2>1, LeastNat
<1>3. n # 0 /\ n - 1 \in Nat
  BY <1>2
<1>4. n - 1 \in S
  BY <1>2, <1>3
<1>5. (n - 1) + 1 \in S
  BY <1>4
<1> QED
  BY <1>2, <1>5

\* Induction up to n, stated of a set.
LEMMA UpToSets ==
  ASSUME NEW n \in Nat, NEW S, 1 \in S, \A i \in S : i \in 1 .. n - 1 => i + 1 \in S
  PROVE  1 .. n \subseteq S
<1> DEFINE T == {i \in Nat : i + 1 \in 1 .. n => i + 1 \in S}
<1>1. 0 \in T
  OBVIOUS
<1>2. \A i \in T : i + 1 \in T
  OBVIOUS
<1>3. T = Nat
  <2> HIDE DEF T
  <2>1. T \in SUBSET Nat
    BY DEF T
  <2> QED
    BY <1>1, <1>2, <2>1, NatSets
<1>4. SUFFICES ASSUME NEW i \in 1 .. n PROVE i \in S
  OBVIOUS
<1>5. i - 1 \in T
  <2> HIDE DEF T
  <2> QED
    BY <1>3
<1>6. (i - 1) + 1 = i
  OBVIOUS
<1> QED
  BY <1>5, <1>6

\* Induction over a finite set, stated of the set G of the sets for which a fact holds.
LEMMA FiniteSetsGrow ==
  ASSUME NEW S, IsFiniteSet(S), NEW G, {} \in G,
         \A T \in SUBSET S : \A x \in S \ T : T \in G => T \cup {x} \in G
  PROVE  S \in G
<1> DEFINE R == StrictSubsetOrdering(S)
<1>1. IsWellFoundedOn(R, FiniteSubsetsOf(S))
  BY FS_StrictSubsetOrderingWellFounded
<1>2. FiniteSubsetsOf(S) = SUBSET S
  BY FS_FiniteSubsetsOfFinite
<1>3. SUFFICES ASSUME (SUBSET S) \ G # {} PROVE FALSE
  OBVIOUS
<1>4. PICK T \in (SUBSET S) \ G : \A U \in (SUBSET S) \ G : ~(<<U, T>> \in R)
  <2> DEFINE Bad == (SUBSET S) \ G
             All == SUBSET S
  <2>1. Bad \subseteq All /\ Bad # {} /\ IsWellFoundedOn(R, All)
    BY <1>1, <1>2, <1>3
  <2> HIDE DEF R, Bad, All
  <2>2. \E T \in Bad : \A U \in Bad : ~(<<U, T>> \in R)
    BY <2>1, WFMin
  <2> QED
    BY <2>2 DEF Bad
<1>5. PICK x \in T : TRUE
  BY <1>4
<1>6. <<T \ {x}, T>> \in R
  BY <1>4, <1>5 DEF StrictSubsetOrdering
<1>7. T \ {x} \in G
  BY <1>4, <1>6
<1>8. (T \ {x}) \cup {x} \in G
  BY <1>4, <1>5, <1>7
<1>9. (T \ {x}) \cup {x} = T
  BY <1>5
<1> QED
  BY <1>4, <1>8, <1>9

\* The places of a strict total order.
Orders(Rel, S) ==
  /\ \A x, y \in S : x # y => <<x, y>> \in Rel \/ <<y, x>> \in Rel
  /\ \A x \in S : ~ <<x, x>> \in Rel
  /\ \A x, y, z \in S : <<x, y>> \in Rel /\ <<y, z>> \in Rel => <<x, z>> \in Rel

\* The elements of S below x; their number is the place of x.
Lower(Rel, S, x) == {y \in S : <<y, x>> \in Rel}

\* The places of the elements are 0, 1, ... in the order, each taken.
LEMMA Places ==
  ASSUME NEW S, IsFiniteSet(S), NEW Rel, Orders(Rel, S)
  PROVE  /\ Cardinality(S) \in Nat
         /\ \A x \in S : Cardinality(Lower(Rel, S, x)) \in 0 .. Cardinality(S) - 1
         /\ \A x, y \in S : <<x, y>> \in Rel => Cardinality(Lower(Rel, S, x)) < Cardinality(Lower(Rel, S, y))
         /\ \A k \in 0 .. Cardinality(S) - 1 : \E x \in S : Cardinality(Lower(Rel, S, x)) = k
<1> DEFINE n == Cardinality(S)
           place == [x \in S |-> Cardinality(Lower(Rel, S, x))]
<1>1. n \in Nat
  BY FS_CardinalityType
<1>2. \A x \in S : IsFiniteSet(Lower(Rel, S, x)) /\ Cardinality(Lower(Rel, S, x)) \in 0 .. n - 1
  <2> SUFFICES ASSUME NEW x \in S PROVE IsFiniteSet(Lower(Rel, S, x)) /\ Cardinality(Lower(Rel, S, x)) \in 0 .. n - 1
    OBVIOUS
  <2>1. Lower(Rel, S, x) \in SUBSET S /\ Lower(Rel, S, x) # S
    BY DEF Lower, Orders
  <2>2. IsFiniteSet(Lower(Rel, S, x)) /\ Cardinality(Lower(Rel, S, x)) <= n /\ Cardinality(Lower(Rel, S, x)) # n
    BY <2>1, FS_Subset
  <2>3. Cardinality(Lower(Rel, S, x)) \in Nat
    BY <2>2, FS_CardinalityType
  <2> QED
    BY <1>1, <2>2, <2>3
<1>3. \A x, y \in S : <<x, y>> \in Rel => Cardinality(Lower(Rel, S, x)) < Cardinality(Lower(Rel, S, y))
  <2> SUFFICES ASSUME NEW x \in S, NEW y \in S, <<x, y>> \in Rel
               PROVE  Cardinality(Lower(Rel, S, x)) < Cardinality(Lower(Rel, S, y))
    OBVIOUS
  <2>1. Lower(Rel, S, x) \in SUBSET Lower(Rel, S, y) /\ x \in Lower(Rel, S, y) /\ ~(x \in Lower(Rel, S, x))
    BY DEF Lower, Orders
  <2>2. Cardinality(Lower(Rel, S, x)) <= Cardinality(Lower(Rel, S, y))
        /\ Cardinality(Lower(Rel, S, x)) # Cardinality(Lower(Rel, S, y))
    BY <1>2, <2>1, FS_Subset
  <2>3. Cardinality(Lower(Rel, S, x)) \in Nat /\ Cardinality(Lower(Rel, S, y)) \in Nat
    BY <1>2, FS_CardinalityType
  <2> QED
    BY <2>2, <2>3
<1>4. IsFiniteSet(0 .. n - 1) /\ Cardinality(0 .. n - 1) = n
  BY <1>1, FS_Interval
<1>5. place \in Injection(S, 0 .. n - 1)
  <2>1. place \in [S -> 0 .. n - 1]
    BY <1>2
  <2>2. \A x, y \in S : place[x] = place[y] => x = y
    <3> SUFFICES ASSUME NEW x \in S, NEW y \in S, x # y PROVE place[x] # place[y]
      OBVIOUS
    <3>1. <<x, y>> \in Rel \/ <<y, x>> \in Rel
      BY DEF Orders
    <3>2. place[x] < place[y] \/ place[y] < place[x]
      BY <1>3, <3>1
    <3>3. place[x] \in Int /\ place[y] \in Int
      BY <2>1
    <3> QED
      BY <3>2, <3>3
  <2> HIDE DEF place
  <2> QED
    BY <2>1, <2>2 DEF Injection, IsInjective
<1>6. place \in Surjection(S, 0 .. n - 1)
  BY <1>4, <1>5, FS_Injection
<1>7. \A k \in 0 .. n - 1 : \E x \in S : place[x] = k
  BY <1>6 DEF Surjection
<1> QED
  BY <1>1, <1>2, <1>3, <1>7

-----------------------------------------------------------------------------
(* The lists of build_topology.                                            *)

\* Appended lists a finite set of worker numbers, each once.
LEMMA AppendedAll ==
  ASSUME NEW S \in SUBSET Nat, IsFiniteSet(S)
  PROVE  /\ Cardinality(S) \in Nat
         /\ Appended(S) \in [1 .. Cardinality(S) -> S]
         /\ \A k, l \in 1 .. Cardinality(S) : Appended(S)[k] = Appended(S)[l] => k = l
         /\ \A r \in S : \E k \in 1 .. Cardinality(S) : Appended(S)[k] = r
<1> DEFINE Rel == {x \in Nat \X Nat : x[1] < x[2]}
           n == Cardinality(S)
<1>1. Orders(Rel, S)
  BY DEF Orders
<1>2. \A r \in S : Lower(Rel, S, r) = {q \in S : q < r}
  BY DEF Lower
<1> HIDE DEF Rel
<1>3. /\ n \in Nat
      /\ \A x \in S : Cardinality(Lower(Rel, S, x)) \in 0 .. n - 1
      /\ \A x, y \in S : <<x, y>> \in Rel => Cardinality(Lower(Rel, S, x)) < Cardinality(Lower(Rel, S, y))
      /\ \A k \in 0 .. n - 1 : \E x \in S : Cardinality(Lower(Rel, S, x)) = k
  <2> HIDE DEF n
  <2>1. n = Cardinality(S)
    BY DEF n
  <2>2. Cardinality(S) \in Nat /\ \A x \in S : Cardinality(Lower(Rel, S, x)) \in 0 .. Cardinality(S) - 1
    BY <1>1, Places
  <2>3. \A x, y \in S : <<x, y>> \in Rel => Cardinality(Lower(Rel, S, x)) < Cardinality(Lower(Rel, S, y))
    BY <1>1, Places
  <2>4. \A k \in 0 .. Cardinality(S) - 1 : \E x \in S : Cardinality(Lower(Rel, S, x)) = k
    <3> DEFINE Has(T, R) == \A k \in 0 .. Cardinality(T) - 1 : \E x \in T : Cardinality(Lower(R, T, x)) = k
    <3>1. ASSUME NEW T, IsFiniteSet(T), NEW R, Orders(R, T) PROVE Has(T, R)
      BY <3>1, Places
    <3> HIDE DEF Has
    <3>2. Has(S, Rel)
      BY <1>1, <3>1
    <3> QED
      BY <3>2 DEF Has
  <2> QED
    BY <2>1, <2>2, <2>3, <2>4
<1> DEFINE place(r) == Cardinality({q \in S : q < r})
<1>4. \A r \in S : place(r) \in 0 .. n - 1
  BY <1>2, <1>3
<1>5. \A k \in 1 .. n : \E x \in S : place(x) = k - 1
  <2> SUFFICES ASSUME NEW k \in 1 .. n PROVE \E x \in S : place(x) = k - 1
    OBVIOUS
  <2>1. k - 1 \in 0 .. n - 1
    BY <1>3
  <2>2. PICK x \in S : Cardinality(Lower(Rel, S, x)) = k - 1
    BY <1>3, <2>1
  <2> QED
    BY <1>2, <2>2
<1>6. \A x, y \in S : place(x) = place(y) => x = y
  <2> SUFFICES ASSUME NEW x \in S, NEW y \in S, x # y PROVE place(x) # place(y)
    OBVIOUS
  <2>1. <<x, y>> \in Rel \/ <<y, x>> \in Rel
    BY <1>1 DEF Orders
  <2>2. Cardinality(Lower(Rel, S, x)) < Cardinality(Lower(Rel, S, y))
        \/ Cardinality(Lower(Rel, S, y)) < Cardinality(Lower(Rel, S, x))
    BY <1>3, <2>1
  <2>3. place(x) < place(y) \/ place(y) < place(x)
    BY <1>2, <2>2
  <2>4. place(x) \in Int /\ place(y) \in Int
    BY <1>4
  <2> QED
    BY <2>3, <2>4
<1> DEFINE app == [k \in 1 .. n |-> CHOOSE r \in S : place(r) = k - 1]
<1>7. Appended(S) = app
  BY DEF Appended
<1> HIDE DEF place
<1>8. \A k \in 1 .. n : app[k] \in S /\ place(app[k]) = k - 1
  BY <1>5
<1>9. app \in [1 .. n -> S]
  BY <1>8
<1>10. \A r \in S : place(r) + 1 \in 1 .. n /\ app[place(r) + 1] = r
  <2> SUFFICES ASSUME NEW r \in S PROVE place(r) + 1 \in 1 .. n /\ app[place(r) + 1] = r
    OBVIOUS
  <2>1. place(r) + 1 \in 1 .. n /\ (place(r) + 1) - 1 = place(r)
    BY <1>3, <1>4
  <2> HIDE DEF app
  <2>2. app[place(r) + 1] \in S /\ place(app[place(r) + 1]) = place(r)
    BY <1>8, <2>1
  <2> QED
    BY <1>6, <2>1, <2>2
<1>11. \A k, l \in 1 .. n : app[k] = app[l] => k = l
  <2> HIDE DEF app
  <2> SUFFICES ASSUME NEW k \in 1 .. n, NEW l \in 1 .. n, app[k] = app[l] PROVE k = l
    OBVIOUS
  <2>1. k - 1 = l - 1
    BY <1>8
  <2> QED
    BY <1>3, <2>1
<1> HIDE DEF app, n
<1>12. \A r \in S : \E k \in 1 .. n : app[k] = r
  BY <1>10
<1> QED
  BY <1>3, <1>7, <1>9, <1>11, <1>12 DEF n

\* The length of a sequence that is given as a function.
LEMMA LenOf ==
  ASSUME NEW n \in Nat, NEW S, NEW f \in [1 .. n -> S]
  PROVE  Len(f) = n
<1>1. f \in Seq(S)
  OBVIOUS
<1> QED
  BY <1>1

\* A placement of at least one rollout worker.
Placed(nd) == \E n \in Nat \ {0} : nd \in [Below(n) -> Nodes]

\* The nodes that have a rollout worker.
Homes(nd) == {nd[r] : r \in Indices(nd)}

\* There is a worker 0, and the workers are finitely many.
LEMMA PlacedAll ==
  ASSUME NEW nd, Placed(nd)
  PROVE  /\ Indices(nd) \in SUBSET Nat /\ IsFiniteSet(Indices(nd)) /\ 0 \in Indices(nd)
<1>1. PICK n \in Nat \ {0} : nd \in [Below(n) -> Nodes]
  BY DEF Placed
<1>2. Indices(nd) = 0 .. n - 1
  BY <1>1 DEF Below, Indices
<1> QED
  BY <1>1, <1>2, FS_Interval

\* Members lists a node's workers, of which there is one at least.
LEMMA MembersAll ==
  ASSUME NEW nd, Placed(nd), NEW x \in Homes(nd)
  PROVE  \E m \in Nat \ {0} :
           /\ Members(nd, x) \in [1 .. m -> {r \in Indices(nd) : nd[r] = x}]
           /\ Len(Members(nd, x)) = m
<1> DEFINE S == {r \in Indices(nd) : nd[r] = x}
<1>1. S \in SUBSET Nat /\ IsFiniteSet(S)
  <2>1. S \in SUBSET Indices(nd)
    OBVIOUS
  <2> HIDE DEF S
  <2> QED
    BY <2>1, PlacedAll, FS_Subset
<1>2. S # {}
  BY DEF Homes
<1>3. Members(nd, x) = Appended(S)
  BY DEF Members
<1> HIDE DEF S
<1>4. Cardinality(S) \in Nat \ {0} /\ Appended(S) \in [1 .. Cardinality(S) -> S]
  BY <1>1, <1>2, AppendedAll, FS_EmptySet
<1>5. Len(Appended(S)) = Cardinality(S)
  BY <1>4, LenOf
<1> QED
  BY <1>3, <1>4, <1>5 DEF S

\* NodeList has every node with a worker, once.
LEMMA NodeListAll ==
  ASSUME NEW nd, Placed(nd)
  PROVE  \E n \in Nat \ {0} :
           /\ NodeList(nd) \in [1 .. n -> Homes(nd)] /\ Len(NodeList(nd)) = n
           /\ \A k, l \in 1 .. n : NodeList(nd)[k] = NodeList(nd)[l] => k = l
           /\ \A x \in Homes(nd) : \E k \in 1 .. n : NodeList(nd)[k] = x
<1> DEFINE F == {r \in Indices(nd) : \A q \in Indices(nd) : nd[q] = nd[r] => r <= q}
           n == Cardinality(F)
           a == Appended(F)
<1>1. F \in SUBSET Nat /\ IsFiniteSet(F)
  <2>1. F \in SUBSET Indices(nd)
    OBVIOUS
  <2> HIDE DEF F
  <2> QED
    BY <2>1, PlacedAll, FS_Subset
<1>2. \A x \in Homes(nd) : \E r \in F : nd[r] = x
  <2> SUFFICES ASSUME NEW x \in Homes(nd) PROVE \E r \in F : nd[r] = x
    OBVIOUS
  <2> DEFINE T == {r \in Indices(nd) : nd[r] = x}
  <2>1. T \in SUBSET Nat /\ T # {}
    BY PlacedAll DEF Homes
  <2> HIDE DEF T
  <2>2. PICK r \in T : \A q \in T : r <= q
    BY <2>1, LeastNat
  <2>3. r \in F /\ nd[r] = x
    BY <2>2 DEF T
  <2> QED
    BY <2>3
<1>3. \A r \in F, q \in F : nd[r] = nd[q] => r = q
  <2> SUFFICES ASSUME NEW r \in F, NEW q \in F, nd[r] = nd[q] PROVE r = q
    OBVIOUS
  <2>1. r <= q /\ q <= r /\ r \in Nat /\ q \in Nat
    BY PlacedAll
  <2> QED
    BY <2>1
<1>4. \A r \in F : nd[r] \in Homes(nd)
  BY DEF Homes
<1>5. F # {}
  BY <1>2, PlacedAll DEF Homes
<1> HIDE DEF F
<1>6. /\ n \in Nat /\ a \in [1 .. n -> F]
      /\ \A k, l \in 1 .. n : a[k] = a[l] => k = l
      /\ \A r \in F : \E k \in 1 .. n : a[k] = r
  BY <1>1, AppendedAll
<1>7. n # 0
  BY <1>1, <1>5, FS_EmptySet
<1>8. NodeList(nd) = [k \in DOMAIN a |-> nd[a[k]]]
  BY DEF NodeList, F
<1> HIDE DEF n, a
<1>9. NodeList(nd) = [k \in 1 .. n |-> nd[a[k]]]
  BY <1>6, <1>8
<1>10. NodeList(nd) \in [1 .. n -> Homes(nd)]
  BY <1>4, <1>6, <1>9
<1>11. Len(NodeList(nd)) = n
  BY <1>6, <1>10, LenOf
<1>12. \A k, l \in 1 .. n : NodeList(nd)[k] = NodeList(nd)[l] => k = l
  BY <1>3, <1>6, <1>9
<1>13. \A x \in Homes(nd) : \E k \in 1 .. n : NodeList(nd)[k] = x
  BY <1>2, <1>6, <1>9
<1> QED
  BY <1>6, <1>7, <1>10, <1>11, <1>12, <1>13

\* One holder on every node.
HoldersOk(nd, hs, n) ==
  /\ n \in Nat \ {0} /\ hs \in [1 .. n -> Indices(nd)] /\ Len(hs) = n
  /\ \A k, l \in 1 .. n : nd[hs[k]] = nd[hs[l]] => k = l
  /\ \A r \in Indices(nd) : \E k \in 1 .. n : nd[hs[k]] = nd[r]

\* The rotation of the nodes from stripe to stripe is one to one.
LEMMA Rotation ==
  ASSUME NEW n \in Nat \ {0}, NEW c \in Nat
  PROVE  /\ \A i \in 1 .. n : ((i - 1 + c) % n) + 1 \in 1 .. n
         /\ \A i, j \in 1 .. n : ((i - 1 + c) % n) + 1 = ((j - 1 + c) % n) + 1 => i = j
         /\ \A k \in 1 .. n : \E i \in 1 .. n : ((i - 1 + c) % n) + 1 = k
<1>1. \A a \in Nat : a % n \in 0 .. n - 1 /\ a = n * (a \div n) + (a % n) /\ a \div n \in Nat
  OBVIOUS
<1>2. \A a, b \in Nat : a < b /\ b < a + n => a % n # b % n
  <2> SUFFICES ASSUME NEW a \in Nat, NEW b \in Nat, a < b, b < a + n, a % n = b % n PROVE FALSE
    OBVIOUS
  <2> DEFINE q == b \div n - a \div n
  <2>1. b - a = n * q /\ q \in Int
    BY <1>1
  <2> HIDE DEF q
  <2>2. n * q > 0 /\ n * q < n
    BY <2>1
  <2>3. q > 0 \/ q <= 0
    BY <2>1
  <2>4. CASE q > 0
    <3>1. n * q >= n
      BY <2>1, <2>4
    <3> QED
      BY <2>2, <3>1, <2>1
  <2>5. CASE q <= 0
    <3>1. n * q <= 0
      BY <2>1, <2>5
    <3> QED
      BY <2>2, <3>1, <2>1
  <2> QED
    BY <2>3, <2>4, <2>5
<1>3. \A i \in 1 .. n : ((i - 1 + c) % n) + 1 \in 1 .. n
  BY <1>1
<1>4. \A i, j \in 1 .. n : ((i - 1 + c) % n) + 1 = ((j - 1 + c) % n) + 1 => i = j
  <2> SUFFICES ASSUME NEW i \in 1 .. n, NEW j \in 1 .. n, i < j,
                      ((i - 1 + c) % n) + 1 = ((j - 1 + c) % n) + 1
               PROVE  FALSE
    OBVIOUS
  <2>1. i - 1 + c \in Nat /\ j - 1 + c \in Nat /\ i - 1 + c < j - 1 + c /\ j - 1 + c < i - 1 + c + n
    OBVIOUS
  <2>2. (i - 1 + c) % n # (j - 1 + c) % n
    BY <1>2, <2>1
  <2>3. (i - 1 + c) % n \in Int /\ (j - 1 + c) % n \in Int
    BY <1>1, <2>1
  <2> QED
    BY <2>2, <2>3
<1>5. \A k \in 1 .. n : \E i \in 1 .. n : ((i - 1 + c) % n) + 1 = k
  <2> DEFINE f == [i \in 1 .. n |-> ((i - 1 + c) % n) + 1]
  <2>1. f \in [1 .. n -> 1 .. n]
    BY <1>3
  <2>2. \A i, j \in 1 .. n : f[i] = f[j] => i = j
    BY <1>4
  <2>3. \A k \in 1 .. n : f[k] = ((k - 1 + c) % n) + 1
    OBVIOUS
  <2> HIDE DEF f
  <2>4. f \in Injection(1 .. n, 1 .. n)
    BY <2>1, <2>2 DEF Injection, IsInjective
  <2>5. f \in Surjection(1 .. n, 1 .. n)
    BY <2>4, FS_Interval, FS_Injection
  <2> QED
    BY <2>3, <2>5 DEF Surjection
<1> QED
  BY <1>3, <1>4, <1>5

-----------------------------------------------------------------------------
(* The roles of build_topology.                                            *)

\* The holders of a stripe are one worker of each node that has any.
LEMMA HoldersAll ==
  ASSUME NEW nd, Placed(nd), NEW c \in Nat
  PROVE  \E n \in Nat : HoldersOk(nd, Holders(nd, c), n)
<1> DEFINE list == NodeList(nd)
           order == ChainOrder(nd, c)
           hs == Holders(nd, c)
<1>1. PICK n \in Nat \ {0} :
        /\ list \in [1 .. n -> Homes(nd)] /\ Len(list) = n
        /\ \A k, l \in 1 .. n : list[k] = list[l] => k = l
        /\ \A x \in Homes(nd) : \E k \in 1 .. n : list[k] = x
  BY NodeListAll
<1> DEFINE turn(i) == ((i - 1 + c) % n) + 1
<1>2. /\ \A i \in 1 .. n : turn(i) \in 1 .. n
      /\ \A i, j \in 1 .. n : turn(i) = turn(j) => i = j
      /\ \A k \in 1 .. n : \E i \in 1 .. n : turn(i) = k
  BY Rotation
<1>3. order = [i \in 1 .. n |-> list[turn(i)]]
  BY <1>1 DEF ChainOrder
<1> HIDE DEF turn, list, order
<1>4. /\ order \in [1 .. n -> Homes(nd)]
      /\ \A k, l \in 1 .. n : order[k] = order[l] => k = l
      /\ \A x \in Homes(nd) : \E k \in 1 .. n : order[k] = x
  <2>1. order \in [1 .. n -> Homes(nd)]
    BY <1>1, <1>2, <1>3
  <2>2. ASSUME NEW k \in 1 .. n, NEW l \in 1 .. n, order[k] = order[l] PROVE k = l
    <3>1. list[turn(k)] = list[turn(l)]
      BY <1>3, <2>2
    <3>2. turn(k) = turn(l)
      BY <1>1, <1>2, <3>1
    <3> QED
      BY <1>2, <3>2
  <2>3. \A x \in Homes(nd) : \E k \in 1 .. n : order[k] = x
    BY <1>1, <1>2, <1>3
  <2> QED
    BY <2>1, <2>2, <2>3
<1>5. hs = [i \in 1 .. n |-> Members(nd, order[i])[(c % Len(Members(nd, order[i]))) + 1]]
  BY <1>4 DEF Holders, order
<1>6. \A i \in 1 .. n : hs[i] \in Indices(nd) /\ nd[hs[i]] = order[i]
  <2> SUFFICES ASSUME NEW i \in 1 .. n PROVE hs[i] \in Indices(nd) /\ nd[hs[i]] = order[i]
    OBVIOUS
  <2>1. order[i] \in Homes(nd)
    BY <1>4
  <2>2. PICK m \in Nat \ {0} : /\ Members(nd, order[i]) \in [1 .. m -> {r \in Indices(nd) : nd[r] = order[i]}]
                               /\ Len(Members(nd, order[i])) = m
    BY <2>1, MembersAll
  <2>3. (c % m) + 1 \in 1 .. m
    OBVIOUS
  <2>4. hs[i] = Members(nd, order[i])[(c % m) + 1]
    BY <1>5, <2>2
  <2> HIDE DEF hs
  <2> QED
    BY <2>2, <2>3, <2>4
<1> HIDE DEF hs
<1>7. hs \in [1 .. n -> Indices(nd)]
  <2>1. DOMAIN hs = 1 .. n /\ hs = [i \in 1 .. n |-> hs[i]]
    BY <1>5 DEF hs
  <2> QED
    BY <1>6, <2>1
<1>8. Len(hs) = n
  BY <1>1, <1>7, LenOf
<1>9. \A k, l \in 1 .. n : nd[hs[k]] = nd[hs[l]] => k = l
  BY <1>4, <1>6
<1>10. \A r \in Indices(nd) : \E k \in 1 .. n : nd[hs[k]] = nd[r]
  <2> SUFFICES ASSUME NEW r \in Indices(nd) PROVE \E k \in 1 .. n : nd[hs[k]] = nd[r]
    OBVIOUS
  <2>1. nd[r] \in Homes(nd)
    BY DEF Homes
  <2>2. PICK k \in 1 .. n : order[k] = nd[r]
    BY <1>4, <2>1
  <2> QED
    BY <1>6, <2>2
<1>11. HoldersOk(nd, hs, n)
  BY <1>1, <1>7, <1>8, <1>9, <1>10 DEF HoldersOk
<1> QED
  BY <1>1, <1>11 DEF hs

\* What a rollout worker is told about a stripe.
LEMMA RoleOf ==
  ASSUME NEW nd, NEW c \in Nat, NEW n, HoldersOk(nd, Holders(nd, c), n), NEW x \in Indices(nd)
  PROVE  \E k \in 1 .. n :
           /\ nd[Holders(nd, c)[k]] = nd[x]
           /\ Holders(nd, c)[k] = x =>
                /\ RolloutRole(nd, c, x).nexts =
                     (IF k < n THEN {Holders(nd, c)[k + 1]} ELSE {}) \cup Locals(nd, x)
                /\ RolloutRole(nd, c, x).prev = IF k = 1 THEN Actor(c) ELSE Rollout(Holders(nd, c)[k - 1])
           /\ Holders(nd, c)[k] # x =>
                /\ RolloutRole(nd, c, x).nexts = {}
                /\ RolloutRole(nd, c, x).prev = Rollout(Holders(nd, c)[k])
<1> DEFINE hs == Holders(nd, c)
<1>1. /\ n \in Nat \ {0} /\ hs \in [1 .. n -> Indices(nd)] /\ Len(hs) = n
      /\ \A r \in Indices(nd) : \E k \in 1 .. n : nd[hs[k]] = nd[r]
  BY DEF HoldersOk
<1> DEFINE k == CHOOSE i \in 1 .. Len(hs) : nd[hs[i]] = nd[x]
<1>2. k \in 1 .. n /\ nd[hs[k]] = nd[x]
  <2>1. \E i \in 1 .. Len(hs) : nd[hs[i]] = nd[x]
    BY <1>1
  <2> QED
    BY <1>1, <2>1
<1>3. RolloutRole(nd, c, x) = IF hs[k] = x THEN HolderRole(nd, c, k) ELSE [prev |-> Rollout(hs[k]), nexts |-> {}]
  BY DEF RolloutRole
<1>4. HolderRole(nd, c, k) = [prev  |-> IF k = 1 THEN Actor(c) ELSE Rollout(hs[k - 1]),
                              nexts |-> (IF k < n THEN {hs[k + 1]} ELSE {}) \cup Locals(nd, hs[k])]
  BY <1>1 DEF HolderRole
<1> HIDE DEF k, hs
<1>5. hs[k] = x => /\ RolloutRole(nd, c, x).nexts = (IF k < n THEN {hs[k + 1]} ELSE {}) \cup Locals(nd, x)
                   /\ RolloutRole(nd, c, x).prev = IF k = 1 THEN Actor(c) ELSE Rollout(hs[k - 1])
  BY <1>3, <1>4
<1>6. hs[k] # x => /\ RolloutRole(nd, c, x).nexts = {}
                   /\ RolloutRole(nd, c, x).prev = Rollout(hs[k])
  BY <1>3
<1> QED
  BY <1>2, <1>5, <1>6 DEF hs

\* One stripe of a topology.
LEMMA StripeReaches ==
  ASSUME NEW nd, Placed(nd), NEW c \in Nat, NEW S \in SUBSET Indices(nd),
         ActorRole(nd, c).nexts \subseteq S,
         \A x \in S : RolloutRole(nd, c, x).nexts \subseteq S
  PROVE  S = Indices(nd)
<1> DEFINE hs == Holders(nd, c)
<1>1. PICK n \in Nat : HoldersOk(nd, hs, n)
  BY HoldersAll
<1>2. /\ n \in Nat \ {0} /\ hs \in [1 .. n -> Indices(nd)] /\ Len(hs) = n
      /\ \A k, l \in 1 .. n : nd[hs[k]] = nd[hs[l]] => k = l
  BY <1>1 DEF HoldersOk
<1>3. \A i \in 1 .. n :
        RolloutRole(nd, c, hs[i]).nexts = (IF i < n THEN {hs[i + 1]} ELSE {}) \cup Locals(nd, hs[i])
  <2> SUFFICES ASSUME NEW i \in 1 .. n
               PROVE  RolloutRole(nd, c, hs[i]).nexts = (IF i < n THEN {hs[i + 1]} ELSE {}) \cup Locals(nd, hs[i])
    OBVIOUS
  <2>1. hs[i] \in Indices(nd)
    BY <1>2
  <2>2. PICK k \in 1 .. n :
           /\ nd[hs[k]] = nd[hs[i]]
           /\ hs[k] = hs[i] =>
                RolloutRole(nd, c, hs[i]).nexts = (IF k < n THEN {hs[k + 1]} ELSE {}) \cup Locals(nd, hs[i])
    BY <1>1, <2>1, RoleOf
  <2>3. k = i
    BY <1>2, <2>2
  <2> QED
    BY <2>2, <2>3
<1> DEFINE T == {i \in 1 .. n : hs[i] \in S}
<1>4. 1 \in T
  BY <1>2 DEF ActorRole
<1>5. \A i \in T : i \in 1 .. n - 1 => i + 1 \in T
  <2> SUFFICES ASSUME NEW i \in T, i \in 1 .. n - 1 PROVE i + 1 \in T
    OBVIOUS
  <2>1. i \in 1 .. n /\ hs[i] \in S /\ i < n /\ i + 1 \in 1 .. n
    BY <1>2
  <2>2. hs[i + 1] \in RolloutRole(nd, c, hs[i]).nexts
    BY <1>3, <2>1
  <2>3. hs[i + 1] \in S
    BY <2>1, <2>2
  <2> QED
    BY <2>1, <2>3
<1>6. 1 .. n \subseteq T
  <2> HIDE DEF T
  <2> QED
    BY <1>2, <1>4, <1>5, UpToSets
<1>7. \A i \in 1 .. n : hs[i] \in S
  BY <1>6
<1>8. SUFFICES ASSUME NEW r \in Indices(nd) PROVE r \in S
  OBVIOUS
<1>9. PICK k \in 1 .. n : nd[hs[k]] = nd[r]
  BY <1>1 DEF HoldersOk
<1>10. CASE r = hs[k]
  BY <1>7, <1>10
<1>11. CASE r # hs[k]
  <2>1. r \in Locals(nd, hs[k])
    BY <1>9, <1>11 DEF Locals
  <2>2. r \in RolloutRole(nd, c, hs[k]).nexts
    BY <1>3, <2>1
  <2> QED
    BY <1>7, <2>2
<1> QED
  BY <1>10, <1>11

\* No hop of a stripe leads anywhere but to a rollout worker.
LEMMA StripeStaysIn ==
  ASSUME NEW nd, Placed(nd), NEW c \in Nat
  PROVE  /\ ActorRole(nd, c).nexts \subseteq Indices(nd)
         /\ \A x \in Indices(nd) : RolloutRole(nd, c, x).nexts \subseteq Indices(nd)
<1> DEFINE hs == Holders(nd, c)
<1>1. PICK n \in Nat : HoldersOk(nd, hs, n)
  BY HoldersAll
<1>2. n \in Nat \ {0} /\ hs \in [1 .. n -> Indices(nd)]
  BY <1>1 DEF HoldersOk
<1>3. ActorRole(nd, c).nexts \subseteq Indices(nd)
  BY <1>2 DEF ActorRole
<1>4. ASSUME NEW x \in Indices(nd) PROVE RolloutRole(nd, c, x).nexts \subseteq Indices(nd)
  <2>1. PICK k \in 1 .. n :
           /\ hs[k] = x =>
                RolloutRole(nd, c, x).nexts = (IF k < n THEN {hs[k + 1]} ELSE {}) \cup Locals(nd, x)
           /\ hs[k] # x => RolloutRole(nd, c, x).nexts = {}
    BY <1>1, RoleOf
  <2>2. k < n => hs[k + 1] \in Indices(nd)
    BY <1>2
  <2>3. Locals(nd, x) \subseteq Indices(nd)
    BY DEF Locals
  <2> QED
    BY <2>1, <2>2, <2>3
<1> QED
  BY <1>3, <1>4

\* FedFromOutside, of a role that is computed.
Outside(nd, c, r) == LET prev == RolloutRole(nd, c, r).prev IN prev.kind = "actor" \/ nd[prev.id] # nd[r]

\* One worker of a node is fed from outside it: the node's holder.
LEMMA NodeFedOnce ==
  ASSUME NEW nd, Placed(nd), NEW c \in Nat, NEW x \in Indices(nd)
  PROVE  Cardinality({r \in Indices(nd) : nd[r] = nd[x] /\ Outside(nd, c, r)}) = 1
<1> DEFINE hs == Holders(nd, c)
<1>1. PICK n \in Nat : HoldersOk(nd, hs, n)
  BY HoldersAll
<1>2. /\ n \in Nat \ {0} /\ hs \in [1 .. n -> Indices(nd)] /\ Len(hs) = n
      /\ \A k, l \in 1 .. n : nd[hs[k]] = nd[hs[l]] => k = l
  BY <1>1 DEF HoldersOk
<1>3. PICK k \in 1 .. n : nd[hs[k]] = nd[x]
  BY <1>1 DEF HoldersOk
<1>4. \A r \in Indices(nd) : nd[r] = nd[x] => (Outside(nd, c, r) <=> r = hs[k])
  <2> SUFFICES ASSUME NEW r \in Indices(nd), nd[r] = nd[x] PROVE Outside(nd, c, r) <=> r = hs[k]
    OBVIOUS
  <2>1. PICK l \in 1 .. n :
           /\ nd[hs[l]] = nd[r]
           /\ hs[l] = r => RolloutRole(nd, c, r).prev = IF l = 1 THEN Actor(c) ELSE Rollout(hs[l - 1])
           /\ hs[l] # r => RolloutRole(nd, c, r).prev = Rollout(hs[l])
    BY <1>1, RoleOf
  <2>2. l = k
    BY <1>2, <1>3, <2>1
  <2> HIDE DEF hs
  <2>3. CASE hs[k] = r
    <3>1. CASE k = 1
      BY <2>1, <2>2, <2>3, <3>1 DEF Outside, Actor
    <3>2. CASE k # 1
      <4>1. k - 1 \in 1 .. n /\ k - 1 # k
        BY <3>2
      <4>2. nd[hs[k - 1]] # nd[hs[k]]
        BY <1>2, <4>1
      <4>3. RolloutRole(nd, c, r).prev.id = hs[k - 1]
        BY <2>1, <2>2, <2>3, <3>2 DEF Rollout
      <4> QED
        BY <2>3, <4>2, <4>3 DEF Outside
    <3> QED
      BY <3>1, <3>2
  <2>4. CASE hs[k] # r
    <3>1. RolloutRole(nd, c, r).prev.id = hs[k] /\ RolloutRole(nd, c, r).prev.kind = "rollout"
      BY <2>1, <2>2, <2>4 DEF Rollout
    <3> QED
      BY <1>3, <2>4, <3>1 DEF Outside
  <2> QED
    BY <2>3, <2>4
<1>5. {r \in Indices(nd) : nd[r] = nd[x] /\ Outside(nd, c, r)} = {hs[k]}
  BY <1>2, <1>3, <1>4
<1> QED
  BY <1>5, FS_Singleton

\* Once built, the roles are those of build_topology for the inputs.
RolesInv == roles # <<>> =>
  Placed(node) /\ actors \in Nat /\ chains \in Nat /\ roles = BuildTopology(actors, chains, node)

\* RolesInv is an invariant.
LEMMA RolesInvHolds == RolesSpec => []RolesInv
<1>1. RolesInit => RolesInv
  BY DEF RolesInit, RolesInv
<1>2. RolesInv /\ [Build]_topology => RolesInv'
  <2> SUFFICES ASSUME RolesInv, [Build]_topology PROVE RolesInv'
    OBVIOUS
  <2>1. CASE Build
    <3>1. actors' \in Nat /\ chains' \in Nat /\ roles' = BuildTopology(actors', chains', node')
      BY <2>1, BoundsAssumption DEF Build
    <3>2. PICK n \in 1 .. MaxRollouts : node' \in [Below(n) -> Nodes]
      BY <2>1 DEF Build
    <3>3. Placed(node')
      BY <3>2, BoundsAssumption DEF Placed
    <3> QED
      BY <3>1, <3>3 DEF RolesInv
  <2>2. CASE UNCHANGED topology
    BY <2>2 DEF topology, RolesInv
  <2> QED
    BY <2>1, <2>2
<1> QED
  BY <1>1, <1>2, PTL DEF RolesSpec

\* What BuildTopology hands out for a stripe are the leader's and the workers' roles.
LEMMA StripesAreRoles ==
  ASSUME NEW nd, Placed(nd), NEW a \in Nat, NEW ch \in Nat, NEW c \in Below(NumStripes(a, ch))
  PROVE  /\ c \in Nat
         /\ BuildTopology(a, ch, nd).lead[c] = ActorRole(nd, c)
         /\ \A x \in Indices(nd) : BuildTopology(a, ch, nd).rollout[c, x] = RolloutRole(nd, c, x)
<1>1. c \in Nat
  BY DEF Below, NumStripes
<1>2. BuildTopology(a, ch, nd).lead = [s \in Below(NumStripes(a, ch)) |-> ActorRole(nd, s)]
  BY DEF BuildTopology
<1>3. BuildTopology(a, ch, nd).rollout
        = [x \in Below(NumStripes(a, ch)) \X Indices(nd) |-> RolloutRole(nd, x[1], x[2])]
  BY DEF BuildTopology
<1>4. \A x \in Indices(nd) : BuildTopology(a, ch, nd).rollout[c, x] = RolloutRole(nd, c, x)
  BY <1>3
<1> QED
  BY <1>1, <1>2, <1>4

\* Whatever the trainers, stripes and placement, build_topology sends every stripe to every
\* rollout worker, and into every node once.
THEOREM EveryNodeIsFedOnce == RolesSpec => []EveryNodeFedOnce
<1>1. RolesInv => EveryNodeFedOnce
  <2> SUFFICES ASSUME RolesInv, roles # <<>>, NEW c \in DOMAIN roles.lead
               PROVE  /\ Hops(c, Indices(node)) \subseteq Indices(node)
                      /\ \A S \in SUBSET Indices(node) : Hops(c, S) \subseteq S => S = Indices(node)
                      /\ \A x \in Indices(node) :
                           Cardinality({r \in Indices(node) : node[r] = node[x] /\ FedFromOutside(c, r)}) = 1
    BY DEF EveryNodeFedOnce
  <2>1. Placed(node) /\ actors \in Nat /\ chains \in Nat /\ roles = BuildTopology(actors, chains, node)
    BY DEF RolesInv
  <2>2. c \in Below(NumStripes(actors, chains))
    BY <2>1 DEF BuildTopology
  <2>3. /\ c \in Nat /\ roles.lead[c] = ActorRole(node, c)
        /\ \A x \in Indices(node) : roles.rollout[c, x] = RolloutRole(node, c, x)
    BY <2>1, <2>2, StripesAreRoles
  <2>4. Hops(c, Indices(node)) \subseteq Indices(node)
    <3>1. \A x \in Indices(node) : roles.rollout[c, x].nexts \subseteq Indices(node)
      BY <2>1, <2>3, StripeStaysIn
    <3>2. roles.lead[c].nexts \subseteq Indices(node)
      BY <2>1, <2>3, StripeStaysIn
    <3> QED
      BY <3>1, <3>2 DEF Hops
  <2>5. ASSUME NEW S \in SUBSET Indices(node), Hops(c, S) \subseteq S PROVE S = Indices(node)
    <3>1. ActorRole(node, c).nexts \subseteq S
      BY <2>3, <2>5 DEF Hops
    <3>2. \A x \in S : RolloutRole(node, c, x).nexts \subseteq S
      <4> SUFFICES ASSUME NEW x \in S, NEW y \in RolloutRole(node, c, x).nexts PROVE y \in S
        OBVIOUS
      <4>1. y \in roles.rollout[c, x].nexts
        BY <2>3
      <4> QED
        BY <2>5, <4>1 DEF Hops
    <3> QED
      BY <2>1, <2>3, <3>1, <3>2, StripeReaches
  <2>6. ASSUME NEW x \in Indices(node)
        PROVE  Cardinality({r \in Indices(node) : node[r] = node[x] /\ FedFromOutside(c, r)}) = 1
    <3>1. \A r \in Indices(node) : FedFromOutside(c, r) <=> Outside(node, c, r)
      BY <2>3 DEF FedFromOutside, Outside
    <3>2. {r \in Indices(node) : node[r] = node[x] /\ FedFromOutside(c, r)}
            = {r \in Indices(node) : node[r] = node[x] /\ Outside(node, c, r)}
      BY <3>1
    <3> QED
      BY <2>1, <2>3, <3>2, NodeFedOnce
  <2> QED
    BY <2>4, <2>5, <2>6
<1> QED
  BY <1>1, RolesInvHolds, PTL

-----------------------------------------------------------------------------
(* The tiles of a kernel and who visits them.                              *)

\* Quotient and remainder.
LEMMA DivMod ==
  ASSUME NEW a \in Nat, NEW n \in Nat \ {0}
  PROVE  a \div n \in Nat /\ a % n \in 0 .. n - 1 /\ a = n * (a \div n) + (a % n)
OBVIOUS

\* Quotient and remainder are unique.
LEMMA DivOf ==
  ASSUME NEW n \in Nat \ {0}, NEW q \in Nat, NEW r \in 0 .. n - 1
  PROVE  (n * q + r) \div n = q /\ (n * q + r) % n = r
<1> DEFINE a == n * q + r
           d == a \div n
           m == a % n
<1>1. a \in Nat
  OBVIOUS
<1>2. d \in Nat /\ m \in 0 .. n - 1 /\ a = n * d + m
  BY <1>1, DivMod
<1>3. n * q + r = n * d + m
  BY <1>2
<1> HIDE DEF a, d, m
<1>4. n * (q - d) = m - r
  BY <1>2, <1>3
<1>5. ~(q - d >= 1)
  <2> SUFFICES ASSUME q - d >= 1 PROVE FALSE
    OBVIOUS
  <2>1. n * (q - d) >= n
    BY <1>2
  <2> QED
    BY <1>2, <1>4, <2>1
<1>6. ~(d - q >= 1)
  <2> SUFFICES ASSUME d - q >= 1 PROVE FALSE
    OBVIOUS
  <2>1. n * (d - q) >= n
    BY <1>2
  <2>2. n * (d - q) = r - m
    BY <1>2, <1>3
  <2> QED
    BY <1>2, <2>1, <2>2
<1>7. q = d
  BY <1>2, <1>5, <1>6
<1>8. r = m
  BY <1>2, <1>3, <1>7
<1> QED
  BY <1>7, <1>8 DEF a, d, m

\* Cdiv(a, b) blocks of b hold a items, and the block of an item is one of them.
LEMMA CdivCovers ==
  ASSUME NEW a \in Nat \ {0}, NEW b \in Nat \ {0}
  PROVE  /\ Cdiv(a, b) \in Nat \ {0} /\ b * Cdiv(a, b) >= a
         /\ \A i \in Below0(a) : i \div b \in Below0(Cdiv(a, b))
<1> DEFINE q == Cdiv(a, b)
           m == (a + b - 1) % b
<1>1. q \in Nat /\ m \in 0 .. b - 1 /\ a + b - 1 = b * q + m
  <2>1. a + b - 1 \in Nat
    OBVIOUS
  <2>2. (a + b - 1) \div b \in Nat /\ m \in 0 .. b - 1 /\ a + b - 1 = b * ((a + b - 1) \div b) + m
    BY <2>1, DivMod
  <2> HIDE DEF m
  <2> QED
    BY <2>2 DEF Cdiv
<1> HIDE DEF q, m
<1>2. b * q >= a
  BY <1>1
<1>3. q # 0
  BY <1>1, <1>2
<1>4. ASSUME NEW i \in Below0(a) PROVE i \div b \in Below0(q)
  <2> DEFINE d == i \div b
  <2>1. i \in Nat /\ i < a
    BY DEF Below0
  <2>2. d \in Nat /\ b * d <= i
    <3>1. i \div b \in Nat /\ i % b \in 0 .. b - 1 /\ i = b * (i \div b) + (i % b)
      BY <2>1, DivMod
    <3> HIDE DEF d
    <3>2. i = b * d + (i % b) /\ d \in Nat
      BY <3>1 DEF d
    <3> QED
      BY <2>1, <3>1, <3>2
  <2> HIDE DEF d
  <2>3. b * d < b * q
    BY <1>1, <1>2, <2>1, <2>2
  <2>4. d < q
    <3> SUFFICES ASSUME d >= q PROVE FALSE
      BY <1>1, <2>2
    <3>1. b * d >= b * q
      BY <1>1, <2>2
    <3> QED
      BY <1>1, <2>2, <2>3, <3>1
  <2>5. d \in Below0(q)
    BY <1>1, <2>2, <2>4 DEF Below0
  <2> QED
    BY <2>5 DEF d
<1> QED
  BY <1>1, <1>2, <1>3, <1>4 DEF q

\* The programs of a kernel, one per core.
Programs == Below0(work.cores)

\* The shares of the programs leave no tile out.
LEMMA ShareCovers ==
  ASSUME work.cores \in Nat \ {0}, NEW tiles \in Nat \ {0}, NEW i \in Below0(tiles)
  PROVE  \E p \in Programs : i \in Share(p, tiles)
<1> DEFINE n == Cdiv(tiles, work.cores)
           p == i \div n
<1>1. n \in Nat \ {0} /\ work.cores * n >= tiles
  BY CdivCovers
<1>2. i \in Nat /\ i < tiles
  BY DEF Below0
<1> HIDE DEF n
<1>3. p \in Nat /\ n * p <= i
  <2>1. i \div n \in Nat /\ i % n \in 0 .. n - 1 /\ i = n * (i \div n) + (i % n)
    BY <1>1, <1>2, DivMod
  <2> HIDE DEF p
  <2>2. i = n * p + (i % n) /\ p \in Nat
    BY <2>1 DEF p
  <2> QED
    BY <1>1, <1>2, <2>1, <2>2
<1>4. i \in Share(p, tiles)
  BY DEF Share, n
<1> HIDE DEF p
<1>5. p < work.cores
  <2> SUFFICES ASSUME p >= work.cores PROVE FALSE
    BY <1>3
  <2>1. n * p >= n * work.cores
    BY <1>1, <1>3
  <2>2. n * work.cores = work.cores * n
    BY <1>1
  <2> QED
    BY <1>1, <1>2, <1>3, <2>1, <2>2
<1>6. p \in Programs
  BY <1>3, <1>5 DEF Programs, Below0
<1> QED
  BY <1>4, <1>6

\* Decode meets every tile of the grid, the last group of rows short or not.
LEMMA DecodeCovers ==
  ASSUME work.group \in Nat \ {0}, NEW height \in Nat \ {0}, NEW cols \in Nat \ {0},
         NEW a \in Below0(height), NEW b \in Below0(cols)
  PROVE  \E i \in Below0(height * cols) : Decode(i, height, cols) = <<a, b>>
<1> DEFINE g == work.group
           gi == a \div g
           m == a % g
           first == gi * g
           size == Lesser(height - first, g)
           j == size * b + m
           inGroup == g * cols
           i == inGroup * gi + j
<1>1. a \in Nat /\ a < height /\ b \in Nat /\ b < cols
  BY DEF Below0
<1>2. gi \in Nat /\ m \in 0 .. g - 1 /\ a = g * gi + m
  BY <1>1, DivMod
<1>3. first \in Nat /\ first = g * gi /\ a = first + m
  BY <1>2
<1> HIDE DEF gi, m
<1>4. size \in Nat \ {0} /\ size <= g /\ first + size <= height /\ m < size
  BY <1>1, <1>2, <1>3 DEF Lesser
<1> HIDE DEF size
<1>5. size * b + m < size * cols /\ j \in Nat
  <2>1. size * (cols - b) >= size
    BY <1>1, <1>4
  <2>2. size * (cols - b) = size * cols - size * b
    BY <1>1, <1>4
  <2>3. size * b \in Nat /\ size * cols \in Nat
    BY <1>1, <1>4
  <2> QED
    BY <1>2, <1>4, <2>1, <2>2, <2>3
<1>6. size * cols <= inGroup /\ inGroup \in Nat \ {0}
  <2>1. (g - size) * cols >= 0
    BY <1>4
  <2>2. (g - size) * cols = g * cols - size * cols
    BY <1>4
  <2>3. g * cols \in Nat /\ size * cols \in Nat /\ g * cols # 0
    BY <1>4
  <2> QED
    BY <2>1, <2>2, <2>3
<1>7. j \in 0 .. inGroup - 1
  <2>1. size * cols \in Nat
    BY <1>4
  <2> QED
    BY <1>5, <1>6, <2>1
<1> HIDE DEF j, inGroup
<1>8. i \div inGroup = gi /\ i % inGroup = j /\ i \in Nat
  <2>1. (inGroup * gi + j) \div inGroup = gi /\ (inGroup * gi + j) % inGroup = j
    BY <1>2, <1>6, <1>7, DivOf
  <2>2. inGroup * gi + j \in Nat
    BY <1>2, <1>6, <1>7
  <2> QED
    BY <2>1, <2>2
<1>9. j % size = m /\ j \div size = b
  <2>1. m \in 0 .. size - 1 /\ b \in Nat
    BY <1>1, <1>2, <1>4
  <2>2. (size * b + m) % size = m /\ (size * b + m) \div size = b
    BY <1>4, <2>1, DivOf
  <2> QED
    BY <2>2 DEF j
<1>10. i < height * cols
  <2>1. i = first * cols + j
    BY <1>2, <1>3, <1>7 DEF inGroup
  <2>2. first * cols + size * cols = (first + size) * cols
    BY <1>3, <1>4
  <2>3. (height - (first + size)) * cols >= 0
    BY <1>3, <1>4
  <2>4. (height - (first + size)) * cols = height * cols - (first + size) * cols
    BY <1>3, <1>4
  <2>5. j < size * cols
    BY <1>5 DEF j
  <2>6. first * cols \in Nat /\ size * cols \in Nat /\ height * cols \in Nat /\ (first + size) * cols \in Nat /\ j \in Nat
    BY <1>3, <1>4, <1>7
  <2> HIDE DEF first, i
  <2> QED
    BY <2>1, <2>2, <2>3, <2>4, <2>5, <2>6
<1>11. i \in Below0(height * cols)
  BY <1>8, <1>10 DEF Below0
<1>12. Decode(i, height, cols) = <<first + ((i % inGroup) % size), (i % inGroup) \div size>>
  BY <1>8 DEF Decode, inGroup, size
<1>13. Decode(i, height, cols) = <<a, b>>
  BY <1>3, <1>8, <1>9, <1>12
<1> QED
  BY <1>11, <1>13

\* The tiles of a grid that the programs P visit.
CoveredBy(P, height, cols) == UNION {Grid(p, height, cols) : p \in P}

\* All programs together visit every tile.
LEMMA GridCovers ==
  ASSUME work.group \in Nat \ {0}, work.cores \in Nat \ {0}, NEW height \in Nat \ {0}, NEW cols \in Nat \ {0},
         NEW a \in Below0(height), NEW b \in Below0(cols)
  PROVE  <<a, b>> \in CoveredBy(Programs, height, cols)
<1>1. PICK i \in Below0(height * cols) : Decode(i, height, cols) = <<a, b>>
  BY DecodeCovers
<1>2. height * cols \in Nat \ {0}
  OBVIOUS
<1>3. PICK p \in Programs : i \in Share(p, height * cols)
  BY <1>2, ShareCovers
<1>4. <<a, b>> \in Grid(p, height, cols)
  BY <1>1, <1>3 DEF Grid
<1> QED
  BY <1>3, <1>4 DEF CoveredBy

-----------------------------------------------------------------------------
(* The backward pass.                                                      *)

\* The places of a rank before its backward pass, and all of them.
Forwards == {"mainloop", "epilogue", "reduce", "join", "wait", "update", "forward"}
Kernels == Forwards \cup {"fused", "separate", "products", "split", "split_products", "d_hidden", "d_weight", "done"}

\* The columns of the buffer of d_logits.
Buffer == Below0(IF work.mode = "split" THEN work.backSplit ELSE work.vocab)

\* What Fused tells atomic additions apart by: the tile.
TagOf(t, c) == IF work.mode = "fused" THEN <<RowOf(t), PairOf(c)>> ELSE <<0, 0>>

\* The products of token t, or of column c, that a gradient must be the sum of.
HiddenSum(r, t, C) == {<<TagOf(t, c), c, Dlogit(r, t, c)>> : c \in C}
WeightSum(r, c, T) == {<<TagOf(t, c), t, Dlogit(r, t, c)>> : t \in T}

\* The tile of a token and a column.
TileOf(t, c) == <<RowOf(t), PairOf(c)>>

\* A gradient that is whole: every product, once.
HiddenWhole(r, dh) == \A y \in Tokens \X Blocks : dh[y] = HiddenSum(r, y[1], OwnColumns)
WeightWhole(r, dw) == \A y \in OwnColumns \X Blocks : dw[y] = WeightSum(r, y[1], Tokens)

\* What the programs P of a kernel have done, when they are all that ended.
FusedBy(r, P, dh, dw) ==
  LET S == CoveredBy(P, RowBlocks, Pairs(work.vocab)) IN
  /\ \A y \in Tokens \X Blocks : dh[y] = HiddenSum(r, y[1], {c \in OwnColumns : TileOf(y[1], c) \in S})
  /\ \A y \in OwnColumns \X Blocks : dw[y] = WeightSum(r, y[1], {t \in Tokens : TileOf(t, y[1]) \in S})

\* The tiles of d_logits that are stored, of the columns from base on.
StoredBy(r, P, width, base, dl) ==
  LET S == CoveredBy(P, RowBlocks, Pairs(width)) IN
  \A x \in Tokens \X Below0(width) : TileOf(x[1], x[2]) \in S => dl[x] = Dlogit(r, x[1], base + x[2])

\* The tiles of d_hidden, and of d_weight, that are computed.
HiddenBy(r, P, dh) ==
  LET S == CoveredBy(P, RowBlocks, work.kblocks) IN
  \A y \in Tokens \X Blocks : <<RowOf(y[1]), y[2]>> \in S => dh[y] = HiddenSum(r, y[1], OwnColumns)
WeightBy(r, P, dw) ==
  LET S == CoveredBy(P, Pairs(work.vocab), work.kblocks) IN
  \A y \in OwnColumns \X Blocks : <<PairOf(y[1]), y[2]>> \in S => dw[y] = WeightSum(r, y[1], Tokens)

\* The splits before the column at which one begins.
SplitsBefore(r, first, dh, dw) ==
  /\ first # 0 => \A y \in Tokens \X Blocks : dh[y] = HiddenSum(r, y[1], {c \in OwnColumns : c < first})
  /\ \A y \in OwnColumns \X Blocks : y[1] < first => dw[y] = WeightSum(r, y[1], Tokens)

\* What a rank has at each place of the backward pass, with the programs P ended.
RankOk(r, k, P, sp, dl, dh, dw) ==
  /\ k \in Kernels /\ P \in SUBSET Programs
  /\ DOMAIN dl = Tokens \X Buffer /\ DOMAIN dh = Tokens \X Blocks /\ DOMAIN dw = OwnColumns \X Blocks
  /\ sp \in Nat
  /\ k \in Forwards => /\ sp = 0
                       /\ work.mode = "fused" => FusedBy(r, {}, dh, dw)
  /\ k = "forward" => P = {}
  /\ k = "fused" => work.mode = "fused" /\ FusedBy(r, P, dh, dw)
  /\ k = "separate" => work.mode = "separate" /\ StoredBy(r, P, work.vocab, 0, dl)
  /\ k = "products" => work.mode = "separate" /\ StoredBy(r, Programs, work.vocab, 0, dl)
  /\ k = "split" => /\ work.mode = "split" /\ StoredBy(r, P, work.backSplit, sp * work.backSplit, dl)
                    /\ SplitsBefore(r, sp * work.backSplit, dh, dw)
  /\ k = "split_products" => /\ work.mode = "split" /\ P = {}
                             /\ StoredBy(r, Programs, work.backSplit, sp * work.backSplit, dl)
                             /\ SplitsBefore(r, sp * work.backSplit, dh, dw)
  /\ k = "d_hidden" => work.mode = "apart" /\ HiddenBy(r, P, dh)
  /\ k = "d_weight" => work.mode = "apart" /\ HiddenWhole(r, dh) /\ WeightBy(r, P, dw)
  /\ k = "done" => HiddenWhole(r, dh) /\ WeightWhole(r, dw)

\* The programs of the kernel at hand that have ended.
Ran(r) == Programs \ left[r]

\* The inductive invariant of the backward pass.
GradInv ==
  /\ IsWork(work)
  /\ kernel \in [Groups -> Kernels] /\ left \in [Groups -> SUBSET Programs]
  /\ DOMAIN split = Groups /\ DOMAIN dlogits = Groups /\ DOMAIN dhidden = Groups /\ DOMAIN dweight = Groups
  /\ \A r \in Groups : RankOk(r, kernel[r], Ran(r), split[r], dlogits[r], dhidden[r], dweight[r])

\* The sizes of a call are positive.
LEMMA WorkNumbers ==
  ASSUME IsWork(work)
  PROVE  /\ work.ranks \in Nat \ {0} /\ work.tokens \in Nat \ {0} /\ work.vocab \in Nat \ {0}
         /\ work.perSplit \in Nat \ {0} /\ work.backSplit \in Nat \ {0} /\ work.bm \in Nat \ {0}
         /\ work.bn \in Nat \ {0} /\ work.epilogueBn \in Nat \ {0} /\ work.group \in Nat \ {0}
         /\ work.kblocks \in Nat \ {0} /\ work.cores \in Nat \ {0}
         /\ work.mode \in {"fused", "separate", "split", "apart"} /\ work.reduce \in BOOLEAN
BY DEF IsWork, SizeFields

\* The tile of every token and column is visited.
LEMMA TilesCovered ==
  ASSUME IsWork(work), NEW t \in Tokens, NEW width \in Nat \ {0}, NEW c \in Below0(width)
  PROVE  TileOf(t, c) \in CoveredBy(Programs, RowBlocks, Pairs(width))
<1>1. work.tokens \in Nat \ {0} /\ work.bm \in Nat \ {0} /\ work.bn \in Nat \ {0} /\ work.group \in Nat \ {0}
      /\ work.cores \in Nat \ {0}
  BY WorkNumbers
<1>2. RowBlocks \in Nat \ {0} /\ RowOf(t) \in Below0(RowBlocks)
  BY <1>1, CdivCovers DEF Tokens, RowBlocks, RowOf
<1>3. 2 * work.bn \in Nat \ {0}
  BY <1>1
<1>4. Pairs(width) \in Nat \ {0} /\ PairOf(c) \in Below0(Pairs(width))
  BY <1>3, CdivCovers DEF Pairs, PairOf
<1> QED
  BY <1>1, <1>2, <1>4, GridCovers DEF TileOf

\* The tile of every token and block is visited.
LEMMA HiddenTilesCovered ==
  ASSUME IsWork(work), NEW t \in Tokens, NEW b \in Blocks
  PROVE  <<RowOf(t), b>> \in CoveredBy(Programs, RowBlocks, work.kblocks)
<1>1. work.tokens \in Nat \ {0} /\ work.bm \in Nat \ {0} /\ work.kblocks \in Nat \ {0} /\ work.group \in Nat \ {0}
      /\ work.cores \in Nat \ {0}
  BY WorkNumbers
<1>2. RowBlocks \in Nat \ {0} /\ RowOf(t) \in Below0(RowBlocks)
  BY <1>1, CdivCovers DEF Tokens, RowBlocks, RowOf
<1> QED
  BY <1>1, <1>2, GridCovers DEF Blocks

\* The tile of every column and block is visited.
LEMMA WeightTilesCovered ==
  ASSUME IsWork(work), NEW c \in OwnColumns, NEW b \in Blocks
  PROVE  <<PairOf(c), b>> \in CoveredBy(Programs, Pairs(work.vocab), work.kblocks)
<1>1. work.vocab \in Nat \ {0} /\ work.bn \in Nat \ {0} /\ work.kblocks \in Nat \ {0} /\ work.group \in Nat \ {0}
      /\ work.cores \in Nat \ {0}
  BY WorkNumbers
<1>2. 2 * work.bn \in Nat \ {0}
  BY <1>1
<1>3. Pairs(work.vocab) \in Nat \ {0} /\ PairOf(c) \in Below0(Pairs(work.vocab))
  BY <1>1, <1>2, CdivCovers DEF Pairs, PairOf, OwnColumns
<1> QED
  BY <1>1, <1>3, GridCovers DEF Blocks

\* A program that ends.
LEMMA EndsOne ==
  ASSUME GradInv, NEW r \in Groups, NEW p, NEW next \in Kernels, Ends(r, p, next)
  PROVE  /\ kernel' \in [Groups -> Kernels] /\ left' \in [Groups -> SUBSET Programs]
         /\ \A s \in Groups : s # r => kernel'[s] = kernel[s] /\ left'[s] = left[s]
         /\ p \in Programs
         /\ \/ kernel'[r] = next /\ left'[r] = Programs /\ Ran(r) \cup {p} = Programs
            \/ kernel'[r] = kernel[r] /\ Programs \ left'[r] = Ran(r) \cup {p}
<1>1. kernel \in [Groups -> Kernels] /\ left \in [Groups -> SUBSET Programs]
  BY DEF GradInv
<1>2. /\ p \in left[r]
      /\ left' = [left EXCEPT ![r] = IF @ = {p} THEN Programs ELSE @ \ {p}]
      /\ kernel' = [kernel EXCEPT ![r] = IF left[r] = {p} THEN next ELSE @]
  BY DEF Ends, Programs
<1>3. p \in Programs
  BY <1>1, <1>2
<1>4. kernel' \in [Groups -> Kernels]
  BY <1>1, <1>2
<1>5. left' \in [Groups -> SUBSET Programs]
  BY <1>1, <1>2
<1>6. \A s \in Groups : s # r => kernel'[s] = kernel[s] /\ left'[s] = left[s]
  BY <1>1, <1>2
<1>7. CASE left[r] = {p}
  <2>1. kernel'[r] = next /\ left'[r] = Programs
    BY <1>1, <1>2, <1>7
  <2>2. Ran(r) \cup {p} = Programs
    BY <1>3, <1>7 DEF Ran
  <2> QED
    BY <1>3, <1>4, <1>5, <1>6, <2>1, <2>2
<1>8. CASE left[r] # {p}
  <2>1. kernel'[r] = kernel[r] /\ left'[r] = left[r] \ {p}
    BY <1>1, <1>2, <1>8
  <2>2. Programs \ left'[r] = Ran(r) \cup {p}
    BY <1>1, <1>3, <2>1 DEF Ran
  <2> QED
    BY <1>3, <1>4, <1>5, <1>6, <2>1, <2>2
<1> QED
  BY <1>7, <1>8

\* While the call is the same, so is all that is computed from its sizes.
LEMMA WorkStays ==
  ASSUME work' = work
  PROVE  /\ IsWork(work)' <=> IsWork(work)
         /\ Groups' = Groups /\ Programs' = Programs /\ Tokens' = Tokens /\ Blocks' = Blocks
         /\ \A r, k, P, sp, dl, dh, dw : RankOk(r, k, P, sp, dl, dh, dw)' <=> RankOk(r, k, P, sp, dl, dh, dw)
<1>1. \A p, height, cols : Grid(p, height, cols)' = Grid(p, height, cols)
  <2>1. \A i, height, cols : Decode(i, height, cols)' = Decode(i, height, cols)
    BY DEF Decode
  <2>2. \A p, tiles : Share(p, tiles)' = Share(p, tiles)
    BY DEF Share
  <2> QED
    BY <2>1, <2>2 DEF Grid
<1>2. \A P, height, cols : CoveredBy(P, height, cols)' = CoveredBy(P, height, cols)
  BY <1>1 DEF CoveredBy
<1>3. /\ RowBlocks' = RowBlocks /\ \A width : Pairs(width)' = Pairs(width)
      /\ \A t : RowOf(t)' = RowOf(t) /\ \A c : PairOf(c)' = PairOf(c)
  BY DEF RowBlocks, Pairs, RowOf, PairOf
<1>4. \A t, c : TileOf(t, c)' = TileOf(t, c)
  BY <1>3 DEF TileOf
<1>5. /\ Groups' = Groups /\ Programs' = Programs /\ Tokens' = Tokens /\ Blocks' = Blocks
      /\ OwnColumns' = OwnColumns /\ Buffer' = Buffer /\ (IsWork(work)' <=> IsWork(work))
  BY DEF Groups, Programs, Tokens, Blocks, OwnColumns, Buffer
<1>6. \A r, t, c : Dlogit(r, t, c)' = Dlogit(r, t, c) /\ TagOf(t, c)' = TagOf(t, c)
  BY <1>3 DEF Dlogit, AtLabel, Global, TagOf
<1>7. /\ \A r, t, C : HiddenSum(r, t, C)' = HiddenSum(r, t, C)
      /\ \A r, c, T : WeightSum(r, c, T)' = WeightSum(r, c, T)
  BY <1>6 DEF HiddenSum, WeightSum
<1>8. \A r, P, dh, dw : FusedBy(r, P, dh, dw)' <=> FusedBy(r, P, dh, dw)
  <2> SUFFICES ASSUME NEW r, NEW P, NEW dh, NEW dw PROVE FusedBy(r, P, dh, dw)' <=> FusedBy(r, P, dh, dw)
    OBVIOUS
  <2>1. CoveredBy(P, RowBlocks, Pairs(work.vocab))' = CoveredBy(P, RowBlocks, Pairs(work.vocab))
    BY <1>2, <1>3
  <2> DEFINE S == CoveredBy(P, RowBlocks, Pairs(work.vocab))
  <2>2. S' = S
    BY <2>1
  <2> HIDE DEF S
  <2>3. \A t : {c \in OwnColumns : TileOf(t, c) \in S}' = {c \in OwnColumns : TileOf(t, c) \in S}
    BY <1>4, <1>5, <2>2
  <2>4. \A c : {t \in Tokens : TileOf(t, c) \in S}' = {t \in Tokens : TileOf(t, c) \in S}
    BY <1>4, <1>5, <2>2
  <2>5. \A t : HiddenSum(r, t, {c \in OwnColumns : TileOf(t, c) \in S})'
                 = HiddenSum(r, t, {c \in OwnColumns : TileOf(t, c) \in S})
    BY <1>7, <2>3
  <2>6. \A c : WeightSum(r, c, {t \in Tokens : TileOf(t, c) \in S})'
                 = WeightSum(r, c, {t \in Tokens : TileOf(t, c) \in S})
    BY <1>7, <2>4
  <2>7. FusedBy(r, P, dh, dw) <=>
          /\ \A y \in Tokens \X Blocks : dh[y] = HiddenSum(r, y[1], {c \in OwnColumns : TileOf(y[1], c) \in S})
          /\ \A y \in OwnColumns \X Blocks : dw[y] = WeightSum(r, y[1], {t \in Tokens : TileOf(t, y[1]) \in S})
    BY DEF FusedBy, S
  <2>8. FusedBy(r, P, dh, dw)' <=>
          (/\ \A y \in Tokens \X Blocks : dh[y] = HiddenSum(r, y[1], {c \in OwnColumns : TileOf(y[1], c) \in S})
           /\ \A y \in OwnColumns \X Blocks : dw[y] = WeightSum(r, y[1], {t \in Tokens : TileOf(t, y[1]) \in S}))'
    BY DEF FusedBy, S
  <2> QED
    BY <1>5, <2>5, <2>6, <2>7, <2>8
<1>9. \A r, P, width, base, dl : StoredBy(r, P, width, base, dl)' <=> StoredBy(r, P, width, base, dl)
  BY <1>2, <1>3, <1>4, <1>5, <1>6 DEF StoredBy
<1>10. \A r, P, dh : HiddenBy(r, P, dh)' <=> HiddenBy(r, P, dh)
  BY <1>2, <1>3, <1>5, <1>7 DEF HiddenBy
<1>11. \A r, P, dw : WeightBy(r, P, dw)' <=> WeightBy(r, P, dw)
  BY <1>2, <1>3, <1>5, <1>7 DEF WeightBy
<1>12. /\ \A r, dh : HiddenWhole(r, dh)' <=> HiddenWhole(r, dh)
       /\ \A r, dw : WeightWhole(r, dw)' <=> WeightWhole(r, dw)
  BY <1>5, <1>7 DEF HiddenWhole, WeightWhole
<1>13. \A r, first, dh, dw : SplitsBefore(r, first, dh, dw)' <=> SplitsBefore(r, first, dh, dw)
  <2>1. \A first : {c \in OwnColumns : c < first}' = {c \in OwnColumns : c < first}
    BY <1>5
  <2>2. \A r, t, first : HiddenSum(r, t, {c \in OwnColumns : c < first})' = HiddenSum(r, t, {c \in OwnColumns : c < first})
    BY <1>7, <2>1
  <2> QED
    BY <1>5, <1>7, <2>2 DEF SplitsBefore
<1>14. \A r, k, P, sp, dl, dh, dw : RankOk(r, k, P, sp, dl, dh, dw)' <=> RankOk(r, k, P, sp, dl, dh, dw)
  BY <1>5, <1>8, <1>9, <1>10, <1>11, <1>12, <1>13 DEF RankOk
<1> QED
  BY <1>5, <1>14

-----------------------------------------------------------------------------
(* The steps of the backward pass.                                         *)

\* A step of one rank keeps GradInv if it keeps that rank's part.
LEMMA RankStep ==
  ASSUME GradInv, NEW r \in Groups, work' = work,
         kernel' \in [Groups -> Kernels], left' \in [Groups -> SUBSET Programs],
         \A s \in Groups : s # r => /\ kernel'[s] = kernel[s] /\ left'[s] = left[s] /\ split'[s] = split[s]
                                    /\ dlogits'[s] = dlogits[s] /\ dhidden'[s] = dhidden[s] /\ dweight'[s] = dweight[s],
         DOMAIN split' = Groups, DOMAIN dlogits' = Groups, DOMAIN dhidden' = Groups, DOMAIN dweight' = Groups,
         RankOk(r, kernel'[r], Programs \ left'[r], split'[r], dlogits'[r], dhidden'[r], dweight'[r])
  PROVE  GradInv'
<1>1. \A s \in Groups : RankOk(s, kernel'[s], Programs \ left'[s], split'[s], dlogits'[s], dhidden'[s], dweight'[s])
  BY DEF GradInv, Ran
<1>2. /\ IsWork(work)' /\ Groups' = Groups /\ Programs' = Programs
      /\ \A s, k, P, sp, dl, dh, dw : RankOk(s, k, P, sp, dl, dh, dw)' <=> RankOk(s, k, P, sp, dl, dh, dw)
  BY WorkStays DEF GradInv
<1>3. \A s \in Groups : Ran(s)' = Programs \ left'[s]
  BY <1>2 DEF Ran
<1>4. \A s \in Groups : RankOk(s, kernel[s], Ran(s), split[s], dlogits[s], dhidden[s], dweight[s])'
  BY <1>1, <1>2, <1>3
<1> QED
  BY <1>2, <1>4 DEF GradInv

\* A program that ends adds its tiles.
LEMMA CoveredGrows ==
  ASSUME NEW P, NEW p, NEW height, NEW cols
  PROVE  CoveredBy(P \cup {p}, height, cols) = CoveredBy(P, height, cols) \cup Grid(p, height, cols)
BY DEF CoveredBy

\* A kernel of which one program ends, all that it adds being in the new d.
LEMMA FusedWhole ==
  ASSUME IsWork(work), NEW r \in Groups, NEW dh, NEW dw, work.mode = "fused", FusedBy(r, Programs, dh, dw)
  PROVE  HiddenWhole(r, dh) /\ WeightWhole(r, dw)
<1>1. \A t \in Tokens, c \in OwnColumns : TileOf(t, c) \in CoveredBy(Programs, RowBlocks, Pairs(work.vocab))
  BY WorkNumbers, TilesCovered DEF OwnColumns
<1>2. \A t \in Tokens : {c \in OwnColumns : TileOf(t, c) \in CoveredBy(Programs, RowBlocks, Pairs(work.vocab))} = OwnColumns
  BY <1>1
<1>3. \A c \in OwnColumns : {t \in Tokens : TileOf(t, c) \in CoveredBy(Programs, RowBlocks, Pairs(work.vocab))} = Tokens
  BY <1>1
<1>4. HiddenWhole(r, dh)
  BY <1>2 DEF HiddenWhole, FusedBy
<1>5. WeightWhole(r, dw)
  BY <1>3 DEF WeightWhole, FusedBy
<1> QED
  BY <1>4, <1>5

\* A program of the fused kernel adds its tiles to both gradients.
LEMMA FusedStep ==
  ASSUME GradInv, NEW r \in Groups, NEW p \in Programs, Fused(r, p)
  PROVE  GradInv'
<1>1. IsWork(work) /\ RankOk(r, kernel[r], Ran(r), split[r], dlogits[r], dhidden[r], dweight[r])
  BY DEF GradInv
<1>2. kernel[r] = "fused" /\ Ends(r, p, "done") /\ work' = work /\ split' = split /\ dlogits' = dlogits
  BY DEF Fused
<1>3. /\ kernel' \in [Groups -> Kernels] /\ left' \in [Groups -> SUBSET Programs]
      /\ \A s \in Groups : s # r => kernel'[s] = kernel[s] /\ left'[s] = left[s]
      /\ \/ kernel'[r] = "done" /\ left'[r] = Programs /\ Ran(r) \cup {p} = Programs
         \/ kernel'[r] = kernel[r] /\ Programs \ left'[r] = Ran(r) \cup {p}
  <2>1. "done" \in Kernels
    BY DEF Kernels
  <2> QED
    BY <1>2, <2>1, EndsOne
<1> DEFINE tiles == Grid(p, RowBlocks, Pairs(work.vocab))
           pairs == {x \in tiles \X Tokens \X OwnColumns : x[1] = TileOf(x[2], x[3])}
           addH(y) == {<<x[1], x[3], Dlogit(r, x[2], x[3])>> : x \in {x \in pairs : x[2] = y[1]}}
           addW(y) == {<<x[1], x[2], Dlogit(r, x[2], x[3])>> : x \in {x \in pairs : x[3] = y[1]}}
           S == CoveredBy(Ran(r), RowBlocks, Pairs(work.vocab))
<1>4. /\ dhidden' = [dhidden EXCEPT ![r] = [y \in DOMAIN @ |-> @[y] \cup addH(y)]]
      /\ dweight' = [dweight EXCEPT ![r] = [y \in DOMAIN @ |-> @[y] \cup addW(y)]]
  BY DEF Fused, TileOf
<1>5. DOMAIN dhidden = Groups /\ DOMAIN dweight = Groups /\ DOMAIN split = Groups /\ DOMAIN dlogits = Groups
      /\ DOMAIN dhidden[r] = Tokens \X Blocks /\ DOMAIN dweight[r] = OwnColumns \X Blocks /\ work.mode = "fused"
      /\ FusedBy(r, Ran(r), dhidden[r], dweight[r])
  BY <1>1, <1>2 DEF GradInv, RankOk
<1>6. /\ \A y \in Tokens \X Blocks :
           addH(y) = HiddenSum(r, y[1], {c \in OwnColumns : TileOf(y[1], c) \in tiles})
      /\ \A y \in OwnColumns \X Blocks :
           addW(y) = WeightSum(r, y[1], {t \in Tokens : TileOf(t, y[1]) \in tiles})
  <2> HIDE DEF tiles
  <2>1. \A t \in Tokens, c \in OwnColumns : TagOf(t, c) = TileOf(t, c)
    BY <1>5 DEF TagOf, TileOf
  <2>2. ASSUME NEW y \in Tokens \X Blocks
        PROVE  addH(y) = {<<TileOf(y[1], c), c, Dlogit(r, y[1], c)>> : c \in {c \in OwnColumns : TileOf(y[1], c) \in tiles}}
    <3>1. \A x \in pairs : x[2] = y[1] => /\ x[3] \in OwnColumns /\ x[1] = TileOf(y[1], x[3]) /\ x[1] \in tiles
      OBVIOUS
    <3>2. \A c \in OwnColumns : TileOf(y[1], c) \in tiles => <<TileOf(y[1], c), y[1], c>> \in pairs
      OBVIOUS
    <3> HIDE DEF pairs
    <3>3. \A z \in addH(y) : z \in {<<TileOf(y[1], c), c, Dlogit(r, y[1], c)>> : c \in {c \in OwnColumns : TileOf(y[1], c) \in tiles}}
      BY <3>1
    <3>4. ASSUME NEW c \in OwnColumns, TileOf(y[1], c) \in tiles
          PROVE  <<TileOf(y[1], c), c, Dlogit(r, y[1], c)>> \in addH(y)
      <4> DEFINE x == <<TileOf(y[1], c), y[1], c>>
      <4>1. x \in pairs /\ x[2] = y[1] /\ x[1] = TileOf(y[1], c) /\ x[3] = c
        BY <3>2, <3>4
      <4> HIDE DEF x
      <4> QED
        BY <4>1
    <3> QED
      BY <3>3, <3>4
  <2>3. ASSUME NEW y \in OwnColumns \X Blocks
        PROVE  addW(y) = {<<TileOf(t, y[1]), t, Dlogit(r, t, y[1])>> : t \in {t \in Tokens : TileOf(t, y[1]) \in tiles}}
    <3>1. \A x \in pairs : x[3] = y[1] => /\ x[2] \in Tokens /\ x[1] = TileOf(x[2], y[1]) /\ x[1] \in tiles
      OBVIOUS
    <3>2. \A t \in Tokens : TileOf(t, y[1]) \in tiles => <<TileOf(t, y[1]), t, y[1]>> \in pairs
      OBVIOUS
    <3> HIDE DEF pairs
    <3>3. \A z \in addW(y) : z \in {<<TileOf(t, y[1]), t, Dlogit(r, t, y[1])>> : t \in {t \in Tokens : TileOf(t, y[1]) \in tiles}}
      BY <3>1
    <3>4. ASSUME NEW t \in Tokens, TileOf(t, y[1]) \in tiles
          PROVE  <<TileOf(t, y[1]), t, Dlogit(r, t, y[1])>> \in addW(y)
      <4> DEFINE x == <<TileOf(t, y[1]), t, y[1]>>
      <4>1. x \in pairs /\ x[3] = y[1] /\ x[1] = TileOf(t, y[1]) /\ x[2] = t
        BY <3>2, <3>4
      <4> HIDE DEF x
      <4> QED
        BY <4>1
    <3> QED
      BY <3>3, <3>4
  <2> HIDE DEF addH, addW
  <2>4. ASSUME NEW y \in Tokens \X Blocks
        PROVE  addH(y) = HiddenSum(r, y[1], {c \in OwnColumns : TileOf(y[1], c) \in tiles})
    BY <2>1, <2>2 DEF HiddenSum
  <2>5. ASSUME NEW y \in OwnColumns \X Blocks
        PROVE  addW(y) = WeightSum(r, y[1], {t \in Tokens : TileOf(t, y[1]) \in tiles})
    BY <2>1, <2>3 DEF WeightSum
  <2> QED
    BY <2>4, <2>5
<1> HIDE DEF addH, addW, pairs
<1>7. FusedBy(r, Ran(r) \cup {p}, dhidden'[r], dweight'[r])
  <2> DEFINE S2 == CoveredBy(Ran(r) \cup {p}, RowBlocks, Pairs(work.vocab))
  <2>1. S2 = S \cup tiles
    BY CoveredGrows
  <2> HIDE DEF S, S2, tiles
  <2>2. /\ \A y \in Tokens \X Blocks : dhidden'[r][y] = dhidden[r][y] \cup addH(y)
        /\ \A y \in OwnColumns \X Blocks : dweight'[r][y] = dweight[r][y] \cup addW(y)
    BY <1>4, <1>5
  <2>3. \A t : HiddenSum(r, t, {c \in OwnColumns : TileOf(t, c) \in S2})
                 = HiddenSum(r, t, {c \in OwnColumns : TileOf(t, c) \in S})
                     \cup HiddenSum(r, t, {c \in OwnColumns : TileOf(t, c) \in tiles})
    BY <2>1 DEF HiddenSum
  <2>4. \A c : WeightSum(r, c, {t \in Tokens : TileOf(t, c) \in S2})
                 = WeightSum(r, c, {t \in Tokens : TileOf(t, c) \in S})
                     \cup WeightSum(r, c, {t \in Tokens : TileOf(t, c) \in tiles})
    BY <2>1 DEF WeightSum
  <2>5. /\ \A y \in Tokens \X Blocks : dhidden[r][y] = HiddenSum(r, y[1], {c \in OwnColumns : TileOf(y[1], c) \in S})
        /\ \A y \in OwnColumns \X Blocks : dweight[r][y] = WeightSum(r, y[1], {t \in Tokens : TileOf(t, y[1]) \in S})
    BY <1>5 DEF FusedBy, S
  <2>6. /\ \A y \in Tokens \X Blocks : dhidden'[r][y] = HiddenSum(r, y[1], {c \in OwnColumns : TileOf(y[1], c) \in S2})
        /\ \A y \in OwnColumns \X Blocks : dweight'[r][y] = WeightSum(r, y[1], {t \in Tokens : TileOf(t, y[1]) \in S2})
    BY <1>6, <2>2, <2>3, <2>4, <2>5
  <2> QED
    BY <2>6 DEF FusedBy, S2
<1> HIDE DEF tiles, S
<1>8. /\ DOMAIN dhidden' = Groups /\ DOMAIN dweight' = Groups
      /\ \A s \in Groups : s # r => dhidden'[s] = dhidden[s] /\ dweight'[s] = dweight[s]
      /\ DOMAIN dhidden'[r] = Tokens \X Blocks /\ DOMAIN dweight'[r] = OwnColumns \X Blocks
  BY <1>4, <1>5
<1>9. RankOk(r, kernel'[r], Programs \ left'[r], split'[r], dlogits'[r], dhidden'[r], dweight'[r])
  <2>1. CASE kernel'[r] = "done" /\ left'[r] = Programs /\ Ran(r) \cup {p} = Programs
    <3>1. HiddenWhole(r, dhidden'[r]) /\ WeightWhole(r, dweight'[r])
      <4>1. FusedBy(r, Programs, dhidden'[r], dweight'[r]) /\ work.mode = "fused"
        BY <1>5, <1>7, <2>1
      <4> QED
        BY <1>1, <4>1, FusedWhole, Zenon
    <3> QED
      BY <1>1, <1>2, <1>8, <2>1, <3>1 DEF RankOk, Kernels, Forwards
  <2>2. CASE kernel'[r] = kernel[r] /\ Programs \ left'[r] = Ran(r) \cup {p}
    BY <1>1, <1>2, <1>3, <1>5, <1>7, <1>8, <2>2 DEF RankOk, Kernels, Forwards
  <2> QED
    BY <1>3, <2>1, <2>2
<1> QED
  BY <1>2, <1>3, <1>5, <1>8, <1>9, RankStep

\* A program of the kernel for d_logits stores its tiles.
LEMMA SeparateStep ==
  ASSUME GradInv, NEW r \in Groups, NEW p \in Programs, Separate(r, p)
  PROVE  GradInv'
<1>1. IsWork(work) /\ RankOk(r, kernel[r], Ran(r), split[r], dlogits[r], dhidden[r], dweight[r])
  BY DEF GradInv
<1>2. kernel[r] = "separate" /\ Ends(r, p, "products") /\ work' = work /\ split' = split /\ dhidden' = dhidden /\ dweight' = dweight
  BY DEF Separate
<1>3. /\ kernel' \in [Groups -> Kernels] /\ left' \in [Groups -> SUBSET Programs]
      /\ \A s \in Groups : s # r => kernel'[s] = kernel[s] /\ left'[s] = left[s]
      /\ \/ kernel'[r] = "products" /\ left'[r] = Programs /\ Ran(r) \cup {p} = Programs
         \/ kernel'[r] = kernel[r] /\ Programs \ left'[r] = Ran(r) \cup {p}
  <2>1. "products" \in Kernels
    BY DEF Kernels
  <2> QED
    BY <1>2, <2>1, EndsOne
<1> DEFINE tiles == Grid(p, RowBlocks, Pairs(work.vocab))
<1>4. dlogits' = [dlogits EXCEPT ![r] = [x \in DOMAIN @ |-> IF TileOf(x[1], x[2]) \in tiles THEN Dlogit(r, x[1], x[2]) ELSE @[x]]]
  BY DEF Separate, TileOf
<1>5. DOMAIN dhidden = Groups /\ DOMAIN dweight = Groups /\ DOMAIN split = Groups /\ DOMAIN dlogits = Groups
      /\ work.mode = "separate" /\ DOMAIN dlogits[r] = Tokens \X OwnColumns /\ StoredBy(r, Ran(r), work.vocab, 0, dlogits[r])
  BY <1>1, <1>2 DEF GradInv, RankOk, Buffer, OwnColumns
<1> HIDE DEF tiles
<1>6. /\ DOMAIN dlogits' = Groups /\ \A s \in Groups : s # r => dlogits'[s] = dlogits[s]
      /\ DOMAIN dlogits'[r] = Tokens \X OwnColumns
      /\ \A x \in Tokens \X OwnColumns : dlogits'[r][x] = IF TileOf(x[1], x[2]) \in tiles THEN Dlogit(r, x[1], x[2]) ELSE dlogits[r][x]
  BY <1>4, <1>5
<1>7. StoredBy(r, Ran(r) \cup {p}, work.vocab, 0, dlogits'[r])
  <2>1. CoveredBy(Ran(r) \cup {p}, RowBlocks, Pairs(work.vocab)) = CoveredBy(Ran(r), RowBlocks, Pairs(work.vocab)) \cup tiles
    BY CoveredGrows DEF tiles
  <2>2. \A x \in Tokens \X OwnColumns : 0 + x[2] = x[2]
    BY DEF OwnColumns, Below0
  <2>3. \A x \in Tokens \X OwnColumns : TileOf(x[1], x[2]) \in CoveredBy(Ran(r), RowBlocks, Pairs(work.vocab))
           => dlogits[r][x] = Dlogit(r, x[1], 0 + x[2])
    BY <1>5 DEF StoredBy, OwnColumns
  <2>4. \A x \in Tokens \X OwnColumns : TileOf(x[1], x[2]) \in CoveredBy(Ran(r) \cup {p}, RowBlocks, Pairs(work.vocab))
           => dlogits'[r][x] = Dlogit(r, x[1], 0 + x[2])
    BY <1>6, <2>1, <2>2, <2>3
  <2> QED
    BY <2>4 DEF StoredBy, OwnColumns
<1>8. RankOk(r, kernel'[r], Programs \ left'[r], split'[r], dlogits'[r], dhidden'[r], dweight'[r])
  <2>0. DOMAIN dlogits'[r] = Tokens \X Buffer
    BY <1>5, <1>6 DEF Buffer, OwnColumns
  <2>1. CASE kernel'[r] = "products" /\ left'[r] = Programs /\ Ran(r) \cup {p} = Programs
    BY <1>1, <1>2, <1>5, <1>7, <2>0, <2>1 DEF RankOk, Kernels, Forwards
  <2>2. CASE kernel'[r] = kernel[r] /\ Programs \ left'[r] = Ran(r) \cup {p}
    BY <1>1, <1>2, <1>5, <1>7, <2>0, <2>2 DEF RankOk, Kernels, Forwards
  <2> QED
    BY <1>3, <2>1, <2>2
<1> QED
  BY <1>2, <1>3, <1>5, <1>6, <1>8, RankStep

\* The products of the whole d_logits are the whole gradients.
LEMMA ProductsStep ==
  ASSUME GradInv, NEW r \in Groups, Products(r)
  PROVE  GradInv'
<1>1. IsWork(work) /\ RankOk(r, kernel[r], Ran(r), split[r], dlogits[r], dhidden[r], dweight[r])
  BY DEF GradInv
<1>2. /\ kernel[r] = "products" /\ kernel' = [kernel EXCEPT ![r] = "done"]
      /\ work' = work /\ left' = left /\ split' = split /\ dlogits' = dlogits
      /\ dhidden' = [dhidden EXCEPT ![r] = [y \in DOMAIN @ |-> {Factor(c, dlogits[r][y[1], c]) : c \in OwnColumns}]]
      /\ dweight' = [dweight EXCEPT ![r] = [y \in DOMAIN @ |-> {Factor(t, dlogits[r][t, y[1]]) : t \in Tokens}]]
  BY DEF Products
<1>3. /\ kernel \in [Groups -> Kernels] /\ left \in [Groups -> SUBSET Programs]
      /\ DOMAIN dhidden = Groups /\ DOMAIN dweight = Groups /\ DOMAIN split = Groups /\ DOMAIN dlogits = Groups
      /\ work.mode = "separate" /\ StoredBy(r, Programs, work.vocab, 0, dlogits[r])
      /\ DOMAIN dhidden[r] = Tokens \X Blocks /\ DOMAIN dweight[r] = OwnColumns \X Blocks
  BY <1>1, <1>2 DEF GradInv, RankOk
<1>4. \A t \in Tokens, c \in OwnColumns : dlogits[r][t, c] = Dlogit(r, t, c)
  <2> SUFFICES ASSUME NEW t \in Tokens, NEW c \in OwnColumns PROVE dlogits[r][t, c] = Dlogit(r, t, c)
    OBVIOUS
  <2>1. TileOf(t, c) \in CoveredBy(Programs, RowBlocks, Pairs(work.vocab))
    BY <1>1, WorkNumbers, TilesCovered DEF OwnColumns
  <2>2. 0 + c = c
    BY DEF OwnColumns, Below0
  <2>3. <<t, c>> \in Tokens \X Below0(work.vocab)
    BY DEF OwnColumns
  <2> QED
    BY <1>3, <2>1, <2>2, <2>3 DEF StoredBy
<1>5. \A t \in Tokens, c \in OwnColumns : <<TagOf(t, c), c, Dlogit(r, t, c)>> = Factor(c, dlogits[r][t, c])
                                          /\ <<TagOf(t, c), t, Dlogit(r, t, c)>> = Factor(t, dlogits[r][t, c])
  BY <1>3, <1>4 DEF TagOf, Factor
<1>6. HiddenWhole(r, dhidden'[r])
  <2>1. \A y \in Tokens \X Blocks : dhidden'[r][y] = {Factor(c, dlogits[r][y[1], c]) : c \in OwnColumns}
    BY <1>2, <1>3
  <2>2. \A t \in Tokens : HiddenSum(r, t, OwnColumns) = {Factor(c, dlogits[r][t, c]) : c \in OwnColumns}
    BY <1>5 DEF HiddenSum
  <2> QED
    BY <2>1, <2>2 DEF HiddenWhole
<1>7. WeightWhole(r, dweight'[r])
  <2>1. \A y \in OwnColumns \X Blocks : dweight'[r][y] = {Factor(t, dlogits[r][t, y[1]]) : t \in Tokens}
    BY <1>2, <1>3
  <2>2. \A c \in OwnColumns : WeightSum(r, c, Tokens) = {Factor(t, dlogits[r][t, c]) : t \in Tokens}
    BY <1>5 DEF WeightSum
  <2> QED
    BY <2>1, <2>2 DEF WeightWhole
<1>8. /\ DOMAIN dhidden' = Groups /\ DOMAIN dweight' = Groups
      /\ \A s \in Groups : s # r => dhidden'[s] = dhidden[s] /\ dweight'[s] = dweight[s]
      /\ DOMAIN dhidden'[r] = Tokens \X Blocks /\ DOMAIN dweight'[r] = OwnColumns \X Blocks
  BY <1>2, <1>3
<1>9. "done" \in Kernels
  BY DEF Kernels
<1>10. /\ kernel' \in [Groups -> Kernels] /\ kernel'[r] = "done"
       /\ \A s \in Groups : s # r => kernel'[s] = kernel[s] /\ left'[s] = left[s]
  BY <1>2, <1>3, <1>9
<1>11. RankOk(r, kernel'[r], Programs \ left'[r], split'[r], dlogits'[r], dhidden'[r], dweight'[r])
  BY <1>1, <1>2, <1>6, <1>7, <1>8, <1>9, <1>10 DEF RankOk, Forwards
<1> QED
  BY <1>2, <1>3, <1>8, <1>10, <1>11, RankStep

\* The same for the d_logits of one split.
LEMMA SplitLogitsStep ==
  ASSUME GradInv, NEW r \in Groups, NEW p \in Programs, SplitLogits(r, p)
  PROVE  GradInv'
<1>1. IsWork(work) /\ RankOk(r, kernel[r], Ran(r), split[r], dlogits[r], dhidden[r], dweight[r])
  BY DEF GradInv
<1>2. kernel[r] = "split" /\ Ends(r, p, "split_products") /\ work' = work /\ split' = split /\ dhidden' = dhidden /\ dweight' = dweight
  BY DEF SplitLogits
<1>3. /\ kernel' \in [Groups -> Kernels] /\ left' \in [Groups -> SUBSET Programs]
      /\ \A s \in Groups : s # r => kernel'[s] = kernel[s] /\ left'[s] = left[s]
      /\ \/ kernel'[r] = "split_products" /\ left'[r] = Programs /\ Ran(r) \cup {p} = Programs
         \/ kernel'[r] = kernel[r] /\ Programs \ left'[r] = Ran(r) \cup {p}
  <2>1. "split_products" \in Kernels
    BY DEF Kernels
  <2> QED
    BY <1>2, <2>1, EndsOne
<1> DEFINE tiles == Grid(p, RowBlocks, Pairs(work.backSplit))
           base == split[r] * work.backSplit
           W == Below0(work.backSplit)
<1>4. dlogits' = [dlogits EXCEPT ![r] = [x \in DOMAIN @ |-> IF TileOf(x[1], x[2]) \in tiles THEN Dlogit(r, x[1], base + x[2]) ELSE @[x]]]
  BY DEF SplitLogits, TileOf
<1>5. DOMAIN dhidden = Groups /\ DOMAIN dweight = Groups /\ DOMAIN split = Groups /\ DOMAIN dlogits = Groups
      /\ work.mode = "split" /\ DOMAIN dlogits[r] = Tokens \X W /\ StoredBy(r, Ran(r), work.backSplit, base, dlogits[r])
      /\ SplitsBefore(r, base, dhidden[r], dweight[r])
  BY <1>1, <1>2 DEF GradInv, RankOk, Buffer
<1> HIDE DEF tiles, base, W
<1>6. /\ DOMAIN dlogits' = Groups /\ \A s \in Groups : s # r => dlogits'[s] = dlogits[s]
      /\ DOMAIN dlogits'[r] = Tokens \X W
      /\ \A x \in Tokens \X W : dlogits'[r][x] = IF TileOf(x[1], x[2]) \in tiles THEN Dlogit(r, x[1], base + x[2]) ELSE dlogits[r][x]
  BY <1>4, <1>5
<1>7. StoredBy(r, Ran(r) \cup {p}, work.backSplit, base, dlogits'[r])
  <2>1. CoveredBy(Ran(r) \cup {p}, RowBlocks, Pairs(work.backSplit)) = CoveredBy(Ran(r), RowBlocks, Pairs(work.backSplit)) \cup tiles
    BY CoveredGrows DEF tiles
  <2>3. \A x \in Tokens \X W : TileOf(x[1], x[2]) \in CoveredBy(Ran(r), RowBlocks, Pairs(work.backSplit))
           => dlogits[r][x] = Dlogit(r, x[1], base + x[2])
    BY <1>5 DEF StoredBy, W
  <2>4. \A x \in Tokens \X W : TileOf(x[1], x[2]) \in CoveredBy(Ran(r) \cup {p}, RowBlocks, Pairs(work.backSplit))
           => dlogits'[r][x] = Dlogit(r, x[1], base + x[2])
    BY <1>6, <2>1, <2>3
  <2> QED
    BY <2>4 DEF StoredBy, W
<1>8. RankOk(r, kernel'[r], Programs \ left'[r], split'[r], dlogits'[r], dhidden'[r], dweight'[r])
  <2>0. DOMAIN dlogits'[r] = Tokens \X Buffer /\ base = split'[r] * work.backSplit
    BY <1>2, <1>5, <1>6 DEF Buffer, W, base
  <2>1. CASE kernel'[r] = "split_products" /\ left'[r] = Programs /\ Ran(r) \cup {p} = Programs
    BY <1>1, <1>2, <1>5, <1>7, <2>0, <2>1 DEF RankOk, Kernels, Forwards
  <2>2. CASE kernel'[r] = kernel[r] /\ Programs \ left'[r] = Ran(r) \cup {p}
    BY <1>1, <1>2, <1>5, <1>7, <2>0, <2>2 DEF RankOk, Kernels, Forwards
  <2> QED
    BY <1>3, <2>1, <2>2
<1> QED
  BY <1>2, <1>3, <1>5, <1>6, <1>8, RankStep

\* A split adds its columns to d_hidden, the first one overwrites it; after the last, all are in.
LEMMA SplitProductsStep ==
  ASSUME GradInv, NEW r \in Groups, SplitProducts(r)
  PROVE  GradInv'
<1>1. IsWork(work) /\ RankOk(r, kernel[r], Ran(r), split[r], dlogits[r], dhidden[r], dweight[r])
  BY DEF GradInv
<1> DEFINE n == split[r]
           base == split[r] * work.backSplit
           W == Below0(work.backSplit)
           cols == {j \in W : base + j \in OwnColumns}
<1>2. /\ kernel[r] = "split_products" /\ kernel' = [kernel EXCEPT ![r] = IF split[r] + 1 < BackSplits THEN "split" ELSE "done"]
      /\ work' = work /\ left' = left /\ dlogits' = dlogits /\ split' = [split EXCEPT ![r] = @ + 1]
      /\ dhidden' = [dhidden EXCEPT ![r] = [y \in DOMAIN @ |->
           Before(@[y], split[r] = 0) \cup {Factor(base + j, dlogits[r][y[1], j]) : j \in cols}]]
      /\ dweight' = [dweight EXCEPT ![r] = [y \in DOMAIN @ |->
           IF y[1] - base \in cols THEN {Factor(t, dlogits[r][t, y[1] - base]) : t \in Tokens} ELSE @[y]]]
  BY DEF SplitProducts
<1>3. /\ kernel \in [Groups -> Kernels] /\ left \in [Groups -> SUBSET Programs]
      /\ DOMAIN dhidden = Groups /\ DOMAIN dweight = Groups /\ DOMAIN split = Groups /\ DOMAIN dlogits = Groups
      /\ work.mode = "split" /\ StoredBy(r, Programs, work.backSplit, base, dlogits[r]) /\ split[r] \in Nat
      /\ SplitsBefore(r, base, dhidden[r], dweight[r]) /\ Ran(r) = {}
      /\ DOMAIN dhidden[r] = Tokens \X Blocks /\ DOMAIN dweight[r] = OwnColumns \X Blocks
  BY <1>1, <1>2 DEF GradInv, RankOk
<1>4. work.backSplit \in Nat \ {0} /\ work.vocab \in Nat \ {0}
  BY <1>1, WorkNumbers
<1>5. base \in Nat /\ (split[r] = 0 <=> base = 0) /\ (split[r] + 1) * work.backSplit = base + work.backSplit
  <2>1. \A i \in Nat, b \in Nat \ {0} : i * b \in Nat /\ (i = 0 <=> i * b = 0) /\ (i + 1) * b = i * b + b
    OBVIOUS
  <2> QED
    BY <1>3, <1>4, <2>1
<1>6. \A t \in Tokens, j \in W : dlogits[r][t, j] = Dlogit(r, t, base + j)
  <2> SUFFICES ASSUME NEW t \in Tokens, NEW j \in W PROVE dlogits[r][t, j] = Dlogit(r, t, base + j)
    OBVIOUS
  <2>1. TileOf(t, j) \in CoveredBy(Programs, RowBlocks, Pairs(work.backSplit))
    BY <1>1, <1>4, TilesCovered
  <2>2. <<t, j>> \in Tokens \X Below0(work.backSplit)
    OBVIOUS
  <2> QED
    BY <1>3, <2>1, <2>2 DEF StoredBy
<1> DEFINE next == base + work.backSplit
           First(e) == {c \in OwnColumns : c < e}
<1>7. \A c : c \in First(next) <=> c \in First(base) \/ (c - base \in cols /\ c \in OwnColumns /\ base + (c - base) = c)
  BY <1>4, <1>5 DEF OwnColumns, Below0
<1>8. \A j \in cols : base + j \in First(next) /\ (base + j) - base = j
  BY <1>4, <1>5 DEF OwnColumns, Below0
<1>9. \A t, c : <<TagOf(t, c), c, Dlogit(r, t, c)>> = Factor(c, Dlogit(r, t, c))
                /\ <<TagOf(t, c), t, Dlogit(r, t, c)>> = Factor(t, Dlogit(r, t, c))
  BY <1>3 DEF TagOf, Factor
<1>10. /\ DOMAIN dhidden' = Groups /\ DOMAIN dweight' = Groups /\ DOMAIN split' = Groups
       /\ \A s \in Groups : s # r => dhidden'[s] = dhidden[s] /\ dweight'[s] = dweight[s] /\ split'[s] = split[s]
       /\ DOMAIN dhidden'[r] = Tokens \X Blocks /\ DOMAIN dweight'[r] = OwnColumns \X Blocks
       /\ split'[r] = split[r] + 1
  BY <1>2, <1>3
<1>11. \A y \in Tokens \X Blocks : dhidden'[r][y] = HiddenSum(r, y[1], First(next))
  <2> SUFFICES ASSUME NEW y \in Tokens \X Blocks PROVE dhidden'[r][y] = HiddenSum(r, y[1], First(next))
    OBVIOUS
  <2> HIDE DEF base, next, cols, W
  <2>1. dhidden'[r][y] = Before(dhidden[r][y], split[r] = 0) \cup {Factor(base + j, dlogits[r][y[1], j]) : j \in cols}
    BY <1>2, <1>3
  <2>2. Before(dhidden[r][y], split[r] = 0) = HiddenSum(r, y[1], First(base))
    <3>1. CASE split[r] = 0
      <4>1. First(base) = {}
        BY <1>5, <3>1 DEF OwnColumns, Below0
      <4>2. HiddenSum(r, y[1], First(base)) = {}
        BY <4>1 DEF HiddenSum
      <4> QED
        BY <3>1, <4>2 DEF Before
    <3>2. CASE split[r] # 0
      BY <1>3, <1>5, <3>2 DEF Before, SplitsBefore
    <3> QED
      BY <3>1, <3>2
  <2>3. \A j \in cols : Factor(base + j, dlogits[r][y[1], j]) = <<TagOf(y[1], base + j), base + j, Dlogit(r, y[1], base + j)>>
    <3> SUFFICES ASSUME NEW j \in cols
                 PROVE  Factor(base + j, dlogits[r][y[1], j]) = <<TagOf(y[1], base + j), base + j, Dlogit(r, y[1], base + j)>>
      OBVIOUS
    <3>1. j \in W /\ y[1] \in Tokens
      BY DEF cols
    <3>2. dlogits[r][y[1], j] = Dlogit(r, y[1], base + j)
      BY <1>6, <3>1
    <3> QED
      BY <1>9, <3>2
  <2> DEFINE new(c) == <<TagOf(y[1], c), c, Dlogit(r, y[1], c)>>
  <2>4. {Factor(base + j, dlogits[r][y[1], j]) : j \in cols} = {new(base + j) : j \in cols}
    BY <2>3
  <2>5. HiddenSum(r, y[1], First(next)) = {new(c) : c \in First(next)} /\ HiddenSum(r, y[1], First(base)) = {new(c) : c \in First(base)}
    BY DEF HiddenSum
  <2> HIDE DEF new, First
  <2>6. {new(c) : c \in First(next)} = {new(c) : c \in First(base)} \cup {new(base + j) : j \in cols}
    <3>1. \A c \in First(next) : c \in First(base) \/ \E j \in cols : c = base + j
      BY <1>7
    <3>2. \A c \in First(base) : c \in First(next)
      BY <1>7
    <3>3. \A j \in cols : base + j \in First(next)
      BY <1>8
    <3> QED
      BY <3>1, <3>2, <3>3
  <2> QED
    BY <2>1, <2>2, <2>4, <2>5, <2>6
<1>12. \A y \in OwnColumns \X Blocks : y[1] < next => dweight'[r][y] = WeightSum(r, y[1], Tokens)
  <2> SUFFICES ASSUME NEW y \in OwnColumns \X Blocks, y[1] < next PROVE dweight'[r][y] = WeightSum(r, y[1], Tokens)
    OBVIOUS
  <2> HIDE DEF base, next, cols
  <2>1. dweight'[r][y] = IF y[1] - base \in cols THEN {Factor(t, dlogits[r][t, y[1] - base]) : t \in Tokens} ELSE dweight[r][y]
    BY <1>2, <1>3
  <2>2. y[1] \in First(next)
    OBVIOUS
  <2>3. CASE y[1] - base \in cols
    <3>1. base + (y[1] - base) = y[1]
      BY <1>5 DEF OwnColumns, Below0
    <3>2. \A t \in Tokens : Factor(t, dlogits[r][t, y[1] - base]) = <<TagOf(t, y[1]), t, Dlogit(r, t, y[1])>>
      <4> SUFFICES ASSUME NEW t \in Tokens
                   PROVE  Factor(t, dlogits[r][t, y[1] - base]) = <<TagOf(t, y[1]), t, Dlogit(r, t, y[1])>>
        OBVIOUS
      <4>1. y[1] - base \in W
        BY <2>3 DEF cols
      <4>2. dlogits[r][t, y[1] - base] = Dlogit(r, t, base + (y[1] - base))
        BY <1>6, <4>1
      <4>3. dlogits[r][t, y[1] - base] = Dlogit(r, t, y[1])
        BY <3>1, <4>2
      <4>4. Factor(t, Dlogit(r, t, y[1])) = <<TagOf(t, y[1]), t, Dlogit(r, t, y[1])>>
        BY <1>9
      <4> QED
        BY <4>3, <4>4
    <3> QED
      BY <2>1, <2>3, <3>2 DEF WeightSum
  <2>4. CASE ~(y[1] - base \in cols)
    <3>1. y[1] < base
      BY <1>7, <2>2, <2>4
    <3> QED
      BY <1>3, <2>1, <2>4, <3>1 DEF SplitsBefore
  <2> QED
    BY <2>3, <2>4
<1>13. SplitsBefore(r, next, dhidden'[r], dweight'[r])
  BY <1>11, <1>12 DEF SplitsBefore
<1>14. next = split'[r] * work.backSplit /\ split'[r] \in Nat
  BY <1>3, <1>5, <1>10
<1>15. kernel' \in [Groups -> Kernels] /\ \A s \in Groups : s # r => kernel'[s] = kernel[s] /\ left'[s] = left[s]
  <2>1. "split" \in Kernels /\ "done" \in Kernels
    BY DEF Kernels
  <2> QED
    BY <1>2, <1>3, <2>1
<1>16. RankOk(r, kernel'[r], Programs \ left'[r], split'[r], dlogits'[r], dhidden'[r], dweight'[r])
  <2>0. Programs \ left'[r] = {} /\ DOMAIN dlogits'[r] = Tokens \X Buffer
    BY <1>1, <1>2, <1>3 DEF Ran, RankOk
  <2> HIDE DEF base, next, cols, W
  <2>1. CASE kernel'[r] = "split"
    <3>1. StoredBy(r, {}, work.backSplit, next, dlogits'[r])
      BY DEF StoredBy, CoveredBy
    <3> QED
      BY <1>3, <1>10, <1>13, <1>14, <2>0, <2>1, <3>1 DEF RankOk, Kernels, Forwards
  <2>2. CASE kernel'[r] = "done"
    <3>1. ~(split[r] + 1 < BackSplits)
      BY <1>2, <1>3, <2>2
    <3>2. next >= work.vocab
      <4>1. BackSplits \in Nat \ {0} /\ work.backSplit * BackSplits >= work.vocab
        BY <1>4, CdivCovers DEF BackSplits
      <4>2. split'[r] >= BackSplits
        BY <1>3, <1>10, <3>1, <4>1
      <4>3. work.backSplit * (split'[r] - BackSplits) >= 0
        BY <1>4, <1>14, <4>1, <4>2
      <4>4. work.backSplit * (split'[r] - BackSplits) = split'[r] * work.backSplit - work.backSplit * BackSplits
        BY <1>4, <1>14, <4>1
      <4>5. split'[r] * work.backSplit \in Nat /\ work.backSplit * BackSplits \in Nat
        BY <1>4, <1>14, <4>1
      <4> QED
        BY <1>4, <1>14, <4>1, <4>3, <4>4, <4>5
    <3>3. First(next) = OwnColumns /\ \A c \in OwnColumns : c < next
      BY <1>4, <1>14, <3>2 DEF OwnColumns, Below0
    <3>4. HiddenWhole(r, dhidden'[r])
      BY <1>11, <3>3 DEF HiddenWhole
    <3>5. WeightWhole(r, dweight'[r])
      BY <1>12, <3>3 DEF WeightWhole
    <3> QED
      BY <1>3, <1>10, <1>14, <2>0, <2>2, <3>4, <3>5 DEF RankOk, Kernels, Forwards
  <2> QED
    BY <1>2, <1>3, <2>1, <2>2
<1> QED
  BY <1>2, <1>3, <1>10, <1>15, <1>16, RankStep

\* A program of the kernel for d_hidden computes its tiles.
LEMMA HiddenKernelStep ==
  ASSUME GradInv, NEW r \in Groups, NEW p \in Programs, HiddenKernel(r, p)
  PROVE  GradInv'
<1>1. IsWork(work) /\ RankOk(r, kernel[r], Ran(r), split[r], dlogits[r], dhidden[r], dweight[r])
  BY DEF GradInv
<1>2. kernel[r] = "d_hidden" /\ Ends(r, p, "d_weight") /\ work' = work /\ split' = split /\ dlogits' = dlogits /\ dweight' = dweight
  BY DEF HiddenKernel
<1>3. /\ kernel' \in [Groups -> Kernels] /\ left' \in [Groups -> SUBSET Programs]
      /\ \A s \in Groups : s # r => kernel'[s] = kernel[s] /\ left'[s] = left[s]
      /\ \/ kernel'[r] = "d_weight" /\ left'[r] = Programs /\ Ran(r) \cup {p} = Programs
         \/ kernel'[r] = kernel[r] /\ Programs \ left'[r] = Ran(r) \cup {p}
  <2>1. "d_weight" \in Kernels
    BY DEF Kernels
  <2> QED
    BY <1>2, <2>1, EndsOne
<1> DEFINE tiles == Grid(p, RowBlocks, work.kblocks)
<1>4. dhidden' = [dhidden EXCEPT ![r] = [y \in DOMAIN @ |-> IF <<RowOf(y[1]), y[2]>> \in tiles THEN HiddenOf(r, y[1]) ELSE @[y]]]
  BY DEF HiddenKernel
<1>5. DOMAIN dhidden = Groups /\ DOMAIN dweight = Groups /\ DOMAIN split = Groups /\ DOMAIN dlogits = Groups
      /\ work.mode = "apart" /\ DOMAIN dhidden[r] = Tokens \X Blocks /\ HiddenBy(r, Ran(r), dhidden[r])
  BY <1>1, <1>2 DEF GradInv, RankOk
<1> HIDE DEF tiles
<1>6. /\ DOMAIN dhidden' = Groups /\ \A s \in Groups : s # r => dhidden'[s] = dhidden[s]
      /\ DOMAIN dhidden'[r] = Tokens \X Blocks
      /\ \A y \in Tokens \X Blocks : dhidden'[r][y] = IF <<RowOf(y[1]), y[2]>> \in tiles THEN HiddenOf(r, y[1]) ELSE dhidden[r][y]
  BY <1>4, <1>5
<1>7. \A t : HiddenOf(r, t) = HiddenSum(r, t, OwnColumns)
  BY <1>5 DEF HiddenOf, HiddenSum, TagOf, Factor
<1>8. HiddenBy(r, Ran(r) \cup {p}, dhidden'[r])
  <2>1. CoveredBy(Ran(r) \cup {p}, RowBlocks, work.kblocks) = CoveredBy(Ran(r), RowBlocks, work.kblocks) \cup tiles
    BY CoveredGrows DEF tiles
  <2>2. \A y \in Tokens \X Blocks : <<RowOf(y[1]), y[2]>> \in CoveredBy(Ran(r), RowBlocks, work.kblocks)
           => dhidden[r][y] = HiddenSum(r, y[1], OwnColumns)
    BY <1>5 DEF HiddenBy
  <2> QED
    BY <1>6, <1>7, <2>1, <2>2 DEF HiddenBy
<1>9. RankOk(r, kernel'[r], Programs \ left'[r], split'[r], dlogits'[r], dhidden'[r], dweight'[r])
  <2>1. CASE kernel'[r] = "d_weight" /\ left'[r] = Programs /\ Ran(r) \cup {p} = Programs
    <3>1. HiddenWhole(r, dhidden'[r])
      <4>1. \A y \in Tokens \X Blocks : <<RowOf(y[1]), y[2]>> \in CoveredBy(Programs, RowBlocks, work.kblocks)
        BY <1>1, HiddenTilesCovered
      <4> QED
        BY <1>8, <2>1, <4>1 DEF HiddenBy, HiddenWhole
    <3>2. WeightBy(r, {}, dweight'[r])
      BY DEF WeightBy, CoveredBy
    <3>3. Programs \ left'[r] = {}
      BY <2>1
    <3> QED
      BY <1>1, <1>2, <1>5, <1>6, <2>1, <3>1, <3>2, <3>3 DEF RankOk, Kernels, Forwards
  <2>2. CASE kernel'[r] = kernel[r] /\ Programs \ left'[r] = Ran(r) \cup {p}
    BY <1>1, <1>2, <1>5, <1>6, <1>8, <2>2 DEF RankOk, Kernels, Forwards
  <2> QED
    BY <1>3, <2>1, <2>2
<1> QED
  BY <1>2, <1>3, <1>5, <1>6, <1>9, RankStep

\* A program of the kernel for d_weight computes its tiles.
LEMMA WeightKernelStep ==
  ASSUME GradInv, NEW r \in Groups, NEW p \in Programs, WeightKernel(r, p)
  PROVE  GradInv'
<1>1. IsWork(work) /\ RankOk(r, kernel[r], Ran(r), split[r], dlogits[r], dhidden[r], dweight[r])
  BY DEF GradInv
<1>2. kernel[r] = "d_weight" /\ Ends(r, p, "done") /\ work' = work /\ split' = split /\ dlogits' = dlogits /\ dhidden' = dhidden
  BY DEF WeightKernel
<1>3. /\ kernel' \in [Groups -> Kernels] /\ left' \in [Groups -> SUBSET Programs]
      /\ \A s \in Groups : s # r => kernel'[s] = kernel[s] /\ left'[s] = left[s]
      /\ \/ kernel'[r] = "done" /\ left'[r] = Programs /\ Ran(r) \cup {p} = Programs
         \/ kernel'[r] = kernel[r] /\ Programs \ left'[r] = Ran(r) \cup {p}
  <2>1. "done" \in Kernels
    BY DEF Kernels
  <2> QED
    BY <1>2, <2>1, EndsOne
<1> DEFINE tiles == Grid(p, Pairs(work.vocab), work.kblocks)
<1>4. dweight' = [dweight EXCEPT ![r] = [y \in DOMAIN @ |-> IF <<PairOf(y[1]), y[2]>> \in tiles THEN WeightOf(r, y[1]) ELSE @[y]]]
  BY DEF WeightKernel
<1>5. DOMAIN dhidden = Groups /\ DOMAIN dweight = Groups /\ DOMAIN split = Groups /\ DOMAIN dlogits = Groups
      /\ work.mode = "apart" /\ DOMAIN dweight[r] = OwnColumns \X Blocks /\ WeightBy(r, Ran(r), dweight[r])
      /\ HiddenWhole(r, dhidden[r])
  BY <1>1, <1>2 DEF GradInv, RankOk
<1> HIDE DEF tiles
<1>6. /\ DOMAIN dweight' = Groups /\ \A s \in Groups : s # r => dweight'[s] = dweight[s]
      /\ DOMAIN dweight'[r] = OwnColumns \X Blocks
      /\ \A y \in OwnColumns \X Blocks : dweight'[r][y] = IF <<PairOf(y[1]), y[2]>> \in tiles THEN WeightOf(r, y[1]) ELSE dweight[r][y]
  BY <1>4, <1>5
<1>7. \A c : WeightOf(r, c) = WeightSum(r, c, Tokens)
  BY <1>5 DEF WeightOf, WeightSum, TagOf, Factor
<1>8. WeightBy(r, Ran(r) \cup {p}, dweight'[r])
  <2>1. CoveredBy(Ran(r) \cup {p}, Pairs(work.vocab), work.kblocks) = CoveredBy(Ran(r), Pairs(work.vocab), work.kblocks) \cup tiles
    BY CoveredGrows DEF tiles
  <2>2. \A y \in OwnColumns \X Blocks : <<PairOf(y[1]), y[2]>> \in CoveredBy(Ran(r), Pairs(work.vocab), work.kblocks)
           => dweight[r][y] = WeightSum(r, y[1], Tokens)
    BY <1>5 DEF WeightBy
  <2> QED
    BY <1>6, <1>7, <2>1, <2>2 DEF WeightBy
<1>9. RankOk(r, kernel'[r], Programs \ left'[r], split'[r], dlogits'[r], dhidden'[r], dweight'[r])
  <2>1. CASE kernel'[r] = "done" /\ left'[r] = Programs /\ Ran(r) \cup {p} = Programs
    <3>1. WeightWhole(r, dweight'[r])
      <4>1. \A y \in OwnColumns \X Blocks : <<PairOf(y[1]), y[2]>> \in CoveredBy(Programs, Pairs(work.vocab), work.kblocks)
        BY <1>1, WeightTilesCovered
      <4> QED
        BY <1>8, <2>1, <4>1 DEF WeightBy, WeightWhole
    <3> QED
      BY <1>1, <1>2, <1>5, <1>6, <2>1, <3>1 DEF RankOk, Kernels, Forwards
  <2>2. CASE kernel'[r] = kernel[r] /\ Programs \ left'[r] = Ran(r) \cup {p}
    BY <1>1, <1>2, <1>5, <1>6, <1>8, <2>2 DEF RankOk, Kernels, Forwards
  <2> QED
    BY <1>3, <2>1, <2>2
<1> QED
  BY <1>2, <1>3, <1>5, <1>6, <1>9, RankStep

\* The backward pass starts with gradients of zeros where its kernels add to them.
LEMMA StartBackwardStep ==
  ASSUME GradInv, NEW r \in Groups, StartBackward(r)
  PROVE  GradInv'
<1>1. IsWork(work) /\ RankOk(r, kernel[r], Ran(r), split[r], dlogits[r], dhidden[r], dweight[r])
  BY DEF GradInv
<1>2. /\ kernel[r] = "forward" /\ kernel' = [kernel EXCEPT ![r] = IF work.mode = "apart" THEN "d_hidden" ELSE work.mode]
      /\ work' = work /\ left' = left /\ split' = split /\ dlogits' = dlogits /\ dhidden' = dhidden /\ dweight' = dweight
  BY DEF StartBackward, backward
<1>3. /\ kernel \in [Groups -> Kernels] /\ left \in [Groups -> SUBSET Programs]
      /\ DOMAIN dhidden = Groups /\ DOMAIN dweight = Groups /\ DOMAIN split = Groups /\ DOMAIN dlogits = Groups
  BY DEF GradInv
<1>4. work.mode \in {"fused", "separate", "split", "apart"}
  BY <1>1, WorkNumbers
<1>5. /\ kernel' \in [Groups -> Kernels]
      /\ kernel'[r] = IF work.mode = "apart" THEN "d_hidden" ELSE work.mode
      /\ \A s \in Groups : s # r => kernel'[s] = kernel[s]
  BY <1>2, <1>3, <1>4 DEF Kernels
<1>6. Programs \ left'[r] = {} /\ Ran(r) = {} /\ split[r] = 0
      /\ (work.mode = "fused" => FusedBy(r, {}, dhidden[r], dweight[r]))
  BY <1>1, <1>2 DEF RankOk, Forwards, Ran
<1>7. /\ StoredBy(r, {}, work.vocab, 0, dlogits[r]) /\ StoredBy(r, {}, work.backSplit, 0, dlogits[r])
      /\ HiddenBy(r, {}, dhidden[r])
  BY DEF StoredBy, HiddenBy, CoveredBy
<1>8. split[r] * work.backSplit = 0 /\ SplitsBefore(r, 0, dhidden[r], dweight[r])
  BY <1>1, <1>6, WorkNumbers DEF SplitsBefore, OwnColumns, Below0
<1>9. RankOk(r, kernel'[r], Programs \ left'[r], split'[r], dlogits'[r], dhidden'[r], dweight'[r])
  BY <1>1, <1>2, <1>4, <1>5, <1>6, <1>7, <1>8 DEF RankOk, Kernels, Forwards
<1> QED
  BY <1>2, <1>3, <1>5, <1>9, RankStep

\* The forward pass leaves the gradients alone.
LEMMA ForwardStep ==
  ASSUME GradInv, NEW r \in Groups, NEW p, NEW next \in Forwards, Ends(r, p, next), kernel[r] \in Forwards \ {"forward"},
         work' = work, UNCHANGED backward
  PROVE  GradInv'
<1>1. /\ IsWork(work) /\ RankOk(r, kernel[r], Ran(r), split[r], dlogits[r], dhidden[r], dweight[r])
      /\ DOMAIN dhidden = Groups /\ DOMAIN dweight = Groups /\ DOMAIN split = Groups /\ DOMAIN dlogits = Groups
  BY DEF GradInv
<1>2. split' = split /\ dlogits' = dlogits /\ dhidden' = dhidden /\ dweight' = dweight
  BY DEF backward
<1>3. /\ kernel' \in [Groups -> Kernels] /\ left' \in [Groups -> SUBSET Programs]
      /\ \A s \in Groups : s # r => kernel'[s] = kernel[s] /\ left'[s] = left[s]
      /\ \/ kernel'[r] = next /\ left'[r] = Programs
         \/ kernel'[r] = kernel[r]
  <2>1. next \in Kernels
    BY DEF Kernels
  <2> QED
    BY <2>1, EndsOne
<1>4. /\ kernel'[r] \in Forwards /\ Programs \ left'[r] \in SUBSET Programs
      /\ kernel'[r] = "forward" => Programs \ left'[r] = {}
  BY <1>3
<1>5. RankOk(r, kernel'[r], Programs \ left'[r], split'[r], dlogits'[r], dhidden'[r], dweight'[r])
  BY <1>1, <1>2, <1>4 DEF RankOk, Kernels, Forwards
<1> QED
  BY <1>1, <1>2, <1>3, <1>5, RankStep

\* A collective, after which every rank runs the same kernel.
LEMMA CollectiveStep ==
  ASSUME GradInv, NEW next \in Forwards \ {"forward"}, kernel' = [r \in Groups |-> next], \A r \in Groups : kernel[r] \in Forwards,
         work' = work, left' = left, UNCHANGED backward
  PROVE  GradInv'
<1>1. /\ split' = split /\ dlogits' = dlogits /\ dhidden' = dhidden /\ dweight' = dweight
      /\ kernel' \in [Groups -> Kernels]
  BY DEF backward, Kernels
<1>2. \A r \in Groups : RankOk(r, kernel'[r], Ran(r), split[r], dlogits[r], dhidden[r], dweight[r])
  <2> SUFFICES ASSUME NEW r \in Groups PROVE RankOk(r, kernel'[r], Ran(r), split[r], dlogits[r], dhidden[r], dweight[r])
    OBVIOUS
  <2>1. RankOk(r, kernel[r], Ran(r), split[r], dlogits[r], dhidden[r], dweight[r])
    BY DEF GradInv
  <2> QED
    BY <2>1 DEF RankOk, Kernels, Forwards
<1>3. /\ IsWork(work)' /\ Groups' = Groups /\ Programs' = Programs
      /\ \A s, k, P, sp, dl, dh, dw : RankOk(s, k, P, sp, dl, dh, dw)' <=> RankOk(s, k, P, sp, dl, dh, dw)
  BY WorkStays DEF GradInv
<1>4. \A s \in Groups : Ran(s)' = Ran(s)
  BY <1>3 DEF Ran
<1>5. \A s \in Groups : RankOk(s, kernel[s], Ran(s), split[s], dlogits[s], dhidden[s], dweight[s])'
  BY <1>1, <1>2, <1>3, <1>4
<1> QED
  BY <1>1, <1>3, <1>5 DEF GradInv

\* A step that changes no variable of the gradients.
LEMMA GradStutter ==
  ASSUME GradInv, work' = work, kernel' = kernel, left' = left, UNCHANGED backward
  PROVE  GradInv'
<1>1. split' = split /\ dlogits' = dlogits /\ dhidden' = dhidden /\ dweight' = dweight
  BY DEF backward
<1>3. /\ IsWork(work)' /\ Groups' = Groups /\ Programs' = Programs
      /\ \A s, k, P, sp, dl, dh, dw : RankOk(s, k, P, sp, dl, dh, dw)' <=> RankOk(s, k, P, sp, dl, dh, dw)
  BY WorkStays DEF GradInv
<1>4. \A s \in Groups : Ran(s)' = Ran(s)
  BY <1>3 DEF Ran
<1>5. \A s \in Groups : RankOk(s, kernel[s], Ran(s), split[s], dlogits[s], dhidden[s], dweight[s])'
  BY <1>1, <1>3, <1>4 DEF GradInv
<1> QED
  BY <1>1, <1>3, <1>5 DEF GradInv

\* A call starts in GradInv.
LEMMA GradInit ==
  ASSUME NEW w \in EntropyWorks, EntropyInit(w)
  PROVE  GradInv
<1>1. IsWork(work) /\ work = w
  BY WorksAssumption DEF EntropyInit
<1>2. /\ kernel = [r \in Groups |-> "mainloop"] /\ left = [r \in Groups |-> Programs] /\ split = [r \in Groups |-> 0]
      /\ dlogits = [r \in Groups |-> [x \in Tokens \X Buffer |-> <<-1, -1, FALSE>>]]
      /\ dhidden = [r \in Groups |-> [x \in Tokens \X Blocks |->
                      IF work.mode = "fused" THEN {} ELSE {Factor(-1, <<-1, -1, FALSE>>)}]]
      /\ dweight = [r \in Groups |-> [x \in OwnColumns \X Blocks |->
                      IF work.mode = "fused" THEN {} ELSE {Factor(-1, <<-1, -1, FALSE>>)}]]
  BY <1>1 DEF EntropyInit, Programs, Buffer
<1>3. "mainloop" \in Kernels /\ "mainloop" \in Forwards
  BY DEF Kernels, Forwards
<1>4. kernel \in [Groups -> Kernels] /\ left \in [Groups -> SUBSET Programs]
  BY <1>2, <1>3
<1>5. ASSUME NEW r \in Groups
      PROVE  RankOk(r, kernel[r], Ran(r), split[r], dlogits[r], dhidden[r], dweight[r])
  <2>1. kernel[r] = "mainloop" /\ Ran(r) = {} /\ split[r] = 0
    BY <1>2 DEF Ran
  <2>2. DOMAIN dlogits[r] = Tokens \X Buffer /\ DOMAIN dhidden[r] = Tokens \X Blocks /\ DOMAIN dweight[r] = OwnColumns \X Blocks
    BY <1>2
  <2>3. ASSUME work.mode = "fused" PROVE FusedBy(r, {}, dhidden[r], dweight[r])
    <3>1. CoveredBy({}, RowBlocks, Pairs(work.vocab)) = {}
      BY DEF CoveredBy
    <3>2. \A t : HiddenSum(r, t, {}) = {} /\ WeightSum(r, t, {}) = {}
      BY DEF HiddenSum, WeightSum
    <3>3. \A y \in Tokens \X Blocks : dhidden[r][y] = {}
      BY <1>2, <2>3
    <3>4. \A y \in OwnColumns \X Blocks : dweight[r][y] = {}
      BY <1>2, <2>3
    <3> QED
      BY <3>1, <3>2, <3>3, <3>4 DEF FusedBy
  <2> QED
    BY <1>3, <2>1, <2>2, <2>3 DEF RankOk, Forwards
<1> QED
  BY <1>1, <1>2, <1>4, <1>5 DEF GradInv

\* Every step of the forward and backward pass keeps GradInv.
LEMMA GradNext ==
  ASSUME GradInv, EntropyNext
  PROVE  GradInv'
<1>1. ASSUME NEW r \in Groups, NEW p \in Below0(work.cores), Mainloop(r, p) PROVE GradInv'
  BY <1>1, ForwardStep DEF Mainloop, Forwards
<1>2. ASSUME NEW r \in Groups, NEW p \in Below0(work.cores), Epilogue(r, p) PROVE GradInv'
  BY <1>2, ForwardStep DEF Epilogue, Forwards
<1>3. ASSUME NEW r \in Groups, NEW p \in Below0(work.cores), EpilogueTp(r, p) PROVE GradInv'
  BY <1>3, ForwardStep DEF EpilogueTp, Forwards
<1>4. ASSUME NEW r \in Groups, NEW p \in Below0(work.cores), Update(r, p) PROVE GradInv'
  BY <1>4, ForwardStep DEF Update, Forwards
<1>5. ASSUME ReduceMax PROVE GradInv'
  BY <1>5, CollectiveStep DEF ReduceMax, Forwards
<1>6. ASSUME ReduceSums PROVE GradInv'
  BY <1>6, CollectiveStep DEF ReduceSums, Forwards
<1>7. ASSUME ReduceLogprobs PROVE GradInv'
  BY <1>7, GradStutter DEF ReduceLogprobs
<1>8. ASSUME NEW r \in Groups, NEW p \in Below0(work.cores),
             Fused(r, p) \/ Separate(r, p) \/ SplitLogits(r, p) \/ HiddenKernel(r, p) \/ WeightKernel(r, p)
      PROVE GradInv'
  BY <1>8, FusedStep, SeparateStep, SplitLogitsStep, HiddenKernelStep, WeightKernelStep DEF Programs
<1>9. ASSUME NEW r \in Groups, StartBackward(r) \/ Products(r) \/ SplitProducts(r) PROVE GradInv'
  BY <1>9, StartBackwardStep, ProductsStep, SplitProductsStep
<1> QED
  BY <1>1, <1>2, <1>3, <1>4, <1>5, <1>6, <1>7, <1>8, <1>9 DEF EntropyNext

\* Sums that are whole have every term once, and the label in the one logit that is the label.
LEMMA SumsAreWhole ==
  ASSUME IsWork(work), NEW r \in Groups, NEW t \in Tokens, NEW c \in OwnColumns
  PROVE  /\ Terms(HiddenSum(r, t, OwnColumns)) = {<<d, t, d>> : d \in OwnColumns}
         /\ Cardinality(HiddenSum(r, t, OwnColumns)) = work.vocab
         /\ {Global(r, x[2]) : x \in {x \in HiddenSum(r, t, OwnColumns) : x[3][3]}}
              = {work.label[t]} \cap {Global(r, d) : d \in OwnColumns}
         /\ Terms(WeightSum(r, c, Tokens)) = {<<u, u, c>> : u \in Tokens}
         /\ Cardinality(WeightSum(r, c, Tokens)) = work.tokens
<1> DEFINE H == HiddenSum(r, t, OwnColumns)
           W == WeightSum(r, c, Tokens)
           inH(d) == <<TagOf(t, d), d, Dlogit(r, t, d)>>
           inW(u) == <<TagOf(u, c), u, Dlogit(r, u, c)>>
<1>1. H = {inH(d) : d \in OwnColumns} /\ W = {inW(u) : u \in Tokens}
  BY DEF HiddenSum, WeightSum
<1>2. /\ \A d : inH(d)[2] = d /\ inH(d)[3] = <<t, d, AtLabel(r, t, d)>>
      /\ \A u : inW(u)[2] = u /\ inW(u)[3] = <<u, c, AtLabel(r, u, c)>>
  BY DEF Dlogit
<1>3. /\ \A d : inH(d)[3][1] = t /\ inH(d)[3][2] = d /\ inH(d)[3][3] = AtLabel(r, t, d)
      /\ \A u : inW(u)[3][1] = u /\ inW(u)[3][2] = c
  BY <1>2
<1> HIDE DEF H, W, inH, inW
<1>4. Terms(H) = {<<d, t, d>> : d \in OwnColumns}
  BY <1>1, <1>2, <1>3 DEF Terms
<1>5. Terms(W) = {<<u, u, c>> : u \in Tokens}
  BY <1>1, <1>2, <1>3 DEF Terms
<1>6. {Global(r, x[2]) : x \in {x \in H : x[3][3]}} = {work.label[t]} \cap {Global(r, d) : d \in OwnColumns}
  <2> DEFINE L == {x \in H : x[3][3]}
             A == {Global(r, x[2]) : x \in L}
             B == {work.label[t]} \cap {Global(r, d) : d \in OwnColumns}
  <2>1. ASSUME NEW g \in A PROVE g \in B
    <3>1. PICK x \in H : x[3][3] /\ g = Global(r, x[2])
      OBVIOUS
    <3>2. PICK d \in OwnColumns : x = inH(d)
      BY <1>1
    <3>3. x[2] = d /\ x[3][3] = AtLabel(r, t, d)
      BY <3>2, <1>2, <1>3
    <3>4. Global(r, d) = work.label[t]
      BY <3>1, <3>3 DEF AtLabel
    <3> QED
      BY <3>1, <3>3, <3>4
  <2>2. ASSUME NEW g \in B PROVE g \in A
    <3>1. PICK d \in OwnColumns : g = Global(r, d) /\ g = work.label[t]
      OBVIOUS
    <3>2. inH(d) \in H /\ AtLabel(r, t, d) = TRUE
      BY <3>1, <1>1 DEF AtLabel
    <3>3. inH(d) \in L /\ Global(r, inH(d)[2]) = g
      BY <3>1, <3>2, <1>2, <1>3
    <3> QED
      BY <3>3
  <2>3. A = B
    BY <2>1, <2>2
  <2> QED
    BY <2>3
<1>7. Cardinality(H) = work.vocab
  <2> DEFINE f == [d \in OwnColumns |-> inH(d)]
  <2>1. f \in [OwnColumns -> H] /\ \A d, e \in OwnColumns : f[d] = f[e] => d = e
    BY <1>1, <1>2
  <2>2. \A h \in H : \E d \in OwnColumns : f[d] = h
    BY <1>1
  <2> HIDE DEF f
  <2>3. ExistsBijection(OwnColumns, H)
    BY <2>1, <2>2 DEF ExistsBijection, Bijection, Injection, Surjection, IsInjective
  <2>4. IsFiniteSet(OwnColumns) /\ Cardinality(OwnColumns) = work.vocab
    <3>1. work.vocab \in Nat \ {0}
      BY WorkNumbers
    <3>2. OwnColumns = 0 .. (work.vocab - 1)
      BY DEF OwnColumns, Below0
    <3>3. 0 \in Int /\ work.vocab - 1 \in Int /\ ~(0 > work.vocab - 1) /\ (work.vocab - 1) - 0 + 1 = work.vocab
      BY <3>1
    <3>4. IsFiniteSet(0 .. (work.vocab - 1)) /\ Cardinality(0 .. (work.vocab - 1)) = (work.vocab - 1) - 0 + 1
      BY <3>3, FS_Interval, Zenon
    <3> QED
      BY <3>2, <3>3, <3>4
  <2> QED
    BY <2>3, <2>4, FS_Bijection
<1>8. Cardinality(W) = work.tokens
  <2> DEFINE f == [u \in Tokens |-> inW(u)]
  <2>1. f \in [Tokens -> W] /\ \A d, e \in Tokens : f[d] = f[e] => d = e
    BY <1>1, <1>2
  <2>2. \A h \in W : \E d \in Tokens : f[d] = h
    BY <1>1
  <2> HIDE DEF f
  <2>3. ExistsBijection(Tokens, W)
    BY <2>1, <2>2 DEF ExistsBijection, Bijection, Injection, Surjection, IsInjective
  <2>4. IsFiniteSet(Tokens) /\ Cardinality(Tokens) = work.tokens
    <3>1. work.tokens \in Nat \ {0}
      BY WorkNumbers
    <3>2. Tokens = 0 .. (work.tokens - 1)
      BY DEF Tokens, Below0
    <3>3. 0 \in Int /\ work.tokens - 1 \in Int /\ ~(0 > work.tokens - 1) /\ (work.tokens - 1) - 0 + 1 = work.tokens
      BY <3>1
    <3>4. IsFiniteSet(0 .. (work.tokens - 1)) /\ Cardinality(0 .. (work.tokens - 1)) = (work.tokens - 1) - 0 + 1
      BY <3>3, FS_Interval, Zenon
    <3> QED
      BY <3>2, <3>3, <3>4
  <2> QED
    BY <2>3, <2>4, FS_Bijection
<1> QED
  BY <1>4, <1>5, <1>6, <1>7, <1>8 DEF H, W

\* For tensors and tunings of any size, in each of the four backward modes and whatever the
\* order of the programs, each gradient has every product once and the label where it belongs.
THEOREM EntropyGradientsAreWhole == EntropySpec => []GradientsAreWhole
<1>1. (\E w \in EntropyWorks : EntropyInit(w)) => GradInv
  BY GradInit
<1>2. GradInv /\ [EntropyNext]_kernelvars => GradInv'
  <2> SUFFICES ASSUME GradInv, [EntropyNext]_kernelvars PROVE GradInv'
    OBVIOUS
  <2>1. CASE EntropyNext
    BY <2>1, GradNext
  <2>2. CASE UNCHANGED kernelvars
    BY <2>2, GradStutter DEF kernelvars, backward
  <2> QED
    BY <2>1, <2>2
<1>3. GradInv => GradientsAreWhole
  <2> SUFFICES ASSUME GradInv, NEW r \in Groups, kernel[r] = "done"
               PROVE  /\ \A y \in DOMAIN dhidden[r] :
                           /\ Terms(dhidden[r][y]) = {<<c, y[1], c>> : c \in OwnColumns}
                           /\ Cardinality(dhidden[r][y]) = work.vocab
                           /\ {Global(r, x[2]) : x \in {x \in dhidden[r][y] : x[3][3]}}
                                = {work.label[y[1]]} \cap {Global(r, c) : c \in OwnColumns}
                      /\ \A y \in DOMAIN dweight[r] :
                           Terms(dweight[r][y]) = {<<t, t, y[1]>> : t \in Tokens} /\ Cardinality(dweight[r][y]) = work.tokens
    BY DEF GradientsAreWhole
  <2>1. /\ IsWork(work) /\ DOMAIN dhidden[r] = Tokens \X Blocks /\ DOMAIN dweight[r] = OwnColumns \X Blocks
        /\ HiddenWhole(r, dhidden[r]) /\ WeightWhole(r, dweight[r])
    BY DEF GradInv, RankOk
  <2>2. 0 \in OwnColumns /\ 0 \in Tokens
    BY <2>1, WorkNumbers DEF OwnColumns, Tokens, Below0
  <2>3. ASSUME NEW y \in DOMAIN dhidden[r]
        PROVE  /\ Terms(dhidden[r][y]) = {<<c, y[1], c>> : c \in OwnColumns} /\ Cardinality(dhidden[r][y]) = work.vocab
               /\ {Global(r, x[2]) : x \in {x \in dhidden[r][y] : x[3][3]}}
                    = {work.label[y[1]]} \cap {Global(r, c) : c \in OwnColumns}
    <3>1. y[1] \in Tokens /\ dhidden[r][y] = HiddenSum(r, y[1], OwnColumns)
      BY <2>1, <2>3 DEF HiddenWhole
    <3> QED
      BY <2>1, <2>2, <3>1, SumsAreWhole
  <2>4. ASSUME NEW y \in DOMAIN dweight[r]
        PROVE  Terms(dweight[r][y]) = {<<t, t, y[1]>> : t \in Tokens} /\ Cardinality(dweight[r][y]) = work.tokens
    <3>1. y[1] \in OwnColumns /\ dweight[r][y] = WeightSum(r, y[1], Tokens)
      BY <2>1, <2>4 DEF WeightWhole
    <3> QED
      BY <2>1, <2>2, <3>1, SumsAreWhole
  <2> QED
    BY <2>3, <2>4
<1> QED
  BY <1>1, <1>2, <1>3, PTL DEF EntropySpec

-----------------------------------------------------------------------------
(* The log probabilities: the logits and the scaling of sums.              *)

\* The logit of a token in a column of its rank, and the columns of a split.
LogitAt(r, t, c) == work.logit[t][Global(r, c)]
SplitOf(n) == {c \in OwnColumns : n * work.perSplit <= c /\ c < (n + 1) * work.perSplit}
UpToBlock(n, b) == {c \in OwnColumns : n * work.perSplit <= c /\ c < n * work.perSplit + b * work.bn}
Relative(r, t, C, m) == {<<Global(r, c), LogitAt(r, t, c) - m>> : c \in C}

\* Numbers that are bounded have a greatest one.
LEMMA Greatest ==
  ASSUME NEW S \in SUBSET Int, S # {}, NEW m \in Int, \A x \in S : x < m
  PROVE  Max(S) \in S /\ \A x \in S : x <= Max(S)
<1> DEFINE T == {n \in Nat : \E x \in S : n = m - x}
<1>1. T \in SUBSET Nat /\ T # {}
  <2>1. PICK x \in S : TRUE
    OBVIOUS
  <2>2. m - x \in Nat
    BY <2>1
  <2>3. m - x \in T
    BY <2>2
  <2> QED
    BY <2>3
<1>2. PICK n \in T : \A k \in T : n <= k
  BY <1>1, LeastNat
<1>3. PICK x \in S : n = m - x
  BY <1>2
<1>4. \A y \in S : x >= y
  <2>1. ASSUME NEW y \in S PROVE x >= y
    <3>1. m - y \in T
      OBVIOUS
    <3>2. n <= m - y
      BY <1>2, <3>1
    <3> QED
      BY <1>3, <3>2
  <2> QED
    BY <2>1
<1> QED
  BY <1>3, <1>4 DEF Max

\* The logits of a call.
LEMMA Logits ==
  ASSUME IsWork(work), NEW r \in Groups, NEW t \in Tokens, NEW c \in OwnColumns
  PROVE  /\ Global(r, c) \in Below0(work.ranks * work.vocab)
         /\ LogitAt(r, t, c) \in Int /\ LogitAt(r, t, c) < 500 /\ -500 < LogitAt(r, t, c)
<1>1. work.ranks \in Nat \ {0} /\ work.vocab \in Nat \ {0}
  BY WorkNumbers
<1>2. Global(r, c) \in Below0(work.ranks * work.vocab)
  <2>1. r \in Nat /\ r + 1 <= work.ranks /\ c \in Nat /\ c < work.vocab
    BY <1>1 DEF Groups, OwnColumns, Below0
  <2>2. ASSUME NEW a \in Nat, NEW b \in Nat, NEW v \in Nat, a + 1 <= b PROVE a * v + v <= b * v
    BY <2>2
  <2>3. r * work.vocab + work.vocab <= work.ranks * work.vocab
    BY <1>1, <2>1, <2>2
  <2>4. r * work.vocab \in Nat /\ work.ranks * work.vocab \in Nat
    BY <1>1, <2>1
  <2> QED
    BY <1>1, <2>1, <2>3, <2>4 DEF Global, Below0
<1>3. work.logit \in [Tokens -> [Below0(work.ranks * work.vocab) -> Int]]
  BY DEF IsWork, Tokens
<1>4. \A x \in Tokens : \A d, e \in Below0(work.ranks * work.vocab) :
        work.logit[x][d] < 500 /\ work.logit[x][d] - work.logit[x][e] < 500 /\ -work.logit[x][d] < 500
  BY DEF IsWork, Tokens, Underflow
<1>5. LogitAt(r, t, c) \in Int
  BY <1>2, <1>3 DEF LogitAt
<1>6. LogitAt(r, t, c) < 500 /\ -LogitAt(r, t, c) < 500
  BY <1>2, <1>4 DEF LogitAt
<1> QED
  BY <1>2, <1>5, <1>6

\* Two logits of a token are nearer than exp underflows, whatever their ranks.
LEMMA LogitsApart ==
  ASSUME IsWork(work), NEW r \in Groups, NEW q \in Groups, NEW t \in Tokens, NEW c \in OwnColumns, NEW d \in OwnColumns
  PROVE  LogitAt(r, t, c) - LogitAt(q, t, d) > -500
<1>1. Global(r, c) \in Below0(work.ranks * work.vocab) /\ LogitAt(r, t, c) \in Int
  BY Logits
<1>2. Global(q, d) \in Below0(work.ranks * work.vocab) /\ LogitAt(q, t, d) \in Int
  BY Logits
<1>3. \A x \in Tokens : \A u, e \in Below0(work.ranks * work.vocab) : work.logit[x][u] - work.logit[x][e] < 500
  BY DEF IsWork, Tokens, Underflow
<1>4. LogitAt(q, t, d) - LogitAt(r, t, c) < 500
  BY <1>1, <1>2, <1>3 DEF LogitAt
<1> QED
  BY <1>1, <1>2, <1>4

\* Scaling moves every term, and drops none that stays above the underflow.
LEMMA Rescaled ==
  ASSUME NEW r, NEW t, NEW C, NEW m \in Int, NEW d \in Int,
         \A c \in C : LogitAt(r, t, c) \in Int /\ LogitAt(r, t, c) - m + d > -500
  PROVE  Scaled(Relative(r, t, C, m), d) = Relative(r, t, C, m - d)
<1> DEFINE A == Scaled(Relative(r, t, C, m), d)
           B == Relative(r, t, C, m - d)
<1>1. ASSUME NEW x \in A PROVE x \in B
  <2>1. PICK y \in Relative(r, t, C, m) : x = <<y[1], y[2] + d>>
    BY DEF Scaled
  <2>2. PICK c \in C : y = <<Global(r, c), LogitAt(r, t, c) - m>>
    BY <2>1 DEF Relative
  <2>3. x = <<Global(r, c), LogitAt(r, t, c) - m + d>>
    BY <2>1, <2>2
  <2>4. LogitAt(r, t, c) - m + d = LogitAt(r, t, c) - (m - d)
    OBVIOUS
  <2> QED
    BY <2>3, <2>4 DEF Relative
<1>2. ASSUME NEW x \in B PROVE x \in A
  <2>1. PICK c \in C : x = <<Global(r, c), LogitAt(r, t, c) - (m - d)>>
    BY DEF Relative
  <2>2. LogitAt(r, t, c) - m + d = LogitAt(r, t, c) - (m - d)
    OBVIOUS
  <2> DEFINE y == <<Global(r, c), LogitAt(r, t, c) - m>>
  <2>3. y \in Relative(r, t, C, m)
    BY DEF Relative
  <2>4. x = <<y[1], y[2] + d>> /\ x[2] > -500
    BY <2>1, <2>2
  <2> QED
    BY <2>3, <2>4 DEF Scaled, Underflow
<1> QED
  BY <1>1, <1>2

-----------------------------------------------------------------------------
(* One split: the loop over its blocks.                                    *)

\* What is summed after b blocks of a split: its columns so far, relative to one of them.
AfterBlocks(r, t, n, acc, b) ==
  /\ acc.max \in {LogitAt(r, t, c) : c \in UpToBlock(n, b)}
  /\ acc.terms = Relative(r, t, UpToBlock(n, b), acc.max)
  /\ acc.pick \in Int
  /\ Owns(r, n, work.label[t]) =>
       acc.pick = IF \E c \in UpToBlock(n, b) : AtLabel(r, t, c) THEN work.logit[t][work.label[t]] ELSE 0
Nothing == [max |-> NegInf, terms |-> {}, pick |-> 0]

\* Products.
LEMMA Times ==
  ASSUME NEW a \in Nat, NEW b \in Nat, NEW v \in Nat
  PROVE  /\ a * v \in Nat /\ v * a = a * v /\ (a + 1) * v = a * v + v
         /\ a <= b => v * a <= v * b
OBVIOUS

\* A split is a whole number of blocks, and begins before the end of the vocabulary.
LEMMA SplitBlocks ==
  ASSUME IsWork(work), NEW n \in Splits
  PROVE  /\ Cdiv(work.perSplit, work.bn) \in Nat \ {0}
         /\ work.bn * Cdiv(work.perSplit, work.bn) = work.perSplit
         /\ n \in Nat /\ n * work.perSplit \in Nat /\ n * work.perSplit < work.vocab
         /\ (n + 1) * work.perSplit = n * work.perSplit + work.perSplit
<1>1. work.perSplit \in Nat \ {0} /\ work.bn \in Nat \ {0} /\ work.vocab \in Nat \ {0} /\ work.perSplit % work.bn = 0
  BY WorkNumbers DEF IsWork
<1>2. Cdiv(work.perSplit, work.bn) \in Nat \ {0}
  BY <1>1, CdivCovers
<1>3. work.bn * Cdiv(work.perSplit, work.bn) = work.perSplit
  <2> DEFINE p == work.perSplit
             b == work.bn
             q == p \div b
  <2>1. q \in Nat /\ p = b * q + 0
    BY <1>1, DivMod
  <2>2. q * b + (b - 1) = p + b - 1
    BY <1>1, <2>1
  <2>3. (b * q + (b - 1)) \div b = q
    <3>1. b - 1 \in 0 .. b - 1
      BY <1>1
    <3> QED
      BY <1>1, <2>1, <3>1, DivOf
  <2>4. b * q + (b - 1) = p + b - 1
    BY <1>1, <2>1
  <2>5. Cdiv(p, b) = q
    BY <2>3, <2>4 DEF Cdiv
  <2> QED
    BY <1>1, <2>1, <2>5
<1>4. n \in Nat /\ n * work.perSplit \in Nat /\ (n + 1) * work.perSplit = n * work.perSplit + work.perSplit
  BY <1>1 DEF Splits, Below0
<1>5. n * work.perSplit < work.vocab
  <2> DEFINE p == work.perSplit
             v == work.vocab
             q == (v + p - 1) \div p
  <2>1. v + p - 1 \in Nat
    BY <1>1
  <2>2. q \in Nat /\ (v + p - 1) % p \in 0 .. p - 1 /\ v + p - 1 = p * q + ((v + p - 1) % p)
    BY <1>1, <2>1, DivMod
  <2>3. p * q <= v + p - 1
    BY <1>1, <2>2
  <2>4. n + 1 <= q
    BY <2>2 DEF Splits, Cdiv, Below0
  <2>5. p * (n + 1) <= p * q
    <3>1. p \in Nat /\ n + 1 \in Nat /\ q \in Nat
      BY <1>1, <1>4, <2>2
    <3> HIDE DEF p, q
    <3> QED
      BY <2>4, <3>1, Times
  <2>6. n * p + p <= p * q
    BY <1>1, <1>4, <2>5
  <2> QED
    BY <1>1, <1>4, <2>2, <2>3, <2>6
<1> QED
  BY <1>2, <1>3, <1>4, <1>5

\* What a block reads: the logits of its columns, and the mask behind the vocabulary.
LEMMA BlockReads ==
  ASSUME IsWork(work), NEW r \in Groups, NEW t \in Tokens, NEW n \in Splits,
         NEW b \in Nat, b + 1 <= Cdiv(work.perSplit, work.bn), NEW c \in Int,
         n * work.perSplit + b * work.bn <= c, c < n * work.perSplit + b * work.bn + work.bn
  PROVE  /\ c \in Nat /\ b * work.bn \in Nat
         /\ b * work.bn + work.bn <= work.perSplit
         /\ (b + 1) * work.bn = b * work.bn + work.bn
         /\ c \in OwnColumns <=> c < work.vocab
         /\ c < work.vocab => LogitOf(r, t, n, n * work.perSplit + b * work.bn, c) = LogitAt(r, t, c)
         /\ ~(c < work.vocab) => LogitOf(r, t, n, n * work.perSplit + b * work.bn, c) = Masked
<1> DEFINE N == Cdiv(work.perSplit, work.bn)
           p == work.perSplit
           s == n * work.perSplit
           w == work.bn
           v == work.vocab
<1>1. /\ p \in Nat \ {0} /\ w \in Nat \ {0} /\ v \in Nat \ {0} /\ N \in Nat \ {0}
      /\ w * N = p /\ s \in Nat /\ (n + 1) * p = s + p
  BY WorkNumbers, SplitBlocks
<1> HIDE DEF N
<1>2. b * w \in Nat /\ (b + 1) * w = b * w + w /\ b * w + w <= p
  <2>1. b * w \in Nat /\ (b + 1) * w = b * w + w
    BY <1>1, Times
  <2>2. b + 1 <= N
    BY DEF N
  <2>3. w * (b + 1) <= w * N
    BY <1>1, <2>2
  <2>4. w * (b + 1) = (b + 1) * w
    BY <1>1
  <2> QED
    BY <1>1, <2>1, <2>3, <2>4
<1>3. c \in Nat /\ (c \in OwnColumns <=> c < v)
  BY <1>1, <1>2 DEF OwnColumns, Below0
<1>4. c < (n + 1) * p
  BY <1>1, <1>2
<1>5. ASSUME c < v PROVE LogitOf(r, t, n, s + b * w, c) = LogitAt(r, t, c)
  <2>1. ~(c >= v) /\ ~(c >= Lesser((n + 1) * p, v))
    BY <1>1, <1>3, <1>4, <1>5 DEF Lesser
  <2> QED
    BY <2>1 DEF LogitOf, LogitAt
<1>6. ASSUME ~(c < v) PROVE LogitOf(r, t, n, s + b * w, c) = Masked
  <2>1. c >= v /\ s + b * w + w > v
    BY <1>1, <1>2, <1>3, <1>6
  <2> QED
    BY <2>1 DEF LogitOf
<1> QED
  BY <1>2, <1>3, <1>5, <1>6

\* The maximum of a block that begins before the end of the vocabulary is one of its
\* logits, that of any other block is the mask.
LEMMA BlockMax ==
  ASSUME IsWork(work), NEW r \in Groups, NEW t \in Tokens, NEW n \in Splits,
         NEW b \in Nat, b + 1 <= Cdiv(work.perSplit, work.bn), NEW first, first = n * work.perSplit + b * work.bn
  PROVE  LET M == Max({LogitOf(r, t, n, first, c) : c \in first .. first + work.bn - 1})
             C == {c \in OwnColumns : first <= c /\ c < first + work.bn}
         IN  /\ M \in {LogitAt(r, t, c) : c \in C} \/ (C = {} /\ M = Masked)
             /\ C # {} => M # Masked
             /\ first < work.vocab => C # {}
<1> DEFINE cols == first .. first + work.bn - 1
           S == {LogitOf(r, t, n, first, c) : c \in cols}
           M == Max(S)
           C == {c \in OwnColumns : first <= c /\ c < first + work.bn}
<1>1. first \in Nat /\ work.bn \in Nat \ {0} /\ work.vocab \in Nat
  <2>1. b * work.bn \in Nat
    BY WorkNumbers, Times
  <2> QED
    BY <2>1, WorkNumbers, SplitBlocks
<1>2. ASSUME NEW c \in cols
      PROVE  /\ c \in Nat /\ (c \in C <=> c < work.vocab)
             /\ c < work.vocab => LogitOf(r, t, n, first, c) = LogitAt(r, t, c)
             /\ ~(c < work.vocab) => LogitOf(r, t, n, first, c) = Masked
  <2>1. c \in Int /\ n * work.perSplit + b * work.bn <= c /\ c < n * work.perSplit + b * work.bn + work.bn
    BY <1>1
  <2>2. /\ c \in Nat /\ (c \in OwnColumns <=> c < work.vocab)
        /\ c < work.vocab => LogitOf(r, t, n, first, c) = LogitAt(r, t, c)
        /\ ~(c < work.vocab) => LogitOf(r, t, n, first, c) = Masked
    BY <2>1, BlockReads
  <2> QED
    BY <1>1, <2>2
<1>3. \A c \in C : c \in cols
  <2>1. \A c \in OwnColumns : c \in Int
    BY DEF OwnColumns, Below0
  <2> QED
    BY <1>1, <2>1
<1>4. \A c \in C : LogitAt(r, t, c) \in Int /\ LogitAt(r, t, c) < 500 /\ LogitAt(r, t, c) > -500
  BY Logits
<1>5. \A c \in cols : \/ c \in C /\ LogitOf(r, t, n, first, c) = LogitAt(r, t, c)
                      \/ c \notin C /\ LogitOf(r, t, n, first, c) = Masked
  BY <1>2
<1>6. S \in SUBSET Int /\ \A x \in S : x < 500
  BY <1>4, <1>5 DEF Masked
<1>7. S # {}
  <2>1. first \in cols
    BY <1>1
  <2> QED
    BY <2>1
<1>8. M \in S /\ \A x \in S : x <= M
  <2> HIDE DEF S
  <2>1. 500 \in Int
    OBVIOUS
  <2> QED
    BY <1>6, <1>7, <2>1, Greatest
<1>9. PICK k \in cols : M = LogitOf(r, t, n, first, k)
  BY <1>8
<1>10. ASSUME NEW d \in C PROVE k \in C
  <2>1. LogitOf(r, t, n, first, d) \in S /\ LogitOf(r, t, n, first, d) = LogitAt(r, t, d)
    BY <1>3, <1>5
  <2>2. M >= LogitAt(r, t, d) /\ LogitAt(r, t, d) > -500
    BY <1>4, <1>8, <2>1, <1>6
  <2>3. M # Masked
    BY <2>2, <1>4 DEF Masked
  <2> QED
    BY <1>5, <1>9, <2>3
<1>11. first < work.vocab => C # {}
  <2>1. first \in cols
    BY <1>1
  <2> QED
    BY <1>2, <2>1
<1>12. k \in C => M \in {LogitAt(r, t, c) : c \in C} /\ M # Masked
  <2> SUFFICES ASSUME k \in C PROVE M \in {LogitAt(r, t, c) : c \in C} /\ M # Masked
    OBVIOUS
  <2>1. M = LogitAt(r, t, k)
    BY <1>5, <1>9
  <2>2. M > -500 /\ M \in Int
    BY <1>4, <2>1
  <2> HIDE DEF M
  <2> QED
    BY <2>1, <2>2 DEF Masked
<1>13. k \notin C => M = Masked /\ C = {}
  BY <1>5, <1>9, <1>10
<1> QED
  BY <1>11, <1>12, <1>13

\* What a block adds, relative to a logit of the token.
LEMMA BlockTerms ==
  ASSUME IsWork(work), NEW r \in Groups, NEW t \in Tokens, NEW n \in Splits,
         NEW b \in Nat, b + 1 <= Cdiv(work.perSplit, work.bn), NEW first, first = n * work.perSplit + b * work.bn,
         NEW e \in OwnColumns
  PROVE  Scaled({<<Global(r, c), LogitOf(r, t, n, first, c)>> : c \in first .. first + work.bn - 1}, -LogitAt(r, t, e))
           = Relative(r, t, {c \in OwnColumns : first <= c /\ c < first + work.bn}, LogitAt(r, t, e))
<1> DEFINE cols == first .. first + work.bn - 1
           m == LogitAt(r, t, e)
           C == {c \in OwnColumns : first <= c /\ c < first + work.bn}
           R == {<<Global(r, c), LogitOf(r, t, n, first, c)>> : c \in cols}
           A == Scaled(R, -m)
           B == Relative(r, t, C, m)
<1>1. first \in Nat /\ work.bn \in Nat \ {0} /\ work.vocab \in Nat
  <2>1. b * work.bn \in Nat
    BY WorkNumbers, Times
  <2> QED
    BY <2>1, WorkNumbers, SplitBlocks
<1>2. ASSUME NEW c \in cols
      PROVE  \/ c \in C /\ LogitOf(r, t, n, first, c) = LogitAt(r, t, c)
             \/ c \notin C /\ LogitOf(r, t, n, first, c) = Masked
  <2>1. c \in Int /\ n * work.perSplit + b * work.bn <= c /\ c < n * work.perSplit + b * work.bn + work.bn
    BY <1>1
  <2>2. /\ c \in Nat /\ (c \in OwnColumns <=> c < work.vocab)
        /\ c < work.vocab => LogitOf(r, t, n, first, c) = LogitAt(r, t, c)
        /\ ~(c < work.vocab) => LogitOf(r, t, n, first, c) = Masked
    BY <2>1, BlockReads
  <2> QED
    BY <1>1, <2>2
<1>3. \A c \in C : c \in cols
  <2>1. \A c \in OwnColumns : c \in Int
    BY DEF OwnColumns, Below0
  <2> QED
    BY <1>1, <2>1
<1>4. m \in Int /\ -500 < m /\ m < 500
  BY Logits
<1>5. \A c \in C : LogitAt(r, t, c) \in Int /\ LogitAt(r, t, c) - m > -500 /\ LogitAt(r, t, c) > -500
  BY Logits, LogitsApart
<1> HIDE DEF m, C, cols
<1>6. ASSUME NEW x \in A PROVE x \in B
  <2>1. PICK y \in R : x = <<y[1], y[2] + (-m)>> /\ x[2] > -500
    BY DEF Scaled, Underflow
  <2>2. PICK c \in cols : y = <<Global(r, c), LogitOf(r, t, n, first, c)>>
    BY <2>1
  <2>3. x = <<Global(r, c), LogitOf(r, t, n, first, c) + (-m)>> /\ LogitOf(r, t, n, first, c) + (-m) > -500
    BY <2>1, <2>2
  <2>4. LogitOf(r, t, n, first, c) # Masked
    BY <2>3, <1>4 DEF Masked
  <2>5. c \in C /\ x = <<Global(r, c), LogitAt(r, t, c) - m>>
    BY <1>2, <1>4, <1>5, <2>3, <2>4
  <2> QED
    BY <2>5 DEF Relative
<1>7. ASSUME NEW x \in B PROVE x \in A
  <2>1. PICK c \in C : x = <<Global(r, c), LogitAt(r, t, c) - m>>
    BY DEF Relative
  <2>2. c \in cols /\ LogitOf(r, t, n, first, c) = LogitAt(r, t, c)
    BY <1>2, <1>3, <1>5 DEF Masked
  <2> DEFINE y == <<Global(r, c), LogitOf(r, t, n, first, c)>>
  <2>3. y \in R
    BY <2>2
  <2>4. x = <<y[1], y[2] + (-m)>> /\ x[2] > -500
    BY <1>4, <1>5, <2>1, <2>2
  <2> HIDE DEF y
  <2> QED
    BY <2>3, <2>4 DEF Scaled, Underflow
<1>8. A = B
  BY <1>6, <1>7
<1> QED
  BY <1>8 DEF m, C, cols

\* The label, for the split that owns it, is one column of it.
LEMMA LabelColumn ==
  ASSUME IsWork(work), NEW r \in Groups, NEW t \in Tokens, NEW n \in Splits, Owns(r, n, work.label[t])
  PROVE  \E d \in SplitOf(n) : /\ work.label[t] = Global(r, d)
                               /\ \A c \in Int : Global(r, c) = work.label[t] <=> c = d
                               /\ \A x \in Int : work.label[t] - (x + r * work.vocab) = d - x
<1>1. /\ work.vocab \in Nat \ {0} /\ work.perSplit \in Nat \ {0} /\ n * work.perSplit \in Nat
      /\ (n + 1) * work.perSplit = n * work.perSplit + work.perSplit
  BY WorkNumbers, SplitBlocks
<1>2. r * work.vocab \in Nat
  <2>1. r \in Nat
    BY WorkNumbers DEF Groups, Below0
  <2> QED
    BY <1>1, <2>1, Times
<1>3. work.label[t] \in Nat
  <2>1. work.label \in [Tokens -> Below0(work.ranks * work.vocab)]
    BY DEF IsWork, Tokens
  <2> QED
    BY <2>1 DEF Below0
<1> DEFINE d == work.label[t] - r * work.vocab
           s == n * work.perSplit
           p == work.perSplit
<1>4. /\ work.label[t] >= r * work.vocab + s
      /\ work.label[t] < r * work.vocab + Lesser(s + p, work.vocab)
  BY <1>1 DEF Owns, Global
<1>5. d \in Int /\ s <= d /\ d < s + p /\ d < work.vocab /\ d \in Nat
  <2>1. Lesser(s + p, work.vocab) <= s + p /\ Lesser(s + p, work.vocab) <= work.vocab /\ Lesser(s + p, work.vocab) \in Int
    BY <1>1 DEF Lesser
  <2> QED
    BY <1>1, <1>2, <1>3, <1>4, <2>1
<1>6. d \in SplitOf(n)
  BY <1>1, <1>5 DEF SplitOf, OwnColumns, Below0
<1>7. work.label[t] = Global(r, d) /\ \A c \in Int : Global(r, c) = work.label[t] <=> c = d
  BY <1>2, <1>3 DEF Global
<1>8. \A x \in Int : work.label[t] - (x + r * work.vocab) = d - x
  BY <1>2, <1>3
<1> QED
  BY <1>6, <1>7, <1>8

\* One block of a split.
LEMMA BlockStep ==
  ASSUME IsWork(work), NEW r \in Groups, NEW t \in Tokens, NEW n \in Splits,
         NEW b \in Nat, b + 1 <= Cdiv(work.perSplit, work.bn), NEW acc,
         IF b = 0 THEN acc = Nothing ELSE AfterBlocks(r, t, n, acc, b)
  PROVE  AfterBlocks(r, t, n, OneBlock(r, t, n, acc, b), b + 1)
<1> DEFINE first == n * work.perSplit + b * work.bn
           cols == first .. first + work.bn - 1
           M == Max({LogitOf(r, t, n, first, c) : c \in cols})
           C == {c \in OwnColumns : first <= c /\ c < first + work.bn}
           max == Greater(acc.max, M)
           label == work.label[t]
           local == label - (first + r * work.vocab)
           new == OneBlock(r, t, n, acc, b)
<1>1. /\ work.bn \in Nat \ {0} /\ work.vocab \in Nat \ {0} /\ n * work.perSplit \in Nat /\ n * work.perSplit < work.vocab
      /\ b * work.bn \in Nat /\ (b + 1) * work.bn = b * work.bn + work.bn /\ first \in Nat
  <2>1. work.bn \in Nat \ {0} /\ work.vocab \in Nat \ {0} /\ n * work.perSplit \in Nat /\ n * work.perSplit < work.vocab
    BY WorkNumbers, SplitBlocks
  <2>2. b * work.bn \in Nat /\ (b + 1) * work.bn = b * work.bn + work.bn
    BY <2>1, Times
  <2>3. first \in Nat
    <3> DEFINE s == n * work.perSplit
               w == b * work.bn
    <3>1. s \in Nat /\ w \in Nat /\ first = s + w
      BY <2>1, <2>2
    <3> HIDE DEF s, w, first
    <3> QED
      BY <3>1
  <2> HIDE DEF first
  <2> QED
    BY <2>1, <2>2, <2>3, Zenon
<1>2. /\ M \in {LogitAt(r, t, c) : c \in C} \/ (C = {} /\ M = Masked)
      /\ C # {} => M # Masked
      /\ first < work.vocab => C # {}
  BY BlockMax
<1>3. \A c \in OwnColumns : c \in Int /\ LogitAt(r, t, c) \in Int /\ LogitAt(r, t, c) < 500 /\ LogitAt(r, t, c) > -500
  BY Logits DEF OwnColumns, Below0
<1>4. UpToBlock(n, b + 1) = UpToBlock(n, b) \cup C
  <2> DEFINE s == n * work.perSplit
             w == b * work.bn
  <2>1. s \in Nat /\ w \in Nat /\ first = s + w /\ (b + 1) * work.bn = w + work.bn
    BY <1>1
  <2>2. UpToBlock(n, b + 1) = {c \in OwnColumns : s <= c /\ c < s + (w + work.bn)}
    BY <2>1 DEF UpToBlock
  <2>3. UpToBlock(n, b) = {c \in OwnColumns : s <= c /\ c < s + w}
    BY DEF UpToBlock
  <2>4. work.bn \in Nat
    BY <1>1
  <2>5. C = {c \in OwnColumns : first <= c /\ c < first + work.bn}
    OBVIOUS
  <2> HIDE DEF s, w, first, C, M, new, local, max, cols
  <2>6. ASSUME NEW c \in OwnColumns
        PROVE  (s <= c /\ c < s + (w + work.bn)) <=> (s <= c /\ c < s + w) \/ (first <= c /\ c < first + work.bn)
    BY <1>3, <2>1, <2>4
  <2> QED
    BY <2>2, <2>3, <2>5, <2>6
<1>5. b = 0 => UpToBlock(n, b) = {} /\ C # {}
  BY <1>1, <1>2, <1>3 DEF UpToBlock
<1>6. new.max = max /\ new.pick = acc.pick + (IF local \in Below0(work.bn) THEN LogitOf(r, t, n, first, first + local) ELSE 0)
      /\ new.terms = Scaled(acc.terms, acc.max - max)
                       \cup Scaled({<<Global(r, c), LogitOf(r, t, n, first, c)>> : c \in cols}, -max)
  BY DEF OneBlock
<1> HIDE DEF new, M, first, C
<1>7. acc.max \in Int /\ acc.terms = Relative(r, t, UpToBlock(n, b), acc.max) /\ acc.pick \in Int
  <2>1. CASE b = 0
    BY <1>5, <2>1 DEF Nothing, NegInf, Relative
  <2>2. CASE b # 0
    BY <1>3, <2>2 DEF AfterBlocks, UpToBlock
  <2> QED
    BY <2>1, <2>2
<1>8. PICK e \in UpToBlock(n, b + 1) : max = LogitAt(r, t, e)
  <2>1. CASE b = 0
    <3>1. PICK c \in C : M = LogitAt(r, t, c)
      BY <1>2, <1>5, <2>1
    <3>2. M > -500 /\ acc.max = NegInf /\ M \in Int
      BY <1>3, <3>1, <2>1 DEF Nothing, C
    <3>3. max = M
      BY <3>2 DEF Greater, NegInf
    <3> QED
      BY <1>4, <3>1, <3>3
  <2>2. CASE b # 0
    <3>1. PICK c \in UpToBlock(n, b) : acc.max = LogitAt(r, t, c)
      BY <2>2 DEF AfterBlocks
    <3>2. acc.max > -500
      BY <1>3, <3>1 DEF UpToBlock
    <3>3. CASE \E k \in C : M = LogitAt(r, t, k)
      <4>1. PICK k \in C : M = LogitAt(r, t, k)
        BY <3>3
      <4>2. max = LogitAt(r, t, c) \/ max = LogitAt(r, t, k)
        BY <3>1, <4>1 DEF Greater
      <4> QED
        BY <1>4, <4>1, <4>2
    <3>4. CASE M = Masked
      <4>1. max = acc.max
        BY <1>7, <3>2, <3>4 DEF Greater, Masked
      <4> QED
        BY <1>4, <3>1, <4>1
    <3> QED
      BY <1>2, <3>3, <3>4
  <2> QED
    BY <2>1, <2>2
<1>9. e \in OwnColumns /\ max \in Int
  BY <1>3, <1>8 DEF UpToBlock
<1>10. Scaled(acc.terms, acc.max - max) = Relative(r, t, UpToBlock(n, b), max)
  <2>1. \A c \in UpToBlock(n, b) : c \in OwnColumns
    BY DEF UpToBlock
  <2>2. \A c \in UpToBlock(n, b) : LogitAt(r, t, c) \in Int /\ LogitAt(r, t, c) - acc.max + (acc.max - max) > -500
    <3>1. \A c \in OwnColumns : LogitAt(r, t, c) - LogitAt(r, t, e) > -500
      BY <1>9, LogitsApart
    <3> HIDE DEF max
    <3> QED
      BY <1>3, <1>7, <1>8, <1>9, <2>1, <3>1
  <2>3. acc.max - max \in Int /\ acc.max - (acc.max - max) = max
    BY <1>7, <1>9
  <2> HIDE DEF max
  <2>4. Scaled(Relative(r, t, UpToBlock(n, b), acc.max), acc.max - max) = Relative(r, t, UpToBlock(n, b), acc.max - (acc.max - max))
    BY <1>7, <2>2, <2>3, Rescaled
  <2> QED
    BY <1>7, <2>3, <2>4
<1>11. Scaled({<<Global(r, c), LogitOf(r, t, n, first, c)>> : c \in cols}, -max) = Relative(r, t, C, max)
  <2>1. first = n * work.perSplit + b * work.bn
    BY DEF first
  <2> HIDE DEF max
  <2> QED
    BY <1>8, <1>9, <2>1, BlockTerms DEF C
<1>12. new.terms = Relative(r, t, UpToBlock(n, b + 1), max)
  BY <1>4, <1>6, <1>10, <1>11 DEF Relative
<1> HIDE DEF max
<1>13. local \in Below0(work.bn) => first + local \in Int /\ first <= first + local /\ first + local < first + work.bn
  <2> HIDE DEF local
  <2> QED
    BY <1>1 DEF Below0
<1>14. ASSUME local \in Below0(work.bn)
       PROVE  LET c == first + local IN \/ c < work.vocab /\ c \in C /\ LogitOf(r, t, n, first, c) = LogitAt(r, t, c)
                                        \/ ~(c < work.vocab) /\ LogitOf(r, t, n, first, c) = Masked
  <2> DEFINE c == first + local
  <2>1. c \in Int /\ first <= c /\ c < first + work.bn
    BY <1>13, <1>14
  <2> HIDE DEF c, local
  <2>2. /\ c \in Nat /\ (c \in OwnColumns <=> c < work.vocab)
        /\ c < work.vocab => LogitOf(r, t, n, first, c) = LogitAt(r, t, c)
        /\ ~(c < work.vocab) => LogitOf(r, t, n, first, c) = Masked
    BY <2>1, BlockReads DEF first
  <2>3. c < work.vocab => c \in C
    BY <2>1, <2>2 DEF C
  <2> QED
    BY <2>2, <2>3 DEF c
<1>15. new.pick \in Int
  <2>1. CASE local \in Below0(work.bn)
    <3>1. LogitOf(r, t, n, first, first + local) \in Int
      BY <1>3, <1>14, <2>1 DEF C, Masked
    <3> QED
      BY <1>6, <1>7, <2>1, <3>1
  <2>2. CASE local \notin Below0(work.bn)
    BY <1>6, <1>7, <2>2
  <2> QED
    BY <2>1, <2>2
<1>16. ASSUME Owns(r, n, label)
       PROVE  new.pick = IF \E c \in UpToBlock(n, b + 1) : AtLabel(r, t, c) THEN work.logit[t][label] ELSE 0
  <2>1. PICK d \in SplitOf(n) : /\ label = Global(r, d) /\ \A c \in Int : Global(r, c) = label <=> c = d
                                /\ \A x \in Int : label - (x + r * work.vocab) = d - x
    BY <1>16, LabelColumn
  <2>2. d \in OwnColumns /\ d \in Int /\ d < work.vocab /\ LogitAt(r, t, d) = work.logit[t][label]
    BY <1>1, <2>1 DEF SplitOf, OwnColumns, Below0, LogitAt
  <2>3. \A k : (\E c \in UpToBlock(n, k) : AtLabel(r, t, c)) <=> d \in UpToBlock(n, k)
    BY <1>3, <2>1 DEF AtLabel, UpToBlock
  <2>4. local = d - first
    BY <1>1, <2>1
  <2> HIDE DEF local
  <2>5. first + local = d /\ (local \in Below0(work.bn) <=> d \in C)
    <3> HIDE DEF label
    <3>1. first + local = d
      BY <1>1, <2>2, <2>4
    <3>2. local \in Below0(work.bn) => first <= d /\ d < first + work.bn
      BY <1>1, <3>1, <1>13
    <3>3. first <= d /\ d < first + work.bn => local \in Below0(work.bn)
      BY <1>1, <2>2, <2>4 DEF Below0
    <3> QED
      BY <2>2, <3>1, <3>2, <3>3 DEF C
  <2>6. d \in UpToBlock(n, b) => d \notin C
    BY <1>1, <2>2 DEF UpToBlock, C, first
  <2>7. acc.pick = IF d \in UpToBlock(n, b) THEN LogitAt(r, t, d) ELSE 0
    <3>1. CASE b = 0
      BY <1>5, <3>1 DEF Nothing
    <3>2. CASE b # 0
      BY <1>16, <2>2, <2>3, <3>2 DEF AfterBlocks
    <3> QED
      BY <3>1, <3>2
  <2>8. d \in C => LogitOf(r, t, n, first, first + local) = LogitAt(r, t, d)
    BY <1>14, <2>2, <2>5 DEF local
  <2>9. new.pick = IF d \in UpToBlock(n, b + 1) THEN LogitAt(r, t, d) ELSE 0
    BY <1>3, <1>4, <1>6, <2>2, <2>5, <2>6, <2>7, <2>8
  <2> QED
    BY <2>2, <2>3, <2>9
<1>17. AfterBlocks(r, t, n, new, b + 1)
  BY <1>6, <1>8, <1>12, <1>15, <1>16 DEF AfterBlocks
<1> QED
  BY <1>17 DEF new

\* The two loops: over the blocks of a split, and over the blocks of splits.
NoSplits == [max |-> 0, terms |-> {}]
First(kind) == IF kind = "split" THEN Nothing ELSE NoSplits
OneStep(kind, r, t, n, acc, b) == IF kind = "split" THEN OneBlock(r, t, n, acc, b) ELSE JoinBlock(r, t, acc, b)
IsLoop(kind, r, t, n, k, f) ==
  f = [b \in 0 .. k |-> IF b = 0 THEN First(kind) ELSE OneStep(kind, r, t, n, f[b - 1], b - 1)]
\* Each is defined for any number of blocks.
LEMMA LoopExists ==
  ASSUME NEW kind, NEW r, NEW t, NEW n, NEW k \in Nat
  PROVE  \E f : IsLoop(kind, r, t, n, k, f)
<1> DEFINE G(i, f) == f = [b \in 0 .. i |-> IF b = 0 THEN First(kind) ELSE OneStep(kind, r, t, n, f[b - 1], b - 1)]
           S == {i \in Nat : \E f : G(i, f)}
<1>1. 0 \in S
  <2> DEFINE f == [b \in {0} |-> First(kind)]
  <2>1. f = [b \in 0 .. 0 |-> IF b = 0 THEN First(kind) ELSE OneStep(kind, r, t, n, f[b - 1], b - 1)]
    OBVIOUS
  <2> QED
    BY <2>1
<1>2. ASSUME NEW i \in S PROVE i + 1 \in S
  <2>1. PICK f : G(i, f)
    OBVIOUS
  <2> DEFINE g == [b \in 0 .. i + 1 |-> IF b \in 0 .. i THEN f[b] ELSE OneStep(kind, r, t, n, f[i], i)]
             h == [b \in 0 .. i + 1 |-> IF b = 0 THEN First(kind) ELSE OneStep(kind, r, t, n, g[b - 1], b - 1)]
  <2>2. \A b \in 0 .. i : f[b] = IF b = 0 THEN First(kind) ELSE OneStep(kind, r, t, n, f[b - 1], b - 1)
    BY <2>1
  <2>3. ASSUME NEW b \in 0 .. i + 1
        PROVE  g[b] = IF b = 0 THEN First(kind) ELSE OneStep(kind, r, t, n, g[b - 1], b - 1)
    <3>1. CASE b = 0
      BY <2>2, <3>1
    <3>2. CASE b \in 1 .. i
      <4>1. b \in 0 .. i /\ b - 1 \in 0 .. i /\ b # 0
        BY <3>2
      <4>2. g[b] = f[b] /\ g[b - 1] = f[b - 1]
        BY <4>1
      <4> QED
        BY <2>2, <4>1, <4>2
    <3>3. CASE b = i + 1
      <4>1. b \notin 0 .. i /\ b - 1 = i /\ i \in 0 .. i /\ b # 0 /\ i \in 0 .. i + 1
        BY <3>3
      <4>2. g[b] = OneStep(kind, r, t, n, f[i], i) /\ g[i] = f[i]
        BY <4>1
      <4> QED
        BY <4>1, <4>2
    <3> QED
      BY <3>1, <3>2, <3>3
  <2>4. \A b \in 0 .. i + 1 : g[b] = h[b]
    BY <2>3
  <2>5. g = h
    <3> DEFINE e(b) == IF b \in 0 .. i THEN f[b] ELSE OneStep(kind, r, t, n, f[i], i)
               d(b) == IF b = 0 THEN First(kind) ELSE OneStep(kind, r, t, n, g[b - 1], b - 1)
    <3>1. g = [b \in 0 .. i + 1 |-> e(b)] /\ h = [b \in 0 .. i + 1 |-> d(b)]
      OBVIOUS
    <3>2. \A b \in 0 .. i + 1 : e(b) = d(b)
      BY <2>4
    <3> HIDE DEF e, d, g, h
    <3> QED
      BY <3>1, <3>2
  <2>6. G(i + 1, g)
    BY <2>5
  <2> HIDE DEF G
  <2> QED
    BY <2>6
<1> HIDE DEF G
<1>3. S = Nat
  BY <1>1, <1>2, NatSets
<1>4. k \in S
  BY <1>3
<1>5. PICK f : G(k, f)
  BY <1>4
<1> QED
  BY <1>5 DEF G, IsLoop

\* What is summed over a whole split, and the logit of the label in it.
SplitSummed(r, t, n, x) ==
  /\ x.max \in {LogitAt(r, t, c) : c \in SplitOf(n)}
  /\ x.terms = Relative(r, t, SplitOf(n), x.max)
\* OneSplit sums its split's columns, and picks the label that is among them.
LEMMA SplitDone ==
  ASSUME IsWork(work), NEW r \in Groups, NEW t \in Tokens, NEW n \in Splits
  PROVE  /\ SplitSummed(r, t, n, OneSplit(r, t, n))
         /\ Owns(r, n, work.label[t]) => OneSplit(r, t, n).pick = work.logit[t][work.label[t]]
<1> DEFINE N == Cdiv(work.perSplit, work.bn)
           acc == CHOOSE f : IsLoop("split", r, t, n, N, f)
<1>1. N \in Nat \ {0} /\ work.bn * N = work.perSplit /\ work.bn \in Nat \ {0} /\ n * work.perSplit \in Nat
      /\ (n + 1) * work.perSplit = n * work.perSplit + work.perSplit
  BY WorkNumbers, SplitBlocks
<1>2. OneSplit(r, t, n) = acc[N]
  BY DEF OneSplit, Nothing, IsLoop, First, OneStep
<1>3. IsLoop("split", r, t, n, N, acc)
  <2> HIDE DEF N
  <2> QED
    BY <1>1, LoopExists
<1>4. \A b \in 0 .. N : acc[b] = IF b = 0 THEN Nothing ELSE OneBlock(r, t, n, acc[b - 1], b - 1)
  BY <1>3 DEF IsLoop, First, OneStep
<1> HIDE DEF acc, N
<1> DEFINE S == {b \in 1 .. N : AfterBlocks(r, t, n, acc[b], b)}
<1>5. 1 \in S
  <2>1. acc[1] = OneBlock(r, t, n, Nothing, 0)
    <3>1. 0 \in 0 .. N /\ 1 \in 0 .. N /\ 1 - 1 = 0
      BY <1>1
    <3> QED
      BY <1>4, <3>1
  <2>2. AfterBlocks(r, t, n, OneBlock(r, t, n, Nothing, 0), 0 + 1)
    <3>1. 0 + 1 <= Cdiv(work.perSplit, work.bn)
      BY <1>1 DEF N
    <3> QED
      BY <3>1, BlockStep
  <2> QED
    BY <1>1, <2>1, <2>2
<1>6. \A i \in S : i \in 1 .. N - 1 => i + 1 \in S
  <2> SUFFICES ASSUME NEW i \in S, i \in 1 .. N - 1 PROVE i + 1 \in S
    OBVIOUS
  <2>1. i \in Nat /\ i # 0 /\ i + 1 \in 0 .. N /\ i + 1 # 0 /\ (i + 1) - 1 = i /\ i + 1 \in 1 .. N /\ i + 1 <= N
    BY <1>1
  <2>2. acc[i + 1] = OneBlock(r, t, n, acc[i], i)
    BY <1>4, <2>1
  <2>3. AfterBlocks(r, t, n, OneBlock(r, t, n, acc[i], i), i + 1)
    <3>1. i + 1 <= Cdiv(work.perSplit, work.bn) /\ IF i = 0 THEN acc[i] = Nothing ELSE AfterBlocks(r, t, n, acc[i], i)
      BY <2>1 DEF N
    <3> QED
      BY <2>1, <3>1, BlockStep
  <2> QED
    BY <2>1, <2>2, <2>3
<1>7. AfterBlocks(r, t, n, acc[N], N)
  <2>1. 1 .. N \subseteq S
    BY <1>1, <1>5, <1>6, UpToSets
  <2> QED
    BY <1>1, <2>1
<1>8. UpToBlock(n, N) = SplitOf(n)
  <2>1. N * work.bn = work.perSplit
    BY <1>1, Times
  <2> QED
    BY <1>1, <2>1 DEF UpToBlock, SplitOf
<1>9. ASSUME Owns(r, n, work.label[t]) PROVE \E c \in SplitOf(n) : AtLabel(r, t, c)
  BY <1>9, LabelColumn DEF AtLabel, SplitOf, OwnColumns, Below0
<1> QED
  BY <1>2, <1>7, <1>8, <1>9 DEF AfterBlocks, SplitSummed

-----------------------------------------------------------------------------
(* The splits of a rank, and of all ranks.                                 *)

\* A block of Cdiv(a, b) begins below a.
LEMMA CdivBelow ==
  ASSUME NEW a \in Nat \ {0}, NEW b \in Nat \ {0}, NEW i \in Below0(Cdiv(a, b))
  PROVE  i \in Nat /\ b * i \in Nat /\ b * i < a
<1> DEFINE q == (a + b - 1) \div b
<1>1. q \in Nat /\ (a + b - 1) % b \in 0 .. b - 1 /\ a + b - 1 = b * q + ((a + b - 1) % b)
  <2>1. a + b - 1 \in Nat
    OBVIOUS
  <2> QED
    BY <2>1, DivMod
<1>2. b * q <= a + b - 1
  BY <1>1
<1>3. i \in Nat /\ i + 1 <= q
  BY <1>1 DEF Cdiv, Below0
<1> HIDE DEF q
<1>4. b * (i + 1) <= b * q
  BY <1>1, <1>3, Times
<1>5. b * (i + 1) = b * i + b /\ b * i \in Nat
  BY <1>3
<1> QED
  BY <1>1, <1>2, <1>3, <1>4, <1>5

\* Every column is in a split.
LEMMA SplitsHaveAll ==
  ASSUME IsWork(work), NEW c \in OwnColumns
  PROVE  c \div work.perSplit \in Splits /\ c \in SplitOf(c \div work.perSplit)
<1> DEFINE p == work.perSplit
           q == c \div p
<1>1. p \in Nat \ {0} /\ work.vocab \in Nat \ {0} /\ c \in Nat
  BY WorkNumbers DEF OwnColumns, Below0
<1>2. q \in Splits
  BY <1>1, CdivCovers DEF Splits, OwnColumns
<1>3. q \in Nat /\ c % p \in 0 .. p - 1 /\ c = p * q + (c % p)
  BY <1>1, DivMod
<1>4. p * q = q * p /\ (q + 1) * p = q * p + p /\ q * p \in Nat
  BY <1>1, <1>3, Times
<1>5. q * p <= c /\ c < (q + 1) * p
  <2> HIDE DEF q, p
  <2> QED
    BY <1>1, <1>3, <1>4
<1> QED
  BY <1>2, <1>5 DEF SplitOf

\* What the splits N of a token hold, and their columns.
Summed(r, t, N) == \A n \in N : SplitSummed(r, t, n, partial[r][t, n])
ColumnsOf(N) == {c \in OwnColumns : \E n \in N : c \in SplitOf(n)}
\* The columns of all splits are all columns.
LEMMA AllColumns ==
  ASSUME IsWork(work)
  PROVE  ColumnsOf(Splits) = OwnColumns
BY SplitsHaveAll DEF ColumnsOf

JoinedOf(r, t, N, m) == UNION {Scaled(partial[r][t, n].terms, partial[r][t, n].max - m) : n \in N}
TopOf(r, t) == Max({partial[r][t, n].max : n \in Splits})

\* Sums of splits, scaled to one maximum, make the sum over their columns.
LEMMA SplitsJoined ==
  ASSUME IsWork(work), NEW r \in Groups, NEW t \in Tokens, NEW N \in SUBSET Splits, Summed(r, t, N),
         NEW m \in Int, \A c \in OwnColumns : LogitAt(r, t, c) - m > -500
  PROVE  JoinedOf(r, t, N, m) = Relative(r, t, ColumnsOf(N), m)
<1>1. ASSUME NEW n \in N
      PROVE  Scaled(partial[r][t, n].terms, partial[r][t, n].max - m) = Relative(r, t, SplitOf(n), m)
  <2> DEFINE k == partial[r][t, n].max
  <2>1. k \in {LogitAt(r, t, c) : c \in SplitOf(n)} /\ partial[r][t, n].terms = Relative(r, t, SplitOf(n), k)
    BY DEF Summed, SplitSummed
  <2> HIDE DEF k
  <2>2. k \in Int
    <3>1. PICK c \in SplitOf(n) : k = LogitAt(r, t, c)
      BY <2>1
    <3>2. c \in OwnColumns
      BY DEF SplitOf
    <3> QED
      BY <3>1, <3>2, Logits
  <2>3. \A c \in SplitOf(n) : LogitAt(r, t, c) \in Int /\ LogitAt(r, t, c) - k + (k - m) > -500
    <3> SUFFICES ASSUME NEW c \in SplitOf(n) PROVE LogitAt(r, t, c) \in Int /\ LogitAt(r, t, c) - k + (k - m) > -500
      OBVIOUS
    <3>1. c \in OwnColumns
      BY DEF SplitOf
    <3>2. LogitAt(r, t, c) \in Int /\ LogitAt(r, t, c) - m > -500
      BY <3>1, Logits
    <3> QED
      BY <2>2, <3>2
  <2>4. k - m \in Int /\ k - (k - m) = m
    BY <2>2
  <2>5. Scaled(Relative(r, t, SplitOf(n), k), k - m) = Relative(r, t, SplitOf(n), k - (k - m))
    BY <2>2, <2>3, <2>4, Rescaled
  <2> QED
    BY <2>1, <2>4, <2>5 DEF k
<1> DEFINE S(n) == Scaled(partial[r][t, n].terms, partial[r][t, n].max - m)
           A == UNION {S(n) : n \in N}
           B == Relative(r, t, ColumnsOf(N), m)
<1>2. \A n \in N : S(n) = Relative(r, t, SplitOf(n), m)
  BY <1>1
<1> HIDE DEF S
<1>3. ASSUME NEW x \in A PROVE x \in B
  <2>1. PICK n \in N : x \in S(n)
    OBVIOUS
  <2>2. PICK c \in SplitOf(n) : x = <<Global(r, c), LogitAt(r, t, c) - m>>
    BY <1>2, <2>1 DEF Relative
  <2>3. c \in ColumnsOf(N)
    BY DEF ColumnsOf, SplitOf
  <2> QED
    BY <2>2, <2>3 DEF Relative
<1>4. ASSUME NEW x \in B PROVE x \in A
  <2>1. PICK c \in ColumnsOf(N) : x = <<Global(r, c), LogitAt(r, t, c) - m>>
    BY DEF Relative
  <2>2. PICK n \in N : c \in SplitOf(n)
    BY DEF ColumnsOf
  <2>3. x \in S(n)
    BY <1>2, <2>1, <2>2 DEF Relative
  <2> QED
    BY <2>3
<1>5. A = B
  BY <1>3, <1>4
<1> QED
  BY <1>5 DEF S, JoinedOf

\* The epilogue of a rank that has the whole vocabulary.
LEMMA EpilogueSum ==
  ASSUME IsWork(work), NEW r \in Groups, NEW t \in Tokens, Summed(r, t, Splits), NEW m,
         m = TopOf(r, t)
  PROVE  m \in {LogitAt(r, t, c) : c \in OwnColumns} /\ Joined(r, t, m) = Relative(r, t, OwnColumns, m)
<1> DEFINE S == {partial[r][t, n].max : n \in Splits}
<1>1. S \subseteq {LogitAt(r, t, c) : c \in OwnColumns}
  BY DEF Summed, SplitSummed, SplitOf
<1>2. S # {}
  <2>1. 0 \in OwnColumns
    <3>1. work.vocab \in Nat \ {0}
      BY WorkNumbers
    <3> QED
      BY <3>1 DEF OwnColumns, Below0
  <2> QED
    BY <2>1, SplitsHaveAll
<1>3. S \in SUBSET Int /\ \A x \in S : x < 500
  <2> HIDE DEF S
  <2>1. \A c \in OwnColumns : LogitAt(r, t, c) \in Int /\ LogitAt(r, t, c) < 500
    BY Logits
  <2> QED
    BY <1>1, <2>1
<1>4. m \in S
  <2>1. m = Max(S)
    BY DEF TopOf
  <2> HIDE DEF S
  <2> QED
    BY <1>2, <1>3, <2>1, Greatest
<1> HIDE DEF S
<1>5. PICK d \in OwnColumns : m = LogitAt(r, t, d)
  BY <1>1, <1>4
<1>6. m \in Int
  BY <1>3, <1>4
<1>7. \A c \in OwnColumns : LogitAt(r, t, c) - m > -500
  BY <1>5, LogitsApart
<1>8. Joined(r, t, m) = Relative(r, t, ColumnsOf(Splits), m)
  <2>1. Splits \in SUBSET Splits
    OBVIOUS
  <2>2. JoinedOf(r, t, Splits, m) = Relative(r, t, ColumnsOf(Splits), m)
    BY <1>6, <1>7, <2>1, SplitsJoined
  <2> QED
    BY <2>2 DEF Joined, JoinedOf
<1> QED
  BY <1>5, <1>8, AllColumns

\* The greatest maxima over the ranks, of the splits of a token.
Red(r, t, n) == reduced[r][t, n]
ReducedOk(r, t) == \A n \in Splits : Red(r, t, n) \in {LogitAt(x[1], t, x[2]) : x \in Groups \X OwnColumns}

\* What is joined after b blocks of splits.
FirstSplits(b) == {n \in Splits : n \div work.epilogueBn < b}
AfterSplits(r, t, acc, b) ==
  /\ acc = [max |-> acc.max, terms |-> acc.terms]
  /\ acc.max \in {0} \cup {Red(r, t, n) : n \in Splits}
  /\ acc.max >= 0 /\ \A n \in FirstSplits(b) : Red(r, t, n) <= acc.max
  /\ acc.terms = Relative(r, t, ColumnsOf(FirstSplits(b)), acc.max)
BlockOf(b) == {n \in Splits : n \div work.epilogueBn = b}

\* The block of a split.
LEMMA BlockOfSplit ==
  ASSUME IsWork(work), NEW n \in Splits
  PROVE  n \in Nat /\ n \div work.epilogueBn \in Nat
<1>1. work.epilogueBn \in Nat \ {0} /\ work.vocab \in Nat \ {0} /\ work.perSplit \in Nat \ {0}
  BY WorkNumbers
<1>2. n \in Nat
  BY DEF Splits, Below0
<1> QED
  BY <1>1, <1>2, DivMod

\* A maximum of several ranks, or zero, is near to every logit of the token.
LEMMA NearMax ==
  ASSUME IsWork(work), NEW r \in Groups, NEW t \in Tokens, ReducedOk(r, t),
         NEW m, m \in {0} \cup {Red(r, t, n) : n \in Splits}
  PROVE  m \in Int /\ m < 500 /\ \A c \in OwnColumns : LogitAt(r, t, c) \in Int /\ LogitAt(r, t, c) - m > -500
<1>1. \A c \in OwnColumns : LogitAt(r, t, c) \in Int /\ -500 < LogitAt(r, t, c)
  BY Logits
<1>2. CASE m = 0
  BY <1>1, <1>2
<1>3. CASE m # 0
  <2>1. PICK n \in Splits : m = Red(r, t, n)
    BY <1>3
  <2>2. PICK q \in Groups, d \in OwnColumns : m = LogitAt(q, t, d)
    BY <2>1 DEF ReducedOk
  <2>3. m \in Int /\ m < 500
    BY <2>2, Logits
  <2>4. \A c \in OwnColumns : LogitAt(r, t, c) - m > -500
    BY <2>2, LogitsApart
  <2> QED
    BY <1>1, <2>3, <2>4
<1> QED
  BY <1>2, <1>3

\* A block of splits has splits in it.
LEMMA BlockHasSplits ==
  ASSUME IsWork(work), NEW b \in Nat, b + 1 <= Cdiv(Cdiv(work.vocab, work.perSplit), work.epilogueBn)
  PROVE  BlockOf(b) # {}
<1> DEFINE s == Cdiv(work.vocab, work.perSplit)
           e == work.epilogueBn
<1>1. s \in Nat \ {0} /\ e \in Nat \ {0}
  BY WorkNumbers, CdivCovers
<1>2. Cdiv(s, e) \in Nat
  BY <1>1, CdivCovers
<1>3. b \in Below0(Cdiv(s, e))
  BY <1>2 DEF Below0
<1>4. e * b \in Nat /\ e * b < s
  BY <1>1, <1>3, CdivBelow
<1>5. (e * b + 0) \div e = b
  <2>1. 0 \in 0 .. e - 1
    BY <1>1
  <2> QED
    BY <1>1, <2>1, DivOf
<1>6. e * b + 0 = e * b
  BY <1>4
<1>7. e * b \in Splits
  BY <1>1, <1>4 DEF Splits, Below0
<1> QED
  BY <1>5, <1>6, <1>7 DEF BlockOf

\* One block of splits is joined.
LEMMA JoinStep ==
  ASSUME IsWork(work), NEW r \in Groups, NEW t \in Tokens, Summed(r, t, Splits), ReducedOk(r, t),
         NEW b \in Nat, b + 1 <= Cdiv(Cdiv(work.vocab, work.perSplit), work.epilogueBn),
         NEW acc, AfterSplits(r, t, acc, b)
  PROVE  AfterSplits(r, t, JoinBlock(r, t, acc, b), b + 1)
<1> DEFINE S == {Red(r, t, n) : n \in BlockOf(b)}
           M == Max(S)
           max == Greater(acc.max, M)
           new == JoinBlock(r, t, acc, b)
<1>1. \A n \in Splits : Red(r, t, n) \in Int /\ Red(r, t, n) < 500
  BY NearMax
<1>2. M \in S /\ \A x \in S : x <= M
  <2>1. S \in SUBSET Int /\ S # {} /\ \A x \in S : x < 500
    BY <1>1, BlockHasSplits DEF BlockOf
  <2>2. M = Max(S)
    OBVIOUS
  <2> HIDE DEF S, M
  <2>3. Max(S) \in S /\ \A x \in S : x <= Max(S)
    BY <2>1, Greatest
  <2> QED
    BY <2>2, <2>3
<1> HIDE DEF M
<1>3. PICK k \in BlockOf(b) : M = Red(r, t, k)
  BY <1>2
<1>4. acc.max \in Int /\ M \in Int /\ k \in Splits
  BY <1>1, <1>3, NearMax DEF AfterSplits, BlockOf
<1>5. /\ max \in {0} \cup {Red(r, t, n) : n \in Splits}
      /\ acc.max <= max /\ M <= max
  BY <1>3, <1>4 DEF Greater, AfterSplits
<1>6. max \in Int /\ \A c \in OwnColumns : LogitAt(r, t, c) \in Int /\ LogitAt(r, t, c) - max > -500
  BY <1>5, NearMax
<1>7. /\ new.max = max
      /\ new.terms = Scaled(acc.terms, acc.max - max) \cup JoinedOf(r, t, BlockOf(b), max)
      /\ new = [max |-> new.max, terms |-> new.terms]
  BY DEF JoinBlock, JoinedOf, OwnMax, BlockOf, Red, M
<1> HIDE DEF max, new
<1>8. Scaled(acc.terms, acc.max - max) = Relative(r, t, ColumnsOf(FirstSplits(b)), max)
  <2> DEFINE C == ColumnsOf(FirstSplits(b))
  <2>1. \A c \in C : LogitAt(r, t, c) \in Int /\ LogitAt(r, t, c) - acc.max + (acc.max - max) > -500
    <3> SUFFICES ASSUME NEW c \in C PROVE LogitAt(r, t, c) \in Int /\ LogitAt(r, t, c) - acc.max + (acc.max - max) > -500
      OBVIOUS
    <3>1. c \in OwnColumns
      BY DEF ColumnsOf
    <3>2. LogitAt(r, t, c) \in Int /\ LogitAt(r, t, c) - max > -500
      BY <1>6, <3>1
    <3> QED
      BY <1>4, <1>6, <3>2
  <2> HIDE DEF C
  <2>2. acc.max - max \in Int /\ acc.max - (acc.max - max) = max
    BY <1>4, <1>6
  <2>3. Scaled(Relative(r, t, C, acc.max), acc.max - max) = Relative(r, t, C, acc.max - (acc.max - max))
    BY <1>4, <2>1, <2>2, Rescaled
  <2> QED
    BY <2>2, <2>3 DEF AfterSplits, C
<1>9. JoinedOf(r, t, BlockOf(b), max) = Relative(r, t, ColumnsOf(BlockOf(b)), max)
  <2>1. BlockOf(b) \in SUBSET Splits /\ Summed(r, t, BlockOf(b))
    BY DEF BlockOf, Summed
  <2> QED
    BY <1>6, <2>1, SplitsJoined
<1>10. FirstSplits(b + 1) = FirstSplits(b) \cup BlockOf(b)
  <2>1. \A n \in Splits : n \div work.epilogueBn \in Nat
    BY BlockOfSplit
  <2>2. \A n \in Splits : n \div work.epilogueBn < b + 1 <=> n \div work.epilogueBn < b \/ n \div work.epilogueBn = b
    <3> SUFFICES ASSUME NEW n \in Splits
                 PROVE  n \div work.epilogueBn < b + 1 <=> n \div work.epilogueBn < b \/ n \div work.epilogueBn = b
      OBVIOUS
    <3> DEFINE q == n \div work.epilogueBn
    <3>1. q \in Nat
      BY <2>1
    <3> HIDE DEF q
    <3>2. q < b + 1 <=> q < b \/ q = b
      BY <3>1
    <3> QED
      BY <3>2 DEF q
  <2> QED
    BY <2>2 DEF FirstSplits, BlockOf
<1>11. ColumnsOf(FirstSplits(b + 1)) = ColumnsOf(FirstSplits(b)) \cup ColumnsOf(BlockOf(b))
  BY <1>10 DEF ColumnsOf
<1>12. new.terms = Relative(r, t, ColumnsOf(FirstSplits(b + 1)), max)
  BY <1>7, <1>8, <1>9, <1>11 DEF Relative
<1>13. max >= 0 /\ \A n \in FirstSplits(b + 1) : Red(r, t, n) <= max
  <2>1. max >= 0
    BY <1>4, <1>5, <1>6 DEF AfterSplits
  <2>2. ASSUME NEW n \in FirstSplits(b + 1) PROVE Red(r, t, n) <= max
    <3>1. Red(r, t, n) \in Int
      BY <1>1 DEF FirstSplits
    <3>2. CASE n \in FirstSplits(b)
      BY <1>4, <1>5, <1>6, <3>1, <3>2 DEF AfterSplits
    <3>3. CASE n \in BlockOf(b)
      <4>1. Red(r, t, n) \in S
        BY <3>3
      <4>2. Red(r, t, n) <= M
        BY <1>2, <4>1
      <4> QED
        BY <1>4, <1>5, <1>6, <3>1, <4>2
    <3> QED
      BY <1>10, <3>2, <3>3
  <2> QED
    BY <2>1, <2>2
<1> QED
  BY <1>5, <1>7, <1>12, <1>13 DEF AfterSplits, new

\* The number of splits.
LEMMA SplitCount ==
  ASSUME IsWork(work)
  PROVE  Cardinality(Splits) = Cdiv(work.vocab, work.perSplit)
<1> DEFINE s == Cdiv(work.vocab, work.perSplit)
<1>1. s \in Nat \ {0}
  BY WorkNumbers, CdivCovers
<1>2. Splits = 0 .. (s - 1)
  BY DEF Splits, Below0
<1> HIDE DEF s
<1>3. 0 \in Int /\ s - 1 \in Int /\ ~(0 > s - 1) /\ (s - 1) - 0 + 1 = s
  BY <1>1
<1>4. IsFiniteSet(0 .. (s - 1)) /\ Cardinality(0 .. (s - 1)) = (s - 1) - 0 + 1
  BY <1>3, FS_Interval, Zenon
<1> QED
  BY <1>2, <1>3, <1>4 DEF s

\* The maximum that a rank joins its splits at is the same on every rank.
IsTop(r, t, m) ==
  /\ m \in {0} \cup {Red(r, t, n) : n \in Splits}
  /\ m >= 0 /\ \A n \in Splits : Red(r, t, n) <= m
JointOk(r, t, x) ==
  /\ x = [max |-> x.max, terms |-> x.terms]
  /\ IsTop(r, t, x.max) /\ x.terms = Relative(r, t, OwnColumns, x.max)

\* JoinSplits has summed every column of the rank, at such a maximum.
LEMMA SplitsDone ==
  ASSUME IsWork(work), NEW r \in Groups, NEW t \in Tokens, Summed(r, t, Splits), ReducedOk(r, t)
  PROVE  JointOk(r, t, JoinSplits(r, t))
<1> DEFINE s == Cdiv(work.vocab, work.perSplit)
           N == Cdiv(s, work.epilogueBn)
           acc == CHOOSE f : IsLoop("join", r, t, 0, N, f)
<1>0. s \in Nat \ {0} /\ work.epilogueBn \in Nat \ {0}
  BY WorkNumbers, CdivCovers
<1>1. N \in Nat \ {0}
  BY <1>0, CdivCovers
<1>2. JoinSplits(r, t) = acc[N]
  <2>1. Cardinality(Splits) = s
    BY SplitCount
  <2> HIDE DEF s
  <2> QED
    BY <2>1 DEF JoinSplits, IsLoop, First, OneStep, NoSplits
<1>3. IsLoop("join", r, t, 0, N, acc)
  <2> HIDE DEF N
  <2> QED
    BY <1>1, LoopExists
<1>4. \A b \in 0 .. N : acc[b] = IF b = 0 THEN NoSplits ELSE JoinBlock(r, t, acc[b - 1], b - 1)
  BY <1>3 DEF IsLoop, First, OneStep
<1> HIDE DEF acc
<1> DEFINE S == {b \in 1 .. N : AfterSplits(r, t, acc[b], b)}
<1>5. 1 \in S
  <2>1. acc[1] = JoinBlock(r, t, NoSplits, 0)
    <3>1. 0 \in 0 .. N /\ 1 \in 0 .. N /\ 1 - 1 = 0
      BY <1>1
    <3> HIDE DEF N
    <3> QED
      BY <1>4, <3>1
  <2>2. AfterSplits(r, t, NoSplits, 0)
    <3>1. \A n \in Splits : n \div work.epilogueBn \in Nat
      BY BlockOfSplit
    <3>2. \A q \in Nat : ~(q < 0)
      OBVIOUS
    <3>3. FirstSplits(0) = {}
      BY <3>1, <3>2 DEF FirstSplits
    <3>4. Relative(r, t, ColumnsOf({}), 0) = {}
      BY DEF ColumnsOf, Relative
    <3> QED
      BY <3>3, <3>4 DEF AfterSplits, NoSplits
  <2>3. 0 + 1 <= N
    BY <1>1
  <2>4. AfterSplits(r, t, JoinBlock(r, t, NoSplits, 0), 0 + 1)
    BY <2>2, <2>3, JoinStep
  <2> HIDE DEF N
  <2> QED
    BY <1>1, <2>1, <2>4
<1>6. \A i \in S : i \in 1 .. N - 1 => i + 1 \in S
  <2> SUFFICES ASSUME NEW i \in S, i \in 1 .. N - 1 PROVE i + 1 \in S
    OBVIOUS
  <2>1. i \in Nat /\ i # 0 /\ i + 1 \in 0 .. N /\ i + 1 # 0 /\ (i + 1) - 1 = i /\ i + 1 \in 1 .. N /\ i + 1 <= N
    <3> HIDE DEF N
    <3> QED
      BY <1>1
  <2>2. acc[i + 1] = JoinBlock(r, t, acc[i], i)
    <3> HIDE DEF N
    <3> QED
      BY <1>4, <2>1
  <2>3. AfterSplits(r, t, JoinBlock(r, t, acc[i], i), i + 1)
    <3>1. AfterSplits(r, t, acc[i], i)
      OBVIOUS
    <3> QED
      BY <2>1, <3>1, JoinStep
  <2> HIDE DEF N
  <2> QED
    BY <2>1, <2>2, <2>3
<1>7. AfterSplits(r, t, acc[N], N)
  <2> HIDE DEF N
  <2>1. 1 .. N \subseteq S
    BY <1>1, <1>5, <1>6, UpToSets
  <2> QED
    BY <1>1, <2>1
<1>8. FirstSplits(N) = Splits
  <2>1. \A n \in Splits : n \div work.epilogueBn \in Below0(N)
    BY <1>0, CdivCovers DEF Splits
  <2>2. \A q \in Below0(N) : q < N
    <3> HIDE DEF N
    <3> QED
      BY <1>1 DEF Below0
  <2> QED
    BY <2>1, <2>2 DEF FirstSplits
<1> QED
  BY <1>2, <1>7, <1>8, AllColumns DEF AfterSplits, JointOk, IsTop

\* There is one such maximum.
LEMMA OneTop ==
  ASSUME IsWork(work), NEW r \in Groups, NEW q \in Groups, NEW t \in Tokens, ReducedOk(r, t),
         \A n \in Splits : Red(q, t, n) = Red(r, t, n), NEW m, NEW k, IsTop(r, t, m), IsTop(q, t, k)
  PROVE  m = k
<1>1. IsTop(r, t, k)
  BY DEF IsTop
<1>2. m \in Int /\ k \in Int
  BY <1>1, NearMax DEF IsTop
<1>3. m <= k
  BY <1>1, <1>2 DEF IsTop
<1>4. k <= m
  BY <1>1, <1>2 DEF IsTop
<1> QED
  BY <1>2, <1>3, <1>4

\* A column of the whole vocabulary is a column of one rank.
LEMMA ColumnAt ==
  ASSUME IsWork(work), NEW c \in Below0(work.ranks * work.vocab)
  PROVE  /\ c \div work.vocab \in Groups /\ c % work.vocab \in OwnColumns
         /\ Global(c \div work.vocab, c % work.vocab) = c
<1> DEFINE v == work.vocab
           k == work.ranks
           q == c \div v
           m == c % v
<1>1. v \in Nat \ {0} /\ k \in Nat \ {0}
  BY WorkNumbers
<1>2. k * v \in Nat
  BY <1>1
<1>3. c \in Nat /\ c < k * v
  BY <1>2 DEF Below0
<1>4. q \in Nat /\ m \in 0 .. v - 1 /\ c = v * q + m
  BY <1>1, <1>3, DivMod
<1>5. v * q = q * v
  BY <1>1, <1>4
<1> HIDE DEF q, m
<1>6. q < k
  <2> SUFFICES ASSUME q >= k PROVE FALSE
    BY <1>1, <1>4
  <2>1. v * k <= v * q /\ v * k = k * v
    BY <1>1, <1>4, Times
  <2> QED
    BY <1>1, <1>2, <1>3, <1>4, <1>5, <2>1
<1>7. q \in Groups /\ m \in OwnColumns
  BY <1>1, <1>4, <1>6 DEF Groups, OwnColumns, Below0
<1>8. Global(q, m) = c
  BY <1>4, <1>5 DEF Global
<1> QED
  BY <1>7, <1>8 DEF q, m

\* The sum of all ranks, relative to one maximum, is over the whole vocabulary.
SumExact(t, x) == Scaled(x.terms, x.max) = {<<c, work.logit[t][c]>> : c \in DOMAIN work.logit[t]}
\* Summed over the ranks, every column's exponential is in the sum once.
LEMMA AllRanksExact ==
  ASSUME IsWork(work), NEW t \in Tokens, NEW x, x.max \in Int,
         x.terms = UNION {Relative(s, t, OwnColumns, x.max) : s \in Groups}
  PROVE  SumExact(t, x)
<1> DEFINE m == x.max
           V == Below0(work.ranks * work.vocab)
           A == Scaled(x.terms, m)
           B == {<<c, work.logit[t][c]>> : c \in V}
<1>1. DOMAIN work.logit[t] = V
  BY DEF IsWork, Tokens
<1>2. \A s \in Groups, c \in OwnColumns : LogitAt(s, t, c) \in Int /\ -500 < LogitAt(s, t, c) /\ Global(s, c) \in V
  BY Logits
<1> HIDE DEF m, V
<1>3. m \in Int
  BY DEF m
<1>4. ASSUME NEW y \in A PROVE y \in B
  <2>1. PICK z \in x.terms : y = <<z[1], z[2] + m>>
    BY DEF Scaled
  <2>2. PICK s \in Groups : z \in Relative(s, t, OwnColumns, m)
    BY <2>1 DEF m
  <2>3. PICK c \in OwnColumns : z = <<Global(s, c), LogitAt(s, t, c) - m>>
    BY <2>2 DEF Relative
  <2>4. LogitAt(s, t, c) \in Int /\ Global(s, c) \in V
    BY <1>2
  <2>5. LogitAt(s, t, c) - m + m = LogitAt(s, t, c)
    BY <1>3, <2>4
  <2>6. y = <<Global(s, c), LogitAt(s, t, c)>>
    BY <2>1, <2>3, <2>5
  <2> QED
    BY <2>4, <2>6 DEF LogitAt
<1>5. ASSUME NEW y \in B PROVE y \in A
  <2>1. PICK c \in V : y = <<c, work.logit[t][c]>>
    OBVIOUS
  <2> DEFINE s == c \div work.vocab
             d == c % work.vocab
  <2>2. s \in Groups /\ d \in OwnColumns /\ Global(s, d) = c
    BY <2>1, ColumnAt DEF V
  <2> HIDE DEF s, d
  <2>3. LogitAt(s, t, d) = work.logit[t][c] /\ LogitAt(s, t, d) \in Int /\ -500 < LogitAt(s, t, d)
    BY <1>2, <2>2 DEF LogitAt
  <2> DEFINE z == <<Global(s, d), LogitAt(s, t, d) - m>>
  <2>4. z \in x.terms
    <3>1. z \in Relative(s, t, OwnColumns, m)
      BY <2>2 DEF Relative
    <3> QED
      BY <2>2, <3>1 DEF m
  <2>5. LogitAt(s, t, d) - m + m = LogitAt(s, t, d)
    BY <1>3, <2>3
  <2>6. y = <<z[1], z[2] + m>> /\ y[2] > -500
    BY <2>1, <2>2, <2>3, <2>5
  <2> QED
    BY <2>4, <2>6 DEF Scaled, Underflow
<1>6. A = B
  BY <1>4, <1>5
<1> QED
  BY <1>1, <1>6 DEF SumExact, m

\* The rank of a label, and the logit that is picked.
Picked(t) == <<work.label[t] \div work.vocab, work.logit[t][work.label[t]]>>
\* A label is in a split of its own rank, and of no other.
LEMMA LabelOwner ==
  ASSUME IsWork(work), NEW t \in Tokens, NEW r \in Groups
  PROVE  /\ work.label[t] \div work.vocab \in Groups
         /\ (work.label[t] \div work.vocab = r) <=> \E n \in Splits : Owns(r, n, work.label[t])
<1> DEFINE l == work.label[t]
           v == work.vocab
           p == work.perSplit
<1>1. v \in Nat \ {0} /\ p \in Nat \ {0} /\ l \in Below0(work.ranks * work.vocab)
  BY WorkNumbers DEF IsWork, Tokens
<1>2. l \div v \in Groups /\ l % v \in OwnColumns /\ Global(l \div v, l % v) = l
  BY <1>1, ColumnAt
<1>3. ASSUME NEW n \in Splits, Owns(r, n, l) PROVE l \div v = r
  <2>1. PICK d \in SplitOf(n) : l = Global(r, d)
    BY <1>3, LabelColumn
  <2>2. d \in 0 .. v - 1 /\ r \in Nat
    BY <1>1, <2>1, WorkNumbers DEF SplitOf, OwnColumns, Below0, Groups
  <2>3. v * r + d = l
    <3>1. r * v = v * r
      BY <1>1, <2>2
    <3> QED
      BY <2>1, <3>1 DEF Global
  <2>4. (v * r + d) \div v = r
    BY <1>1, <2>2, DivOf
  <2> QED
    BY <2>3, <2>4
<1>4. ASSUME l \div v = r PROVE \E n \in Splits : Owns(r, n, l)
  <2> DEFINE c == l % v
             n == c \div p
  <2>1. c \in OwnColumns /\ Global(r, c) = l
    BY <1>2, <1>4
  <2>2. n \in Splits /\ c \in SplitOf(n)
    BY <2>1, SplitsHaveAll
  <2> HIDE DEF c, n
  <2>3. c \in Nat /\ c < v /\ n * p <= c /\ c < (n + 1) * p /\ r \in Nat /\ n * p \in Nat /\ (n + 1) * p \in Nat
    <3>1. n * p \in Nat /\ (n + 1) * p = n * p + p
      BY <2>2, SplitBlocks
    <3> QED
      BY <1>1, <2>1, <2>2, <3>1 DEF SplitOf, OwnColumns, Below0, Groups
  <2>4. r * v \in Nat
    BY <1>1, <2>3
  <2>5. l = r * v + c
    BY <2>1 DEF Global
  <2>6. Lesser((n + 1) * p, v) > c
    BY <1>1, <2>3 DEF Lesser
  <2>7. Lesser((n + 1) * p, v) \in Nat
    BY <1>1, <2>3 DEF Lesser
  <2>8. Owns(r, n, l)
    <3> DEFINE a == n * p
               b == Lesser((n + 1) * p, v)
               g == r * v
    <3>1. Owns(r, n, l) <=> l >= g + a /\ l < g + b
      BY DEF Owns, Global
    <3>2. a \in Nat /\ b \in Nat /\ g \in Nat /\ a <= c /\ c < b /\ l = g + c
      BY <2>3, <2>4, <2>5, <2>6, <2>7
    <3> HIDE DEF a, b, g, l
    <3> QED
      BY <2>3, <3>1, <3>2
  <2> QED
    BY <2>2, <2>8
<1> QED
  BY <1>2, <1>3, <1>4

\* The tiles of the programs P of the main loop; all programs have all tiles.
TilesOf(P) == {x \in Tokens \X Splits : \E p \in P : x[2] * RowBlocks + RowOf(x[1]) \in Share(p, RowBlocks * Cardinality(Splits))}
\* All programs together have every token and split.
LEMMA AllTiles ==
  ASSUME IsWork(work)
  PROVE  TilesOf(Programs) = Tokens \X Splits
<1> DEFINE rb == RowBlocks
           s == Cdiv(work.vocab, work.perSplit)
<1>1. rb \in Nat \ {0} /\ s \in Nat \ {0} /\ work.cores \in Nat \ {0} /\ Cardinality(Splits) = s
      /\ Splits = Below0(s)
  BY WorkNumbers, CdivCovers, SplitCount DEF RowBlocks, Splits
<1>2. ASSUME NEW x \in Tokens \X Splits PROVE \E p \in Programs : x[2] * rb + RowOf(x[1]) \in Share(p, rb * Cardinality(Splits))
  <2>1. x[1] \in Tokens /\ x[2] \in Splits
    OBVIOUS
  <2>2. RowOf(x[1]) \in Below0(rb)
    BY <2>1, WorkNumbers, CdivCovers DEF Tokens, RowBlocks, RowOf
  <2> DEFINE n == x[2]
             q == RowOf(x[1])
  <2>3. n \in Nat /\ n + 1 <= s /\ q \in Nat /\ q < rb
    BY <1>1, <2>1, <2>2 DEF Below0
  <2> HIDE DEF n, q, rb, s
  <2>4. rb * (n + 1) <= rb * s
    BY <1>1, <2>3, Times
  <2>5. rb * (n + 1) = n * rb + rb /\ n * rb \in Nat /\ rb * s \in Nat
    BY <1>1, <2>3
  <2>6. n * rb + q \in Below0(rb * s) /\ rb * s \in Nat \ {0}
    BY <1>1, <2>3, <2>4, <2>5 DEF Below0
  <2>7. \E p \in Programs : n * rb + q \in Share(p, rb * s)
    BY <1>1, <2>6, ShareCovers
  <2> QED
    BY <1>1, <2>7 DEF n, q
<1> QED
  BY <1>2 DEF TilesOf

\* Each token is in the portion of one program of an epilogue.
LEMMA OnePortion ==
  ASSUME IsWork(work), NEW t \in Tokens
  PROVE  \E q \in Programs : \A p \in Programs : t \in Portion(p) <=> p = q
<1> DEFINE n == Cdiv(work.tokens, EpilogueCores)
           q == t \div n
<1>1. work.tokens \in Nat \ {0} /\ work.cores \in Nat \ {0} /\ Cdiv(work.tokens, work.bm) \in Nat \ {0}
  BY WorkNumbers, CdivCovers
<1>2. EpilogueCores \in Nat \ {0} /\ EpilogueCores <= work.cores
  BY <1>1 DEF EpilogueCores, Lesser
<1>3. n \in Nat \ {0} /\ EpilogueCores * n >= work.tokens
  BY <1>1, <1>2, CdivCovers
<1>4. t \in Nat /\ t < work.tokens
  BY <1>1 DEF Tokens, Below0
<1>5. \A p : t \in Portion(p) <=> t >= n * p /\ t < n * (p + 1)
  BY DEF Portion
<1> HIDE DEF n
<1>6. q \in Nat /\ t % n \in 0 .. n - 1 /\ t = n * q + (t % n)
  BY <1>3, <1>4, DivMod
<1> HIDE DEF q
<1>7. n * q \in Nat /\ n * (q + 1) = n * q + n
  BY <1>3, <1>6
<1>8. t >= n * q /\ t < n * (q + 1)
  BY <1>3, <1>6, <1>7
<1>9. q < work.cores
  <2> SUFFICES ASSUME q >= EpilogueCores PROVE FALSE
    BY <1>1, <1>2, <1>6
  <2>1. n * EpilogueCores <= n * q /\ n * EpilogueCores = EpilogueCores * n /\ EpilogueCores * n \in Nat
    BY <1>2, <1>3, <1>6, Times
  <2> QED
    BY <1>1, <1>3, <1>4, <1>7, <1>8, <2>1
<1>10. q \in Programs
  BY <1>1, <1>6, <1>9 DEF Programs, Below0
<1>11. ASSUME NEW p \in Programs, t \in Portion(p) PROVE p = q
  <2>1. p \in Nat
    BY <1>1 DEF Programs, Below0
  <2>2. n * p \in Nat /\ n * (p + 1) = n * p + n
    BY <1>3, <2>1
  <2>3. t >= n * p /\ t < n * (p + 1)
    BY <1>5, <1>11
  <2>4. t - n * p \in 0 .. n - 1 /\ n * p + (t - n * p) = t
    BY <1>3, <1>4, <2>2, <2>3
  <2>5. (n * p + (t - n * p)) \div n = p
    BY <1>3, <2>1, <2>4, DivOf
  <2> QED
    BY <2>4, <2>5 DEF q
<1> QED
  BY <1>5, <1>8, <1>10, <1>11

-----------------------------------------------------------------------------
(* The invariant of the forward pass, and its steps.                       *)

\* The stages of the forward pass: of one rank alone; of several ranks before the maxima are
\* reduced, while the sums are joined, and after the sums are reduced.
Stages == {"one", "before", "joining", "late"}
Opening == {"mainloop", "reduce"}
Joining == {"join", "wait"}
Summing == {"epilogue", "update"}
Afterwards == Kernels \ (Opening \cup Joining \cup Summing)
KernelsOf(st) ==
  CASE st = "one" -> {"mainloop", "epilogue"} \cup Afterwards
    [] st = "before" -> Opening
    [] st = "joining" -> Joining
    [] st = "late" -> {"update"} \cup Afterwards
MaximaOk == \A r \in Groups, t \in Tokens : ReducedOk(r, t) /\ \A n \in Splits : Red(r, t, n) = Red(0, t, n)
StageOk(st) ==
  /\ st = "one" <=> ~Tp
  /\ st \in {"one", "before"} => reduced = <<>> /\ ~joined
  /\ st = "joining" => MaximaOk
  /\ st = "late" => joined

\* What the programs P of the kernel k of rank r, and the kernels before it, have done.
TilesDone(k, P) == IF k = "mainloop" THEN TilesOf(P) ELSE Tokens \X Splits
AddedBy(k, P) ==
  IF ~work.reduce \/ k \in Opening \cup Joining THEN {}
  ELSE {x \in Programs \X Tokens : (k \in Summing => x[1] \in P) /\ x[2] \in Portion(x[1])}
PicksOk(r, k, P, pi) ==
  /\ \A x \in TilesDone(k, P) : Owns(r, x[2], work.label[x[1]]) => pi[x[1]] = {Picked(x[1])}
  /\ Tp => \A t \in Tokens : work.label[t] \div work.vocab # r => pi[t] = {}
PicksWhole(pi) == \A t \in Tokens : pi[t] = {Picked(t)}
JointIn(r, k, P, jo) ==
  /\ k = "join" => \A p \in P : \A t \in Portion(p) : JointOk(r, t, jo[t])
  /\ k = "wait" => \A t \in Tokens : JointOk(r, t, jo[t])
  /\ k = "update" => \A t \in Tokens : SumExact(t, jo[t])
ResultOk(t, x) == x = <<>> \/ (SumExact(t, x.sum) /\ x.pick = {Picked(t)})
RankLog(st, j, r, k, P, pa, pi, jo, res, su) ==
  /\ DOMAIN pa = Tokens \X Splits
  /\ k \in KernelsOf(st) /\ (k \in {"reduce", "wait"} => P = {})
  /\ \A x \in TilesDone(k, P) : SplitSummed(r, x[1], x[2], pa[x])
  /\ su = AddedBy(k, P)
  /\ IF j THEN PicksWhole(pi) ELSE PicksOk(r, k, P, pi)
  /\ st \in {"joining", "late"} => JointIn(r, k, P, jo)
  /\ \A t \in Tokens : ResultOk(t, res[t])

\* The inductive invariant of the forward pass.
Rank(st, r) == RankLog(st, joined, r, kernel[r], Ran(r), partial[r], picked[r], joint[r], result[r], summed[r])
LogInv ==
  /\ GradInv
  /\ DOMAIN partial = Groups /\ DOMAIN picked = Groups /\ DOMAIN joint = Groups /\ DOMAIN result = Groups /\ DOMAIN summed = Groups
  /\ \E st \in Stages : StageOk(st) /\ \A r \in Groups : Rank(st, r)

\* While the call is the same, so is all of this that is computed from it.
LEMMA CallStays ==
  ASSUME work' = work
  PROVE  /\ Groups' = Groups /\ Programs' = Programs /\ Tokens' = Tokens /\ Splits' = Splits /\ OwnColumns' = OwnColumns
         /\ (Tp' <=> Tp)
         /\ \A p : Portion(p)' = Portion(p)
         /\ \A r, t, c : LogitAt(r, t, c)' = LogitAt(r, t, c)
         /\ \A r, t, C, m : Relative(r, t, C, m)' = Relative(r, t, C, m)
         /\ \A t, x : SumExact(t, x)' <=> SumExact(t, x)
         /\ \A r, t, n, x : SplitSummed(r, t, n, x)' <=> SplitSummed(r, t, n, x)
         /\ \A k, P : TilesDone(k, P)' = TilesDone(k, P)
         /\ \A k, P : AddedBy(k, P)' = AddedBy(k, P)
         /\ \A r, k, P, pi : PicksOk(r, k, P, pi)' <=> PicksOk(r, k, P, pi)
         /\ \A pi : PicksWhole(pi)' <=> PicksWhole(pi)
         /\ \A t, x : ResultOk(t, x)' <=> ResultOk(t, x)
<1>1. Groups' = Groups /\ Programs' = Programs /\ Tokens' = Tokens /\ Splits' = Splits /\ OwnColumns' = OwnColumns
      /\ RowBlocks' = RowBlocks /\ (Tp' <=> Tp) /\ EpilogueCores' = EpilogueCores
  BY DEF Groups, Programs, Tokens, Splits, OwnColumns, RowBlocks, Tp, EpilogueCores
<1>2. /\ \A p : Portion(p)' = Portion(p)
      /\ \A p, tiles : Share(p, tiles)' = Share(p, tiles)
      /\ \A t : RowOf(t)' = RowOf(t)
      /\ \A r, c : Global(r, c)' = Global(r, c)
      /\ \A r, t, c : LogitAt(r, t, c)' = LogitAt(r, t, c)
  <2>1. \A p : Portion(p)' = Portion(p)
    BY <1>1 DEF Portion
  <2>2. \A p, tiles : Share(p, tiles)' = Share(p, tiles)
    BY DEF Share
  <2>3. \A t : RowOf(t)' = RowOf(t)
    BY DEF RowOf
  <2>4. \A r, c : Global(r, c)' = Global(r, c)
    BY DEF Global
  <2>5. \A r, t, c : LogitAt(r, t, c)' = LogitAt(r, t, c)
    BY <2>4 DEF LogitAt
  <2> QED
    BY <2>1, <2>2, <2>3, <2>4, <2>5
<1>3. /\ \A n : SplitOf(n)' = SplitOf(n)
      /\ \A r, t, C, m : Relative(r, t, C, m)' = Relative(r, t, C, m)
      /\ \A r, n, l : Owns(r, n, l)' <=> Owns(r, n, l)
      /\ \A t : Picked(t)' = Picked(t)
      /\ \A t, x : SumExact(t, x)' <=> SumExact(t, x)
  <2>1. \A n : SplitOf(n)' = SplitOf(n)
    BY <1>1 DEF SplitOf
  <2>2. \A r, t, C, m : Relative(r, t, C, m)' = Relative(r, t, C, m)
    BY <1>2 DEF Relative
  <2>3. \A r, n, l : Owns(r, n, l)' <=> Owns(r, n, l)
    BY <1>2 DEF Owns
  <2>4. \A t : Picked(t)' = Picked(t)
    BY DEF Picked
  <2>5. \A t, x : SumExact(t, x)' <=> SumExact(t, x)
    BY DEF SumExact
  <2> QED
    BY <2>1, <2>2, <2>3, <2>4, <2>5
<1>4. \A r, t, n, x : SplitSummed(r, t, n, x)' <=> SplitSummed(r, t, n, x)
  BY <1>2, <1>3 DEF SplitSummed
<1>5. \A k, P : TilesDone(k, P)' = TilesDone(k, P)
  BY <1>1, <1>2 DEF TilesDone, TilesOf
<1>6. \A k, P : AddedBy(k, P)' = AddedBy(k, P)
  <2>1. \A k : k \in Opening \cup Joining => \A P : AddedBy(k, P)' = AddedBy(k, P)
    BY DEF AddedBy
  <2> QED
    BY <1>1, <1>2, <2>1 DEF AddedBy
<1>7. \A r, k, P, pi : PicksOk(r, k, P, pi)' <=> PicksOk(r, k, P, pi)
  BY <1>1, <1>3, <1>5 DEF PicksOk
<1>8. \A pi : PicksWhole(pi)' <=> PicksWhole(pi)
  BY <1>1, <1>3 DEF PicksWhole
<1>9. \A t, x : ResultOk(t, x)' <=> ResultOk(t, x)
  BY <1>3 DEF ResultOk
<1> QED
  BY <1>1, <1>2, <1>3, <1>4, <1>5, <1>6, <1>7, <1>8, <1>9

\* While the reduced maxima are the same too, so is the invariant of a rank.
LEMMA LogStays ==
  ASSUME work' = work, reduced' = reduced
  PROVE  /\ \A st, j, r, k, P, pa, pi, jo, res, su :
              RankLog(st, j, r, k, P, pa, pi, jo, res, su)' <=> RankLog(st, j, r, k, P, pa, pi, jo, res, su)
         /\ (MaximaOk' <=> MaximaOk) /\ (Tp' <=> Tp) /\ Groups' = Groups
<1>1. \A r, t, n : Red(r, t, n)' = Red(r, t, n)
  BY DEF Red
<1>2. \A r, t, x : JointOk(r, t, x)' <=> JointOk(r, t, x)
  <2>1. \A r, t, m : IsTop(r, t, m)' <=> IsTop(r, t, m)
    BY <1>1, CallStays DEF IsTop
  <2> QED
    BY <2>1, CallStays DEF JointOk
<1>3. \A r, k, P, jo : JointIn(r, k, P, jo)' <=> JointIn(r, k, P, jo)
  BY <1>2, CallStays DEF JointIn
<1>4. MaximaOk' <=> MaximaOk
  <2>1. \A r, t : ReducedOk(r, t)' <=> ReducedOk(r, t)
    BY <1>1, CallStays DEF ReducedOk
  <2> QED
    BY <1>1, <2>1, CallStays DEF MaximaOk
<1>5. \A st, j, r, k, P, pa, pi, jo, res, su :
         RankLog(st, j, r, k, P, pa, pi, jo, res, su)' <=> RankLog(st, j, r, k, P, pa, pi, jo, res, su)
  BY <1>3, CallStays DEF RankLog
<1> QED
  BY <1>4, <1>5, CallStays

\* A step of one rank keeps LogInv if it keeps that rank's part.
LEMMA LogStep ==
  ASSUME LogInv, GradInv', NEW st \in Stages, StageOk(st), NEW r \in Groups,
         \A s \in Groups : Rank(st, s),
         work' = work, reduced' = reduced, joined' = joined,
         \A s \in Groups : s # r => /\ kernel'[s] = kernel[s] /\ left'[s] = left[s] /\ partial'[s] = partial[s]
                                    /\ picked'[s] = picked[s] /\ joint'[s] = joint[s] /\ result'[s] = result[s]
                                    /\ summed'[s] = summed[s],
         DOMAIN partial' = Groups, DOMAIN picked' = Groups, DOMAIN joint' = Groups, DOMAIN result' = Groups,
         DOMAIN summed' = Groups,
         RankLog(st, joined, r, kernel'[r], Programs \ left'[r], partial'[r], picked'[r], joint'[r], result'[r], summed'[r])
  PROVE  LogInv'
<1>1. \A s \in Groups : RankLog(st, joined, s, kernel'[s], Programs \ left'[s], partial'[s], picked'[s], joint'[s],
                                result'[s], summed'[s])
  BY DEF Rank, Ran
<1>2. /\ \A s, j, q, k, P, pa, pi, jo, res, su :
            RankLog(s, j, q, k, P, pa, pi, jo, res, su)' <=> RankLog(s, j, q, k, P, pa, pi, jo, res, su)
      /\ (MaximaOk' <=> MaximaOk) /\ (Tp' <=> Tp) /\ Groups' = Groups
  BY LogStays
<1>3. Programs' = Programs
  BY DEF Programs
<1>4. \A s \in Groups : Ran(s)' = Programs \ left'[s]
  BY <1>3 DEF Ran
<1>5. \A s \in Groups : Rank(st, s)'
  <2> SUFFICES ASSUME NEW s \in Groups PROVE Rank(st, s)'
    OBVIOUS
  <2>1. RankLog(st, joined, s, kernel[s], Ran(s), partial[s], picked[s], joint[s], result[s], summed[s])'
    BY <1>1, <1>2, <1>4
  <2> QED
    BY <2>1 DEF Rank
<1>6. StageOk(st)'
  BY <1>2 DEF StageOk
<1> QED
  BY <1>2, <1>5, <1>6 DEF LogInv

\* A program of the main loop sums its tiles.
LEMMA MainloopStep ==
  ASSUME LogInv, GradInv', NEW r \in Groups, NEW p, Mainloop(r, p)
  PROVE  LogInv'
<1>1. PICK st \in Stages : StageOk(st) /\ \A s \in Groups : Rank(st, s)
  BY DEF LogInv
<1>2. IsWork(work) /\ GradInv /\ work' = work /\ reduced' = reduced /\ joined' = joined /\ joint' = joint
      /\ result' = result /\ summed' = summed
  BY DEF Mainloop, LogInv, GradInv
<1>3. RankLog(st, joined, r, "mainloop", Ran(r), partial[r], picked[r], joint[r], result[r], summed[r])
  BY <1>1 DEF Mainloop, Rank
<1>4. st \in {"one", "before"} /\ ~joined
  BY <1>1, <1>3 DEF RankLog, KernelsOf, StageOk, Stages, Joining, Afterwards, Opening
<1> DEFINE next == IF Tp THEN "reduce" ELSE "epilogue"
           mine == TilesOf({p})
           done == [x \in mine |-> OneSplit(r, x[1], x[2])]
<1>5. /\ p \in Programs
      /\ \A s \in Groups : s # r => kernel'[s] = kernel[s] /\ left'[s] = left[s]
      /\ \/ kernel'[r] = next /\ left'[r] = Programs /\ Ran(r) \cup {p} = Programs
         \/ kernel'[r] = "mainloop" /\ Programs \ left'[r] = Ran(r) \cup {p}
  <2>1. Ends(r, p, next) /\ kernel[r] = "mainloop"
    BY DEF Mainloop
  <2>3. next \in Kernels
    BY DEF Kernels, Forwards
  <2> HIDE DEF next
  <2> QED
    BY <1>2, <2>1, <2>3, EndsOne
<1>6. TilesOf(Ran(r) \cup {p}) = TilesOf(Ran(r)) \cup mine
  BY DEF TilesOf
<1>7. TilesDone(kernel'[r], Programs \ left'[r]) = TilesDone("mainloop", Ran(r)) \cup mine
  <2>1. CASE kernel'[r] = next /\ left'[r] = Programs /\ Ran(r) \cup {p} = Programs
    BY <1>2, <1>6, <2>1, AllTiles DEF TilesDone
  <2>2. CASE kernel'[r] = "mainloop" /\ Programs \ left'[r] = Ran(r) \cup {p}
    BY <1>6, <2>2 DEF TilesDone
  <2> QED
    BY <1>5, <2>1, <2>2
<1>8. /\ partial' = [partial EXCEPT ![r] = [x \in DOMAIN @ |->
                       IF x \in mine THEN [max |-> done[x].max, terms |-> done[x].terms] ELSE @[x]]]
      /\ picked' = [picked EXCEPT ![r] = [t \in Tokens |->
           LET owners == {x \in mine : x[1] = t /\ Owns(r, x[2], work.label[t])}
           IN  IF owners = {} THEN @[t] ELSE {<<r, done[x].pick>> : x \in owners}]]
  BY DEF Mainloop, TilesOf, RowBlocks, RowOf
<1>9. /\ DOMAIN partial' = Groups /\ DOMAIN picked' = Groups
      /\ \A s \in Groups : s # r => partial'[s] = partial[s] /\ picked'[s] = picked[s]
      /\ partial'[r] = [x \in DOMAIN partial[r] |->
                          IF x \in mine THEN [max |-> done[x].max, terms |-> done[x].terms] ELSE partial[r][x]]
      /\ picked'[r] = [t \in Tokens |->
           LET owners == {x \in mine : x[1] = t /\ Owns(r, x[2], work.label[t])}
           IN  IF owners = {} THEN picked[r][t] ELSE {<<r, done[x].pick>> : x \in owners}]
  BY <1>8 DEF LogInv
<1>10. \A x \in mine : x[1] \in Tokens /\ x[2] \in Splits /\ x \in Tokens \X Splits
  BY DEF TilesOf
<1> HIDE DEF next, mine
<1>11. ASSUME NEW x \in mine
       PROVE  /\ SplitSummed(r, x[1], x[2], done[x])
              /\ Owns(r, x[2], work.label[x[1]]) => <<r, done[x].pick>> = Picked(x[1])
  <2>1. done[x] = OneSplit(r, x[1], x[2])
    OBVIOUS
  <2>2. /\ SplitSummed(r, x[1], x[2], done[x])
        /\ Owns(r, x[2], work.label[x[1]]) => done[x].pick = work.logit[x[1]][work.label[x[1]]]
    BY <1>2, <1>10, <2>1, SplitDone
  <2>3. Owns(r, x[2], work.label[x[1]]) => work.label[x[1]] \div work.vocab = r
    BY <1>2, <1>10, LabelOwner
  <2> QED
    BY <2>2, <2>3 DEF Picked
<1> HIDE DEF done
<1>12. ASSUME NEW x \in TilesDone(kernel'[r], Programs \ left'[r])
       PROVE  SplitSummed(r, x[1], x[2], partial'[r][x])
  <2>1. DOMAIN partial[r] = Tokens \X Splits
    BY <1>3 DEF RankLog
  <2>2. x \in Tokens \X Splits
    BY <1>7, <1>10 DEF TilesDone, TilesOf
  <2>3. CASE x \in mine
    BY <1>9, <1>11, <2>1, <2>2, <2>3 DEF SplitSummed
  <2>4. CASE x \notin mine
    BY <1>3, <1>7, <1>9, <2>1, <2>2, <2>4 DEF RankLog
  <2> QED
    BY <2>3, <2>4
<1>13. PicksOk(r, kernel'[r], Programs \ left'[r], picked'[r])
  <2> DEFINE owners(t) == {x \in mine : x[1] = t /\ Owns(r, x[2], work.label[t])}
  <2>1. \A t \in Tokens : picked'[r][t] = IF owners(t) = {} THEN picked[r][t] ELSE {<<r, done[x].pick>> : x \in owners(t)}
    BY <1>9
  <2>2. ASSUME NEW t \in Tokens, owners(t) # {} PROVE picked'[r][t] = {Picked(t)}
    <3>1. picked'[r][t] = {<<r, done[x].pick>> : x \in owners(t)}
      BY <2>1, <2>2
    <3>2. \A x \in owners(t) : <<r, done[x].pick>> = Picked(t)
      BY <1>11
    <3> QED
      BY <2>2, <3>1, <3>2
  <2>3. ASSUME NEW t \in Tokens, owners(t) = {} PROVE picked'[r][t] = picked[r][t]
    BY <2>1, <2>3
  <2>4. PicksOk(r, "mainloop", Ran(r), picked[r])
    BY <1>3, <1>4 DEF RankLog
  <2>5. ASSUME NEW x \in TilesDone(kernel'[r], Programs \ left'[r]), Owns(r, x[2], work.label[x[1]])
        PROVE  picked'[r][x[1]] = {Picked(x[1])}
    <3>1. x[1] \in Tokens
      BY <1>7, <1>10 DEF TilesDone, TilesOf
    <3>2. CASE owners(x[1]) # {}
      BY <2>2, <3>1, <3>2
    <3>3. CASE owners(x[1]) = {}
      <4>1. x \notin mine
        BY <2>5, <3>3
      <4>2. x \in TilesDone("mainloop", Ran(r))
        BY <1>7, <4>1
      <4> QED
        BY <2>3, <2>4, <2>5, <3>1, <3>3, <4>2 DEF PicksOk
    <3> QED
      BY <3>2, <3>3
  <2>6. ASSUME Tp, NEW t \in Tokens, work.label[t] \div work.vocab # r PROVE picked'[r][t] = {}
    <3>1. \A n \in Splits : ~Owns(r, n, work.label[t])
      BY <1>2, <2>6, LabelOwner
    <3>2. owners(t) = {}
      BY <1>10, <3>1
    <3> QED
      BY <2>3, <2>4, <2>6, <3>2 DEF PicksOk
  <2> QED
    BY <2>5, <2>6 DEF PicksOk
<1>14. summed'[r] = AddedBy(kernel'[r], Programs \ left'[r])
  <2>1. summed[r] = {}
    BY <1>3 DEF RankLog, AddedBy, Opening
  <2>2. AddedBy(kernel'[r], Programs \ left'[r]) = {}
    BY <1>5 DEF AddedBy, Opening, Summing, next
  <2> QED
    BY <1>2, <2>1, <2>2
<1>15. kernel'[r] \in KernelsOf(st) /\ (kernel'[r] \in {"reduce", "wait"} => Programs \ left'[r] = {})
  BY <1>1, <1>4, <1>5 DEF KernelsOf, Opening, StageOk, next
<1>16. RankLog(st, joined, r, kernel'[r], Programs \ left'[r], partial'[r], picked'[r], joint'[r], result'[r], summed'[r])
  BY <1>2, <1>3, <1>4, <1>9, <1>12, <1>13, <1>14, <1>15 DEF RankLog
<1> QED
  <2>1. DOMAIN joint' = Groups /\ DOMAIN result' = Groups /\ DOMAIN summed' = Groups
    BY <1>2 DEF LogInv
  <2> QED
    BY <1>1, <1>2, <1>5, <1>9, <1>16, <2>1, LogStep

\* A program of an epilogue adds the tokens of its portion, each under its own number.
LEMMA AddedGrows ==
  ASSUME NEW p \in Programs, NEW k \in Summing, NEW P \in SUBSET Programs, NEW k2, NEW P2,
         (k2 \in Afterwards /\ P \cup {p} = Programs) \/ (k2 = k /\ P2 = P \cup {p})
  PROVE  AddedBy(k2, P2) = AddedBy(k, P) \cup (IF work.reduce THEN {<<p, t>> : t \in Portion(p)} ELSE {})
<1>1. k \notin Opening \cup Joining /\ k2 \notin Opening \cup Joining
  BY DEF Summing, Opening, Joining, Afterwards
<1>2. CASE ~work.reduce
  BY <1>2 DEF AddedBy
<1>3. CASE work.reduce
  <2> DEFINE S(Q) == {x \in Programs \X Tokens : x[1] \in Q /\ x[2] \in Portion(x[1])}
  <2>1. S(P \cup {p}) = S(P) \cup {<<p, t>> : t \in Portion(p)}
    <3>1. Portion(p) \subseteq Tokens
      BY DEF Portion
    <3> QED
      BY <3>1
  <2>2. AddedBy(k, P) = S(P)
    BY <1>1, <1>3 DEF AddedBy
  <2>3. AddedBy(k2, P2) = S(P \cup {p})
    <3>1. CASE k2 = k /\ P2 = P \cup {p}
      BY <1>1, <1>3, <3>1 DEF AddedBy
    <3>2. CASE k2 \in Afterwards /\ P \cup {p} = Programs
      <4>1. k2 \notin Summing
        BY <3>2 DEF Afterwards
      <4>2. AddedBy(k2, P2) = {x \in Programs \X Tokens : x[2] \in Portion(x[1])}
        BY <1>1, <1>3, <4>1 DEF AddedBy
      <4> QED
        BY <3>2, <4>2
    <3> QED
      BY <3>1, <3>2
  <2> HIDE DEF S
  <2> QED
    BY <1>3, <2>1, <2>2, <2>3
<1> QED
  BY <1>2, <1>3

\* Once the main loop is over the splits of every token are summed, and its label is picked by its rank.
LEMMA AllSummed ==
  ASSUME NEW st, NEW r \in Groups, Rank(st, r), kernel[r] # "mainloop"
  PROVE  /\ \A t \in Tokens : Summed(r, t, Splits)
         /\ ~joined /\ IsWork(work) => \A t \in Tokens : work.label[t] \div work.vocab = r => picked[r][t] = {Picked(t)}
<1>1. /\ \A x \in Tokens \X Splits : SplitSummed(r, x[1], x[2], partial[r][x])
      /\ ~joined => \A x \in Tokens \X Splits : Owns(r, x[2], work.label[x[1]]) => picked[r][x[1]] = {Picked(x[1])}
  BY DEF Rank, RankLog, TilesDone, PicksOk
<1>2. ASSUME NEW t \in Tokens PROVE Summed(r, t, Splits)
  <2> SUFFICES ASSUME NEW n \in Splits PROVE SplitSummed(r, t, n, partial[r][t, n])
    BY DEF Summed
  <2> DEFINE x == <<t, n>>
  <2>1. x \in Tokens \X Splits /\ x[1] = t /\ x[2] = n
    OBVIOUS
  <2>2. SplitSummed(r, x[1], x[2], partial[r][x])
    BY <1>1, <2>1
  <2> QED
    BY <2>1, <2>2, Zenon
<1>3. ASSUME ~joined, IsWork(work), NEW t \in Tokens, work.label[t] \div work.vocab = r PROVE picked[r][t] = {Picked(t)}
  <2>1. PICK n \in Splits : Owns(r, n, work.label[t])
    BY <1>3, LabelOwner
  <2> DEFINE x == <<t, n>>
  <2>2. x \in Tokens \X Splits /\ x[1] = t /\ x[2] = n
    OBVIOUS
  <2> QED
    BY <1>1, <1>3, <2>1, <2>2
<1> QED
  BY <1>2, <1>3

\* A program of the epilogue of a rank that has the whole vocabulary.
LEMMA EpilogueStep ==
  ASSUME LogInv, GradInv', NEW r \in Groups, NEW p, Epilogue(r, p)
  PROVE  LogInv'
<1>1. PICK st \in Stages : StageOk(st) /\ \A s \in Groups : Rank(st, s)
  BY DEF LogInv
<1>2. IsWork(work) /\ GradInv /\ work' = work /\ reduced' = reduced /\ joined' = joined /\ partial' = partial
      /\ picked' = picked
  BY DEF Epilogue, LogInv, GradInv
<1>3. RankLog(st, joined, r, "epilogue", Ran(r), partial[r], picked[r], joint[r], result[r], summed[r])
      /\ kernel[r] = "epilogue"
  BY <1>1 DEF Epilogue, Rank
<1>4. st = "one" /\ ~joined /\ ~Tp
  BY <1>1, <1>3 DEF RankLog, KernelsOf, StageOk, Stages, Joining, Afterwards, Opening, Summing
<1>5. /\ p \in Programs
      /\ \A s \in Groups : s # r => kernel'[s] = kernel[s] /\ left'[s] = left[s]
      /\ \/ kernel'[r] = "forward" /\ left'[r] = Programs /\ Ran(r) \cup {p} = Programs
         \/ kernel'[r] = "epilogue" /\ Programs \ left'[r] = Ran(r) \cup {p}
  <2>1. Ends(r, p, "forward") /\ "forward" \in Kernels
    BY DEF Epilogue, Kernels, Forwards
  <2> QED
    BY <1>2, <1>3, <2>1, EndsOne
<1>6. /\ joint' = [joint EXCEPT ![r] = [t \in Tokens |->
            IF t \in Portion(p) THEN [max |-> TopOf(r, t), terms |-> Joined(r, t, TopOf(r, t))] ELSE @[t]]]
      /\ result' = [result EXCEPT ![r] = [t \in Tokens |->
            IF t \in Portion(p) THEN [pick |-> picked[r][t], sum |-> joint'[r][t]] ELSE @[t]]]
      /\ summed' = [summed EXCEPT ![r] = @ \cup (IF work.reduce THEN {<<p, t>> : t \in Portion(p)} ELSE {})]
  BY DEF Epilogue, TopOf, Reduce
<1>7. /\ DOMAIN joint' = Groups /\ DOMAIN result' = Groups /\ DOMAIN summed' = Groups
      /\ \A s \in Groups : s # r => joint'[s] = joint[s] /\ result'[s] = result[s] /\ summed'[s] = summed[s]
      /\ \A t \in Tokens : t \in Portion(p) => joint'[r][t] = [max |-> TopOf(r, t), terms |-> Joined(r, t, TopOf(r, t))]
      /\ \A t \in Tokens : result'[r][t] = IF t \in Portion(p) THEN [pick |-> picked[r][t], sum |-> joint'[r][t]]
                                           ELSE result[r][t]
      /\ summed'[r] = summed[r] \cup (IF work.reduce THEN {<<p, t>> : t \in Portion(p)} ELSE {})
  BY <1>6 DEF LogInv
<1>8. Groups = {r}
  BY <1>2, <1>4, WorkNumbers DEF Tp, Groups, Below0
<1>9. \A t \in Tokens : Summed(r, t, Splits) /\ picked[r][t] = {Picked(t)}
  BY <1>1, <1>2, <1>3, <1>4, <1>8, AllSummed, LabelOwner
<1>10. ASSUME NEW t \in Tokens PROVE ResultOk(t, result'[r][t])
  <2>1. CASE t \in Portion(p)
    <3> DEFINE x == result'[r][t].sum
               m == TopOf(r, t)
    <3>1. x.max = m /\ x.terms = Joined(r, t, m) /\ result'[r][t].pick = {Picked(t)}
      <4> DEFINE y == joint'[r][t]
      <4>1. result'[r][t] = [pick |-> picked[r][t], sum |-> y]
        BY <1>7, <2>1
      <4>2. y = [max |-> m, terms |-> Joined(r, t, m)]
        BY <1>7, <2>1
      <4> HIDE DEF y, m
      <4>3. result'[r][t].sum = y /\ result'[r][t].pick = picked[r][t]
        BY <4>1
      <4> QED
        BY <1>9, <4>2, <4>3
    <3>2. m \in {LogitAt(r, t, c) : c \in OwnColumns} /\ Joined(r, t, m) = Relative(r, t, OwnColumns, m)
      BY <1>2, <1>9, EpilogueSum
    <3> HIDE DEF x, m
    <3>3. m \in Int
      BY <1>2, <3>2, Logits
    <3>4. x.terms = UNION {Relative(s, t, OwnColumns, x.max) : s \in Groups}
      BY <1>8, <3>1, <3>2
    <3>5. SumExact(t, x)
      BY <1>2, <3>1, <3>3, <3>4, AllRanksExact
    <3> QED
      BY <3>1, <3>5 DEF ResultOk, x
  <2>2. CASE t \notin Portion(p)
    BY <1>3, <1>7, <2>2 DEF RankLog
  <2> QED
    BY <2>1, <2>2
<1>11. summed'[r] = AddedBy(kernel'[r], Programs \ left'[r])
  <2>1. summed[r] = AddedBy("epilogue", Ran(r)) /\ Ran(r) \in SUBSET Programs /\ "epilogue" \in Summing
        /\ "forward" \in Afterwards
    BY <1>3 DEF RankLog, Ran, Summing, Afterwards, Kernels, Forwards, Opening, Joining
  <2>2. AddedBy(kernel'[r], Programs \ left'[r])
          = AddedBy("epilogue", Ran(r)) \cup (IF work.reduce THEN {<<p, t>> : t \in Portion(p)} ELSE {})
    BY <1>5, <2>1, AddedGrows
  <2> QED
    BY <1>7, <2>1, <2>2
<1>12. kernel'[r] \in KernelsOf(st) /\ kernel'[r] # "mainloop" /\ kernel'[r] \notin {"reduce", "wait"}
  BY <1>4, <1>5 DEF KernelsOf, Afterwards, Kernels, Forwards, Opening, Joining, Summing
<1>13. PicksOk(r, kernel'[r], Programs \ left'[r], picked'[r])
  BY <1>2, <1>4, <1>9, <1>12 DEF PicksOk, TilesDone
<1>14. RankLog(st, joined, r, kernel'[r], Programs \ left'[r], partial'[r], picked'[r], joint'[r], result'[r], summed'[r])
  BY <1>2, <1>3, <1>4, <1>10, <1>11, <1>12, <1>13 DEF RankLog, TilesDone
<1> QED
  BY <1>1, <1>2, <1>5, <1>7, <1>14, LogStep DEF LogInv

\* A program of the epilogue that joins the splits of a rank.
LEMMA EpilogueTpStep ==
  ASSUME LogInv, GradInv', NEW r \in Groups, NEW p, EpilogueTp(r, p)
  PROVE  LogInv'
<1>1. PICK st \in Stages : StageOk(st) /\ \A s \in Groups : Rank(st, s)
  BY DEF LogInv
<1>2. IsWork(work) /\ GradInv /\ work' = work /\ reduced' = reduced /\ joined' = joined /\ partial' = partial
      /\ picked' = picked /\ result' = result /\ summed' = summed
  BY DEF EpilogueTp, LogInv, GradInv
<1>3. RankLog(st, joined, r, "join", Ran(r), partial[r], picked[r], joint[r], result[r], summed[r])
      /\ kernel[r] = "join"
  BY <1>1 DEF EpilogueTp, Rank
<1>4. st = "joining" /\ MaximaOk
  BY <1>1, <1>3 DEF RankLog, KernelsOf, StageOk, Stages, Joining, Afterwards, Opening, Summing
<1>5. /\ p \in Programs
      /\ \A s \in Groups : s # r => kernel'[s] = kernel[s] /\ left'[s] = left[s]
      /\ \/ kernel'[r] = "wait" /\ left'[r] = Programs /\ Ran(r) \cup {p} = Programs
         \/ kernel'[r] = "join" /\ Programs \ left'[r] = Ran(r) \cup {p}
  <2>1. Ends(r, p, "wait") /\ "wait" \in Kernels
    BY DEF EpilogueTp, Kernels, Forwards
  <2> QED
    BY <1>2, <1>3, <2>1, EndsOne
<1>6. joint' = [joint EXCEPT ![r] = [t \in Tokens |-> IF t \in Portion(p) THEN JoinSplits(r, t) ELSE @[t]]]
  BY DEF EpilogueTp
<1>7. /\ DOMAIN joint' = Groups
      /\ \A s \in Groups : s # r => joint'[s] = joint[s]
      /\ \A t \in Tokens : joint'[r][t] = IF t \in Portion(p) THEN JoinSplits(r, t) ELSE joint[r][t]
  BY <1>6 DEF LogInv
<1>8. \A t \in Tokens : JointOk(r, t, JoinSplits(r, t))
  <2>1. \A t \in Tokens : Summed(r, t, Splits)
    BY <1>1, <1>3, AllSummed
  <2>2. \A t \in Tokens : ReducedOk(r, t)
    BY <1>4 DEF MaximaOk
  <2> QED
    BY <1>2, <2>1, <2>2, SplitsDone
<1>9. \A q \in Ran(r) \cup {p} : \A t \in Portion(q) : JointOk(r, t, joint'[r][t])
  <2>1. \A q \in Ran(r) : \A t \in Portion(q) : JointOk(r, t, joint[r][t])
    BY <1>3, <1>4 DEF RankLog, JointIn
  <2>2. \A q : Portion(q) \subseteq Tokens
    BY DEF Portion
  <2> QED
    BY <1>7, <1>8, <2>1, <2>2
<1>10. JointIn(r, kernel'[r], Programs \ left'[r], joint'[r])
  <2>1. CASE kernel'[r] = "join" /\ Programs \ left'[r] = Ran(r) \cup {p}
    BY <1>9, <2>1 DEF JointIn
  <2>2. CASE kernel'[r] = "wait" /\ left'[r] = Programs /\ Ran(r) \cup {p} = Programs
    <3>1. \A t \in Tokens : \E q \in Programs : t \in Portion(q)
      BY <1>2, OnePortion
    <3> QED
      BY <1>9, <2>2, <3>1 DEF JointIn
  <2> QED
    BY <1>5, <2>1, <2>2
<1>11. kernel'[r] \in KernelsOf(st) /\ kernel'[r] \in Joining /\ (kernel'[r] \in {"reduce", "wait"} => Programs \ left'[r] = {})
       /\ kernel'[r] # "mainloop" /\ "join" \in Joining
  BY <1>4, <1>5 DEF KernelsOf, Joining
<1>12. AddedBy(kernel'[r], Programs \ left'[r]) = AddedBy("join", Ran(r))
  BY <1>11 DEF AddedBy
<1>13. TilesDone(kernel'[r], Programs \ left'[r]) = TilesDone("join", Ran(r))
  BY <1>11 DEF TilesDone
<1>14. PicksOk(r, kernel'[r], Programs \ left'[r], picked[r]) <=> PicksOk(r, "join", Ran(r), picked[r])
  BY <1>13 DEF PicksOk
<1>15. RankLog(st, joined, r, kernel'[r], Programs \ left'[r], partial'[r], picked'[r], joint'[r], result'[r], summed'[r])
  BY <1>2, <1>3, <1>10, <1>11, <1>12, <1>13, <1>14 DEF RankLog
<1> QED
  BY <1>1, <1>2, <1>5, <1>7, <1>15, LogStep DEF LogInv

\* A program of the last kernel of several ranks.
LEMMA UpdateStep ==
  ASSUME LogInv, GradInv', NEW r \in Groups, NEW p, Update(r, p)
  PROVE  LogInv'
<1>1. PICK st \in Stages : StageOk(st) /\ \A s \in Groups : Rank(st, s)
  BY DEF LogInv
<1>2. IsWork(work) /\ GradInv /\ work' = work /\ reduced' = reduced /\ joined' = joined /\ partial' = partial
      /\ picked' = picked /\ joint' = joint
  BY DEF Update, LogInv, GradInv
<1>3. RankLog(st, joined, r, "update", Ran(r), partial[r], picked[r], joint[r], result[r], summed[r])
      /\ kernel[r] = "update"
  BY <1>1 DEF Update, Rank
<1>4. st = "late" /\ joined
  BY <1>1, <1>3 DEF RankLog, KernelsOf, StageOk, Stages, Joining, Afterwards, Opening, Summing
<1>5. /\ p \in Programs
      /\ \A s \in Groups : s # r => kernel'[s] = kernel[s] /\ left'[s] = left[s]
      /\ \/ kernel'[r] = "forward" /\ left'[r] = Programs /\ Ran(r) \cup {p} = Programs
         \/ kernel'[r] = "update" /\ Programs \ left'[r] = Ran(r) \cup {p}
  <2>1. Ends(r, p, "forward") /\ "forward" \in Kernels
    BY DEF Update, Kernels, Forwards
  <2> QED
    BY <1>2, <1>3, <2>1, EndsOne
<1>6. /\ result' = [result EXCEPT ![r] = [t \in Tokens |->
            IF t \in Portion(p) THEN [pick |-> picked[r][t], sum |-> joint[r][t]] ELSE @[t]]]
      /\ summed' = [summed EXCEPT ![r] = @ \cup (IF work.reduce THEN {<<p, t>> : t \in Portion(p)} ELSE {})]
  BY DEF Update, Reduce
<1>7. /\ DOMAIN result' = Groups /\ DOMAIN summed' = Groups
      /\ \A s \in Groups : s # r => result'[s] = result[s] /\ summed'[s] = summed[s]
      /\ \A t \in Tokens : result'[r][t] = IF t \in Portion(p) THEN [pick |-> picked[r][t], sum |-> joint[r][t]]
                                           ELSE result[r][t]
      /\ summed'[r] = summed[r] \cup (IF work.reduce THEN {<<p, t>> : t \in Portion(p)} ELSE {})
  BY <1>6 DEF LogInv
<1>8. \A t \in Tokens : picked[r][t] = {Picked(t)} /\ SumExact(t, joint[r][t]) /\ ResultOk(t, result[r][t])
  BY <1>3, <1>4 DEF RankLog, PicksWhole, JointIn
<1>9. ASSUME NEW t \in Tokens PROVE ResultOk(t, result'[r][t])
  <2>1. CASE t \in Portion(p)
    <3>1. result'[r][t] = [pick |-> picked[r][t], sum |-> joint[r][t]]
      BY <1>7, <2>1
    <3>2. result'[r][t].pick = picked[r][t] /\ result'[r][t].sum = joint[r][t]
      BY <3>1
    <3> QED
      BY <1>8, <3>2 DEF ResultOk
  <2>2. CASE t \notin Portion(p)
    BY <1>7, <1>8, <2>2
  <2> QED
    BY <2>1, <2>2
<1>10. summed'[r] = AddedBy(kernel'[r], Programs \ left'[r])
  <2>1. summed[r] = AddedBy("update", Ran(r)) /\ Ran(r) \in SUBSET Programs /\ "update" \in Summing
        /\ "forward" \in Afterwards
    BY <1>3 DEF RankLog, Ran, Summing, Afterwards, Kernels, Forwards, Opening, Joining
  <2>2. AddedBy(kernel'[r], Programs \ left'[r])
          = AddedBy("update", Ran(r)) \cup (IF work.reduce THEN {<<p, t>> : t \in Portion(p)} ELSE {})
    BY <1>5, <2>1, AddedGrows
  <2> QED
    BY <1>7, <2>1, <2>2
<1>11. kernel'[r] \in KernelsOf(st) /\ kernel'[r] # "mainloop" /\ kernel'[r] \notin {"reduce", "wait", "join"}
  BY <1>4, <1>5 DEF KernelsOf, Afterwards, Kernels, Forwards, Opening, Joining, Summing
<1>12. RankLog(st, joined, r, kernel'[r], Programs \ left'[r], partial'[r], picked'[r], joint'[r], result'[r], summed'[r])
  BY <1>2, <1>3, <1>4, <1>8, <1>9, <1>10, <1>11 DEF RankLog, TilesDone, JointIn
<1> QED
  BY <1>1, <1>2, <1>5, <1>7, <1>12, LogStep DEF LogInv

\* The backward pass leaves all of this alone.
LEMMA BackwardStep ==
  ASSUME LogInv, GradInv', NEW r \in Groups, work' = work, UNCHANGED forward,
         \A s \in Groups : s # r => kernel'[s] = kernel[s] /\ left'[s] = left[s],
         \/ kernel'[r] = kernel[r] /\ left'[r] = left[r]
         \/ kernel[r] \in Afterwards /\ kernel'[r] \in Afterwards
  PROVE  LogInv'
<1>1. PICK st \in Stages : StageOk(st) /\ \A s \in Groups : Rank(st, s)
  BY DEF LogInv
<1>2. reduced' = reduced /\ joined' = joined /\ partial' = partial /\ picked' = picked /\ joint' = joint
      /\ result' = result /\ summed' = summed
  BY DEF forward
<1>3. RankLog(st, joined, r, kernel'[r], Programs \ left'[r], partial[r], picked[r], joint[r], result[r], summed[r])
  <2>1. RankLog(st, joined, r, kernel[r], Ran(r), partial[r], picked[r], joint[r], result[r], summed[r])
    BY <1>1 DEF Rank
  <2>2. CASE kernel'[r] = kernel[r] /\ left'[r] = left[r]
    BY <2>1, <2>2 DEF Ran
  <2>3. CASE kernel[r] \in Afterwards /\ kernel'[r] \in Afterwards
    <3> DEFINE k == kernel[r]
               j == kernel'[r]
               P == Ran(r)
               Q == Programs \ left'[r]
    <3>1. k \notin Opening \cup Joining \cup Summing /\ j \notin Opening \cup Joining \cup Summing
      BY <2>3 DEF Afterwards
    <3>2. j \in KernelsOf(st) /\ j \notin {"reduce", "wait", "join", "update", "mainloop", "epilogue"} /\ k # "mainloop"
      BY <1>1, <2>1, <2>3, <3>1 DEF KernelsOf, RankLog, Stages, Opening, Joining, Summing
    <3> HIDE DEF k, j, P, Q
    <3>3. AddedBy(j, Q) = AddedBy(k, P) /\ TilesDone(j, Q) = TilesDone(k, P)
      BY <3>1, <3>2 DEF AddedBy, TilesDone
    <3>4. PicksOk(r, j, Q, picked[r]) <=> PicksOk(r, k, P, picked[r])
      BY <3>3 DEF PicksOk
    <3>5. JointIn(r, j, Q, joint[r])
      BY <3>2 DEF JointIn
    <3>6. RankLog(st, joined, r, k, P, partial[r], picked[r], joint[r], result[r], summed[r])
      BY <2>1 DEF k, P
    <3>7. RankLog(st, joined, r, j, Q, partial[r], picked[r], joint[r], result[r], summed[r])
      BY <3>2, <3>3, <3>4, <3>5, <3>6 DEF RankLog
    <3> QED
      BY <3>7 DEF j, Q
  <2> QED
    BY <2>2, <2>3
<1> QED
  BY <1>1, <1>2, <1>3, LogStep DEF LogInv

\* The maxima of all ranks are reduced, after which the same one is read on each.
LEMMA ReduceMaxStep ==
  ASSUME LogInv, GradInv', ReduceMax
  PROVE  LogInv'
<1>1. PICK st \in Stages : StageOk(st) /\ \A s \in Groups : Rank(st, s)
  BY DEF LogInv
<1>2. /\ IsWork(work) /\ work' = work /\ left' = left /\ joined' = joined /\ partial' = partial /\ picked' = picked
      /\ joint' = joint /\ result' = result /\ summed' = summed
      /\ \A r \in Groups : kernel[r] = "reduce"
      /\ kernel' = [r \in Groups |-> "join"]
      /\ reduced' = [r \in Groups |-> [x \in Tokens \X Splits |-> Max({partial[s][x].max : s \in Groups})]]
  BY DEF ReduceMax, LogInv, GradInv
<1>3. 0 \in Groups
  BY <1>2, WorkNumbers DEF Groups, Below0
<1>4. \A r \in Groups : RankLog(st, joined, r, "reduce", Ran(r), partial[r], picked[r], joint[r], result[r], summed[r])
  BY <1>1, <1>2 DEF Rank
<1>5. st = "before" /\ ~joined /\ Tp
  BY <1>1, <1>3, <1>4 DEF RankLog, KernelsOf, StageOk, Stages, Joining, Afterwards, Opening, Summing
<1>6. /\ \A r \in Groups : \A x \in Tokens \X Splits : SplitSummed(r, x[1], x[2], partial[r][x])
      /\ \A r \in Groups : Ran(r) = {} /\ DOMAIN partial[r] = Tokens \X Splits /\ summed[r] = {}
      /\ \A r \in Groups : PicksOk(r, "reduce", {}, picked[r])
      /\ \A r \in Groups, t \in Tokens : ResultOk(t, result[r][t])
  BY <1>4, <1>5 DEF RankLog, TilesDone, AddedBy, Opening
<1>7. ASSUME NEW x \in Tokens \X Splits
      PROVE  Max({partial[s][x].max : s \in Groups}) \in {LogitAt(y[1], x[1], y[2]) : y \in Groups \X OwnColumns}
  <2> DEFINE S == {partial[s][x].max : s \in Groups}
  <2>1. ASSUME NEW s \in Groups
        PROVE  \E y \in Groups \X OwnColumns : partial[s][x].max = LogitAt(y[1], x[1], y[2])
    <3>1. PICK c \in SplitOf(x[2]) : partial[s][x].max = LogitAt(s, x[1], c)
      BY <1>6 DEF SplitSummed
    <3> DEFINE y == <<s, c>>
    <3>2. y \in Groups \X OwnColumns /\ y[1] = s /\ y[2] = c
      BY DEF SplitOf
    <3> QED
      BY <3>1, <3>2
  <2>2. S \subseteq {LogitAt(y[1], x[1], y[2]) : y \in Groups \X OwnColumns}
    BY <2>1
  <2>3. \A y \in Groups \X OwnColumns : LogitAt(y[1], x[1], y[2]) \in Int /\ LogitAt(y[1], x[1], y[2]) < 500
    BY <1>2, Logits
  <2>4. S # {}
    BY <1>3
  <2> HIDE DEF S
  <2>5. S \in SUBSET Int /\ \A v \in S : v < 500
    BY <2>2, <2>3
  <2>6. Max(S) \in S
    BY <2>4, <2>5, Greatest
  <2>7. Max(S) \in {LogitAt(y[1], x[1], y[2]) : y \in Groups \X OwnColumns}
    BY <2>2, <2>6
  <2> QED
    BY <2>7 DEF S
<1> DEFINE M == [x \in Tokens \X Splits |-> Max({partial[s][x].max : s \in Groups})]
<1>8. \A r \in Groups : reduced'[r] = M
  BY <1>2
<1>9. \A x \in Tokens \X Splits : M[x] \in {LogitAt(y[1], x[1], y[2]) : y \in Groups \X OwnColumns}
  BY <1>7
<1> HIDE DEF M
<1>10. ASSUME NEW r \in Groups, NEW t \in Tokens, NEW n \in Splits
       PROVE  Red(r, t, n)' = M[<<t, n>>] /\ Red(r, t, n)' \in {LogitAt(y[1], t, y[2]) : y \in Groups \X OwnColumns}
  <2> DEFINE x == <<t, n>>
  <2>1. Red(r, t, n)' = M[<<t, n>>]
    BY <1>8, Zenon DEF Red
  <2>2. x \in Tokens \X Splits /\ x[1] = t
    OBVIOUS
  <2>3. M[x] \in {LogitAt(y[1], x[1], y[2]) : y \in Groups \X OwnColumns}
    BY <1>9, <2>2
  <2> QED
    BY <2>1, <2>2, <2>3
<1>11. MaximaOk'
  <2>1. ASSUME NEW r \in Groups, NEW t \in Tokens PROVE ReducedOk(r, t)'
    <3>1. \A n \in Splits : Red(r, t, n)' \in {LogitAt(y[1], t, y[2]) : y \in Groups \X OwnColumns}
      BY <1>10
    <3>2. Splits' = Splits /\ {LogitAt(y[1], t, y[2]) : y \in Groups \X OwnColumns}' = {LogitAt(y[1], t, y[2]) : y \in Groups \X OwnColumns}
      BY <1>2, CallStays
    <3> QED
      BY <3>1, <3>2 DEF ReducedOk
  <2>2. ASSUME NEW r \in Groups, NEW t \in Tokens, NEW n \in Splits PROVE Red(r, t, n)' = Red(0, t, n)'
    <3>1. Red(r, t, n)' = M[<<t, n>>]
      BY <1>10
    <3>2. Red(0, t, n)' = M[<<t, n>>]
      BY <1>3, <1>10
    <3> QED
      BY <3>1, <3>2
  <2> QED
    BY <1>2, <2>1, <2>2, CallStays DEF MaximaOk
<1>12. StageOk("joining")'
  BY <1>2, <1>5, <1>11, CallStays DEF StageOk
<1>13. \A r \in Groups : Ran(r)' = {} /\ kernel'[r] = "join"
  BY <1>2, <1>6, CallStays DEF Ran
<1>14. ASSUME NEW r \in Groups PROVE Rank("joining", r)'
  <2>1. /\ TilesDone("join", {}) = Tokens \X Splits /\ TilesDone("reduce", {}) = Tokens \X Splits
        /\ AddedBy("join", {}) = {}
    BY DEF TilesDone, AddedBy, Joining
  <2>2. PicksOk(r, "join", {}, picked[r])
    BY <1>6, <2>1 DEF PicksOk
  <2>3. /\ DOMAIN partial'[r] = (Tokens \X Splits)'
        /\ kernel'[r] \in KernelsOf("joining") /\ kernel'[r] \notin {"reduce", "wait"}
    BY <1>2, <1>6, <1>13, CallStays DEF KernelsOf, Joining
  <2>4. (\A x \in TilesDone(kernel[r], Ran(r)) : SplitSummed(r, x[1], x[2], partial[r][x]))'
    <3>1. \A x \in Tokens \X Splits : SplitSummed(r, x[1], x[2], partial'[r][x])
      BY <1>2, <1>6
    <3>2. TilesDone(kernel[r], Ran(r))' = Tokens \X Splits
      BY <1>2, <1>13, <2>1, CallStays
    <3>3. \A x \in Tokens \X Splits : SplitSummed(r, x[1], x[2], partial[r][x])'
      BY <1>2, <3>1, CallStays
    <3> QED
      BY <3>2, <3>3
  <2>5. (summed[r] = AddedBy(kernel[r], Ran(r)))'
    BY <1>2, <1>6, <1>13, <2>1, CallStays
  <2>6. ~joined' /\ PicksOk(r, kernel[r], Ran(r), picked[r])'
    BY <1>2, <1>5, <1>13, <2>2, CallStays
  <2>7. JointIn(r, kernel[r], Ran(r), joint[r])'
    BY <1>13 DEF JointIn
  <2>8. (\A t \in Tokens : ResultOk(t, result[r][t]))'
    BY <1>2, <1>6, CallStays
  <2> QED
    BY <2>3, <2>4, <2>5, <2>6, <2>7, <2>8 DEF Rank, RankLog, KernelsOf
<1>15. "joining" \in Stages /\ Groups' = Groups
  BY <1>2, CallStays DEF Stages
<1> QED
  BY <1>2, <1>12, <1>14, <1>15 DEF LogInv

\* The logits of the labels are reduced.
LEMMA ReduceLogprobsStep ==
  ASSUME LogInv, GradInv', ReduceLogprobs
  PROVE  LogInv'
<1>1. PICK st \in Stages : StageOk(st) /\ \A s \in Groups : Rank(st, s)
  BY DEF LogInv
<1>2. /\ IsWork(work) /\ work' = work /\ left' = left /\ kernel' = kernel /\ reduced' = reduced /\ partial' = partial
      /\ joint' = joint /\ result' = result /\ summed' = summed
      /\ reduced # <<>> /\ ~joined /\ joined' = TRUE
      /\ picked' = [r \in Groups |-> [t \in Tokens |-> UNION {picked[s][t] : s \in Groups}]]
  BY DEF ReduceLogprobs, LogInv, GradInv
<1>3. st = "joining" /\ Tp
  BY <1>1, <1>2 DEF StageOk, Stages
<1>4. \A r \in Groups : kernel[r] \in Joining /\ kernel[r] # "mainloop"
  BY <1>1, <1>3 DEF Rank, RankLog, KernelsOf, Joining
<1>5. ASSUME NEW t \in Tokens PROVE UNION {picked[s][t] : s \in Groups} = {Picked(t)}
  <2> DEFINE q == work.label[t] \div work.vocab
  <2>1. q \in Groups
    <3>1. 0 \in Groups
      BY <1>2, WorkNumbers DEF Groups, Below0
    <3> QED
      BY <1>2, <3>1, LabelOwner
  <2>2. picked[q][t] = {Picked(t)}
    BY <1>1, <1>2, <1>4, <2>1, AllSummed
  <2>3. \A s \in Groups : s # q => picked[s][t] = {}
    BY <1>1, <1>2, <1>3 DEF Rank, RankLog, PicksOk
  <2> HIDE DEF q
  <2> QED
    BY <2>1, <2>2, <2>3
<1>6. \A r \in Groups : PicksWhole(picked'[r])
  BY <1>2, <1>5 DEF PicksWhole
<1>7. \A r \in Groups : RankLog("joining", TRUE, r, kernel[r], Ran(r), partial[r], picked'[r], joint[r], result[r], summed[r])
  BY <1>1, <1>3, <1>6 DEF Rank, RankLog
<1>8. \A r \in Groups : Ran(r)' = Ran(r)
  BY <1>2, CallStays DEF Ran
<1>9. ASSUME NEW r \in Groups PROVE Rank("joining", r)'
  <2>1. RankLog("joining", joined, r, kernel[r], Ran(r), partial[r], picked[r], joint[r], result[r], summed[r])'
    BY <1>2, <1>7, <1>8, LogStays
  <2> QED
    BY <2>1 DEF Rank
<1>10. StageOk("joining")' /\ "joining" \in Stages /\ Groups' = Groups
  BY <1>1, <1>2, <1>3, LogStays DEF StageOk, Stages
<1>11. DOMAIN picked' = Groups
  BY <1>2
<1> QED
  BY <1>2, <1>9, <1>10, <1>11 DEF LogInv

\* The sums are reduced, after the logits of the labels.
LEMMA ReduceSumsStep ==
  ASSUME LogInv, GradInv', ReduceSums
  PROVE  LogInv'
<1>1. PICK st \in Stages : StageOk(st) /\ \A s \in Groups : Rank(st, s)
  BY DEF LogInv
<1>2. /\ IsWork(work) /\ work' = work /\ left' = left /\ reduced' = reduced /\ partial' = partial /\ picked' = picked
      /\ joined' = joined /\ result' = result /\ summed' = summed /\ joined
      /\ \A r \in Groups : kernel[r] = "wait"
      /\ joint' = [r \in Groups |-> [t \in Tokens |-> [joint[r][t] EXCEPT !.terms = UNION {joint[s][t].terms : s \in Groups}]]]
      /\ kernel' = [r \in Groups |-> "update"]
  BY DEF ReduceSums, LogInv, GradInv, LogprobsAreIn
<1>3. 0 \in Groups
  BY <1>2, WorkNumbers DEF Groups, Below0
<1>4. \A r \in Groups : RankLog(st, joined, r, "wait", Ran(r), partial[r], picked[r], joint[r], result[r], summed[r])
  BY <1>1, <1>2 DEF Rank
<1>5. st = "joining" /\ Tp /\ MaximaOk
  BY <1>1, <1>3, <1>4 DEF RankLog, KernelsOf, StageOk, Stages, Joining, Afterwards, Opening, Summing
<1>6. /\ \A r \in Groups : \A x \in Tokens \X Splits : SplitSummed(r, x[1], x[2], partial[r][x])
      /\ \A r \in Groups : Ran(r) = {} /\ DOMAIN partial[r] = Tokens \X Splits /\ summed[r] = {}
      /\ \A r \in Groups : PicksWhole(picked[r])
      /\ \A r \in Groups, t \in Tokens : ResultOk(t, result[r][t])
      /\ \A r \in Groups, t \in Tokens : JointOk(r, t, joint[r][t])
  BY <1>2, <1>4, <1>5 DEF RankLog, TilesDone, AddedBy, Joining, JointIn
<1>7. ASSUME NEW r \in Groups, NEW t \in Tokens PROVE SumExact(t, joint'[r][t])
  <2> DEFINE m == joint[r][t].max
             T == UNION {joint[s][t].terms : s \in Groups}
             x == joint'[r][t]
  <2>1. \A q \in Groups : ReducedOk(q, t) /\ \A n \in Splits : Red(q, t, n) = Red(r, t, n)
    BY <1>5 DEF MaximaOk
  <2>2. \A s \in Groups : joint[s][t].max = m /\ joint[s][t].terms = Relative(s, t, OwnColumns, m)
    <3> SUFFICES ASSUME NEW s \in Groups
                 PROVE  joint[s][t].max = m /\ joint[s][t].terms = Relative(s, t, OwnColumns, m)
      OBVIOUS
    <3>1. IsTop(r, t, m) /\ IsTop(s, t, joint[s][t].max)
      BY <1>6 DEF JointOk
    <3>2. m = joint[s][t].max
      BY <1>2, <2>1, <3>1, OneTop
    <3> QED
      BY <1>6, <3>2 DEF JointOk
  <2>3. m \in Int
    <3>1. IsTop(r, t, m) /\ ReducedOk(r, t)
      BY <1>6, <2>1 DEF JointOk
    <3> HIDE DEF m
    <3>2. m \in {0} \cup {Red(r, t, n) : n \in Splits}
      BY <3>1 DEF IsTop
    <3> QED
      BY <1>2, <3>1, <3>2, NearMax
  <2>4. x.max = m /\ x.terms = T
    <3>1. joint[r][t] = [max |-> m, terms |-> joint[r][t].terms]
      BY <1>6 DEF JointOk
    <3>2. x = [joint[r][t] EXCEPT !.terms = T]
      BY <1>2
    <3> HIDE DEF T, x, m
    <3> QED
      BY <3>1, <3>2
  <2>5. T = UNION {Relative(s, t, OwnColumns, m) : s \in Groups}
    BY <2>2
  <2> HIDE DEF T, x, m
  <2>6. SumExact(t, x)
    BY <1>2, <2>3, <2>4, <2>5, AllRanksExact
  <2> QED
    BY <2>6 DEF x
<1>8. \A r \in Groups : Ran(r)' = {} /\ kernel'[r] = "update"
  BY <1>2, <1>6, CallStays DEF Ran
<1>9. StageOk("late")' /\ "late" \in Stages /\ Groups' = Groups
  BY <1>2, <1>5, CallStays DEF StageOk, Stages
<1>10. ASSUME NEW r \in Groups
       PROVE  RankLog("late", joined, r, "update", {}, partial[r], picked[r], joint'[r], result[r], summed[r])
  <2>1. /\ TilesDone("update", {}) = Tokens \X Splits /\ AddedBy("update", {}) = {}
        /\ "update" \in KernelsOf("late")
    BY DEF TilesDone, AddedBy, Summing, KernelsOf
  <2>2. JointIn(r, "update", {}, joint'[r])
    BY <1>7 DEF JointIn
  <2> QED
    BY <1>2, <1>6, <2>1, <2>2 DEF RankLog
<1>11. ASSUME NEW r \in Groups PROVE Rank("late", r)'
  <2>1. RankLog("late", joined, r, kernel[r], Ran(r), partial[r], picked[r], joint[r], result[r], summed[r])'
    <3>1. RankLog("late", joined', r, kernel'[r], Ran(r)', partial'[r], picked'[r], joint'[r], result'[r], summed'[r])
      BY <1>2, <1>8, <1>10
    <3> QED
      BY <1>2, <3>1, LogStays
  <2> QED
    BY <2>1 DEF Rank
<1>12. DOMAIN joint' = Groups
  BY <1>2
<1> QED
  BY <1>2, <1>9, <1>11, <1>12 DEF LogInv

\* A call starts in LogInv.
LEMMA LogInit ==
  ASSUME NEW w \in EntropyWorks, EntropyInit(w)
  PROVE  LogInv
<1>1. GradInv /\ IsWork(work)
  BY GradInit DEF GradInv
<1>2. /\ kernel = [r \in Groups |-> "mainloop"] /\ left = [r \in Groups |-> Programs]
      /\ partial = [r \in Groups |-> [x \in Tokens \X Splits |-> [max |-> 0, terms |-> Unset]]]
      /\ reduced = <<>> /\ joined = FALSE
      /\ picked = [r \in Groups |-> [t \in Tokens |-> IF Tp \/ w.reduce THEN {} ELSE Unset]]
      /\ joint = [r \in Groups |-> [t \in Tokens |-> [max |-> 0, terms |-> Unset]]]
      /\ result = [r \in Groups |-> [t \in Tokens |-> <<>>]] /\ summed = [r \in Groups |-> {}]
  BY DEF EntropyInit, Programs
<1> DEFINE st == IF Tp THEN "before" ELSE "one"
<1>3. st \in Stages /\ StageOk(st)
  BY <1>2 DEF Stages, StageOk
<1>4. "mainloop" \in KernelsOf(st) /\ AddedBy("mainloop", {}) = {} /\ TilesDone("mainloop", {}) = {}
  BY DEF KernelsOf, AddedBy, TilesDone, TilesOf, Opening
<1>5. ASSUME NEW r \in Groups PROVE Rank(st, r)
  <2>1. kernel[r] = "mainloop" /\ Ran(r) = {}
    BY <1>2 DEF Ran
  <2>2. /\ DOMAIN partial[r] = Tokens \X Splits /\ summed[r] = {} /\ \A t \in Tokens : result[r][t] = <<>>
        /\ Tp => \A t \in Tokens : picked[r][t] = {}
    BY <1>2
  <2>3. PicksOk(r, "mainloop", {}, picked[r])
    BY <1>4, <2>2 DEF PicksOk
  <2>4. JointIn(r, "mainloop", {}, joint[r])
    BY DEF JointIn
  <2> QED
    BY <1>2, <1>4, <2>1, <2>2, <2>3, <2>4 DEF Rank, RankLog, ResultOk
<1>6. DOMAIN partial = Groups /\ DOMAIN picked = Groups /\ DOMAIN joint = Groups /\ DOMAIN result = Groups
      /\ DOMAIN summed = Groups
  BY <1>2
<1> QED
  BY <1>1, <1>3, <1>5, <1>6 DEF LogInv

\* Every step of the forward and backward pass keeps LogInv.
LEMMA LogNext ==
  ASSUME LogInv, EntropyNext
  PROVE  LogInv'
<1>1. GradInv /\ GradInv'
  BY GradNext DEF LogInv
<1>2. ASSUME NEW r \in Groups, NEW p \in Below0(work.cores),
             Mainloop(r, p) \/ Epilogue(r, p) \/ EpilogueTp(r, p) \/ Update(r, p)
      PROVE  LogInv'
  BY <1>1, <1>2, MainloopStep, EpilogueStep, EpilogueTpStep, UpdateStep
<1>3. ASSUME NEW r \in Groups, NEW p \in Below0(work.cores), NEW next \in Afterwards, NEW k \in Afterwards,
             kernel[r] = k, Ends(r, p, next), work' = work, UNCHANGED forward
      PROVE  LogInv'
  <2>1. next \in Kernels
    BY DEF Afterwards
  <2>2. /\ \A s \in Groups : s # r => kernel'[s] = kernel[s] /\ left'[s] = left[s]
        /\ kernel'[r] = next \/ kernel'[r] = kernel[r]
    BY <1>1, <1>3, <2>1, EndsOne
  <2> QED
    BY <1>1, <1>3, <2>2, BackwardStep
<1>4. {"forward", "fused", "separate", "products", "split", "split_products", "d_hidden", "d_weight", "done"} \subseteq Afterwards
  BY DEF Afterwards, Kernels, Forwards, Opening, Joining, Summing
<1>5. ASSUME NEW r \in Groups, NEW p \in Below0(work.cores),
             Fused(r, p) \/ Separate(r, p) \/ SplitLogits(r, p) \/ HiddenKernel(r, p) \/ WeightKernel(r, p)
      PROVE  LogInv'
  <2>1. CASE Fused(r, p)
    BY <1>3, <1>4, <2>1 DEF Fused
  <2>2. CASE Separate(r, p)
    BY <1>3, <1>4, <2>2 DEF Separate
  <2>3. CASE SplitLogits(r, p)
    BY <1>3, <1>4, <2>3 DEF SplitLogits
  <2>4. CASE HiddenKernel(r, p)
    BY <1>3, <1>4, <2>4 DEF HiddenKernel
  <2>5. CASE WeightKernel(r, p)
    BY <1>3, <1>4, <2>5 DEF WeightKernel
  <2> QED
    BY <1>5, <2>1, <2>2, <2>3, <2>4, <2>5
<1>6. ASSUME NEW r \in Groups, NEW next \in Afterwards, NEW k \in Afterwards, kernel[r] = k,
             kernel' = [kernel EXCEPT ![r] = next], left' = left, work' = work, UNCHANGED forward
      PROVE  LogInv'
  <2>1. kernel'[r] = next /\ \A s \in Groups : s # r => kernel'[s] = kernel[s] /\ left'[s] = left[s]
    BY <1>1, <1>6 DEF GradInv
  <2> QED
    BY <1>1, <1>6, <2>1, BackwardStep
<1>7. ASSUME NEW r \in Groups, StartBackward(r) \/ Products(r) \/ SplitProducts(r) PROVE LogInv'
  <2>1. CASE StartBackward(r)
    <3> DEFINE next == IF work.mode = "apart" THEN "d_hidden" ELSE work.mode
    <3>1. next \in Afterwards
      BY <1>1, <1>4, WorkNumbers DEF GradInv
    <3>2. kernel' = [kernel EXCEPT ![r] = next] /\ kernel[r] = "forward" /\ left' = left /\ work' = work /\ UNCHANGED forward
      BY <2>1 DEF StartBackward
    <3> HIDE DEF next
    <3> QED
      BY <1>4, <1>6, <3>1, <3>2
  <2>2. CASE Products(r)
    BY <1>4, <1>6, <2>2 DEF Products
  <2>3. CASE SplitProducts(r)
    <3> DEFINE next == IF split[r] + 1 < BackSplits THEN "split" ELSE "done"
    <3>1. next \in Afterwards
      BY <1>4
    <3>2. kernel' = [kernel EXCEPT ![r] = next] /\ kernel[r] = "split_products" /\ left' = left /\ work' = work
          /\ UNCHANGED forward
      BY <2>3 DEF SplitProducts
    <3> HIDE DEF next
    <3> QED
      BY <1>4, <1>6, <3>1, <3>2
  <2> QED
    BY <1>7, <2>1, <2>2, <2>3
<1>8. ASSUME ReduceMax \/ ReduceLogprobs \/ ReduceSums PROVE LogInv'
  BY <1>1, <1>8, ReduceMaxStep, ReduceLogprobsStep, ReduceSumsStep
<1> QED
  BY <1>2, <1>5, <1>7, <1>8 DEF EntropyNext

\* A step that changes nothing.
LEMMA LogStutter ==
  ASSUME LogInv, UNCHANGED kernelvars
  PROVE  LogInv'
<1>1. /\ work' = work /\ kernel' = kernel /\ left' = left /\ UNCHANGED forward /\ UNCHANGED backward
      /\ GradInv /\ IsWork(work)
  BY DEF kernelvars, forward, backward, LogInv, GradInv
<1>2. GradInv'
  BY <1>1, GradStutter
<1>3. 0 \in Groups
  BY <1>1, WorkNumbers DEF Groups, Below0
<1> QED
  BY <1>1, <1>2, <1>3, BackwardStep

\* Each token is added once.
LEMMA AddedOnce ==
  ASSUME IsWork(work), NEW t \in Tokens, NEW S, S = AddedBy("done", {})
  PROVE  Cardinality({x \in S : x[2] = t}) = IF work.reduce THEN 1 ELSE 0
<1>1. S = IF ~work.reduce THEN {} ELSE {x \in Programs \X Tokens : x[2] \in Portion(x[1])}
  BY DEF AddedBy, Opening, Joining, Summing
<1>2. CASE ~work.reduce
  <2>1. {x \in S : x[2] = t} = {}
    BY <1>1, <1>2
  <2> QED
    BY <1>2, <2>1, FS_EmptySet
<1>3. CASE work.reduce
  <2>1. PICK q \in Programs : \A p \in Programs : t \in Portion(p) <=> p = q
    BY OnePortion
  <2> DEFINE A == {x \in S : x[2] = t}
             y == <<q, t>>
  <2>2. ASSUME NEW x \in A PROVE x = y
    <3>1. x \in Programs \X Tokens /\ x[2] \in Portion(x[1]) /\ x[2] = t
      BY <1>1, <1>3
    <3>2. x[1] = q
      BY <2>1, <3>1
    <3> QED
      BY <3>1, <3>2
  <2>3. y \in A
    <3>1. y \in Programs \X Tokens /\ y[1] = q /\ y[2] = t
      OBVIOUS
    <3> QED
      BY <1>1, <1>3, <2>1, <3>1
  <2> HIDE DEF y, A
  <2>4. A = {y}
    BY <2>2, <2>3
  <2>5. Cardinality(A) = 1
    BY <2>4, FS_Singleton
  <2> QED
    BY <1>3, <2>5 DEF A
<1> QED
  BY <1>2, <1>3

\* For tensors and tunings of any size, on any number of ranks, and whatever the order of
\* the programs and of the two streams, log probability and entropy are of the whole vocabulary.
THEOREM LogprobsExact == EntropySpec => []LogprobsAreExact
<1>1. (\E w \in EntropyWorks : EntropyInit(w)) => LogInv
  BY LogInit
<1>2. LogInv /\ [EntropyNext]_kernelvars => LogInv'
  BY LogNext, LogStutter
<1>3. LogInv => LogprobsAreExact
  <2> SUFFICES ASSUME LogInv, NEW r \in Groups
               PROVE  /\ \A t \in Tokens : result[r][t] # <<>> =>
                           /\ Scaled(result[r][t].sum.terms, result[r][t].sum.max)
                                = {<<c, work.logit[t][c]>> : c \in DOMAIN work.logit[t]}
                           /\ result[r][t].pick = {<<work.label[t] \div work.vocab, work.logit[t][work.label[t]]>>}
                      /\ kernel[r] = "done" =>
                           \A t \in Tokens : Cardinality({x \in summed[r] : x[2] = t}) = IF work.reduce THEN 1 ELSE 0
    BY DEF LogprobsAreExact
  <2>1. PICK st \in Stages : Rank(st, r)
    BY DEF LogInv
  <2>2. IsWork(work)
    BY DEF LogInv, GradInv
  <2>3. \A t \in Tokens : result[r][t] # <<>> => SumExact(t, result[r][t].sum) /\ result[r][t].pick = {Picked(t)}
    BY <2>1 DEF Rank, RankLog, ResultOk
  <2>4. ASSUME kernel[r] = "done", NEW t \in Tokens
        PROVE  Cardinality({x \in summed[r] : x[2] = t}) = IF work.reduce THEN 1 ELSE 0
    <3>1. summed[r] = AddedBy("done", Ran(r))
      BY <2>1, <2>4 DEF Rank, RankLog
    <3>2. AddedBy("done", Ran(r)) = AddedBy("done", {})
      BY DEF AddedBy, Summing
    <3> QED
      BY <2>2, <3>1, <3>2, AddedOnce
  <2> QED
    BY <2>3, <2>4 DEF SumExact, Picked
<1> QED
  BY <1>1, <1>2, <1>3, PTL DEF EntropySpec
-----------------------------------------------------------------------------
(* Counting places, and sums.                                               *)

\* A set of the first numbers, which no number below one of its members is missing from.
LEMMA FirstOnes ==
  ASSUME NEW n \in Nat, NEW A \in SUBSET UpTo(n), \A i \in UpTo(n), j \in A : i < j => i \in A
  PROVE  /\ IsFiniteSet(A) /\ Cardinality(A) \in 0 .. n
         /\ \A i \in UpTo(n) : i \in A <=> i < Cardinality(A)
<1>1. PICK k \in 0 .. n : A = 0 .. k - 1
  <2>1. CASE A = UpTo(n)
    BY <2>1 DEF UpTo
  <2>2. CASE A # UpTo(n)
    <3>1. UpTo(n) \ A \in SUBSET Nat /\ UpTo(n) \ A # {}
      <4>1. UpTo(n) \in SUBSET Nat
        BY DEF UpTo
      <4>2. UpTo(n) \ A # {}
        BY <2>2
      <4> QED
        BY <4>1, <4>2
    <3>2. PICK k \in UpTo(n) \ A : \A m \in UpTo(n) \ A : k <= m
      BY <3>1, LeastNat
    <3>3. k \in 0 .. n
      BY DEF UpTo
    <3>4. ASSUME NEW i \in UpTo(n) PROVE i \in A <=> i \in 0 .. k - 1
      <4>1. i < k => i \in A
        BY <3>2 DEF UpTo
      <4>2. i = k => i \notin A
        BY <3>2
      <4>3. k < i => i \notin A
        BY <3>2
      <4> QED
        BY <4>1, <4>2, <4>3 DEF UpTo
    <3>5. \A i \in 0 .. k - 1 : i \in UpTo(n)
      BY <3>3 DEF UpTo
    <3> QED
      BY <3>3, <3>4, <3>5
  <2> QED
    BY <2>1, <2>2
<1>2. IsFiniteSet(A) /\ Cardinality(A) = k
  BY <1>1, FS_Interval
<1> QED
  BY <1>1, <1>2 DEF UpTo

\* As many numbers as lie between two.
LEMMA Between ==
  ASSUME NEW a \in Nat, NEW b \in Nat, a <= b
  PROVE  IsFiniteSet(a .. b - 1) /\ Cardinality(a .. b - 1) = b - a
<1>1. b - 1 \in Int /\ (a > b - 1 <=> a = b) /\ (b - 1) - a + 1 = b - a /\ (a = b => b - a = 0)
  OBVIOUS
<1>2. IsFiniteSet(a .. b - 1) /\ Cardinality(a .. b - 1) = IF a > b - 1 THEN 0 ELSE (b - 1) - a + 1
  BY <1>1, FS_Interval
<1> QED
  BY <1>1, <1>2

IsSum(f, n, g) == g = [i \in 0 .. n |-> IF i = 0 THEN 0 ELSE g[i - 1] + f[i - 1]]
\* A sum is defined for any number of values.
LEMMA SumExists ==
  ASSUME NEW f, NEW k \in Nat
  PROVE  \E g : IsSum(f, k, g)
<1> DEFINE S == {i \in Nat : \E g : IsSum(f, i, g)}
<1>1. 0 \in S
  <2> DEFINE g == [i \in {0} |-> 0]
  <2>1. g = [i \in 0 .. 0 |-> IF i = 0 THEN 0 ELSE g[i - 1] + f[i - 1]]
    OBVIOUS
  <2> QED
    BY <2>1 DEF IsSum
<1>2. ASSUME NEW i \in S PROVE i + 1 \in S
  <2>1. PICK g : IsSum(f, i, g)
    OBVIOUS
  <2> DEFINE h == [b \in 0 .. i + 1 |-> IF b \in 0 .. i THEN g[b] ELSE g[i] + f[i]]
             u == [b \in 0 .. i + 1 |-> IF b = 0 THEN 0 ELSE h[b - 1] + f[b - 1]]
  <2>2. \A b \in 0 .. i : g[b] = IF b = 0 THEN 0 ELSE g[b - 1] + f[b - 1]
    BY <2>1 DEF IsSum
  <2>3. ASSUME NEW b \in 0 .. i + 1
        PROVE  h[b] = IF b = 0 THEN 0 ELSE h[b - 1] + f[b - 1]
    <3>1. CASE b = 0
      BY <2>2, <3>1
    <3>2. CASE b \in 1 .. i
      <4>1. b \in 0 .. i /\ b - 1 \in 0 .. i /\ b # 0
        BY <3>2
      <4>2. h[b] = g[b] /\ h[b - 1] = g[b - 1]
        BY <4>1
      <4> QED
        BY <2>2, <4>1, <4>2
    <3>3. CASE b = i + 1
      <4>1. b \notin 0 .. i /\ b - 1 = i /\ i \in 0 .. i /\ b # 0 /\ i \in 0 .. i + 1
        BY <3>3
      <4>2. h[b] = g[i] + f[i] /\ h[i] = g[i]
        BY <4>1
      <4> QED
        BY <4>1, <4>2
    <3> QED
      BY <3>1, <3>2, <3>3
  <2>4. \A b \in 0 .. i + 1 : h[b] = u[b]
    BY <2>3
  <2>5. h = u
    <3> DEFINE e(b) == IF b \in 0 .. i THEN g[b] ELSE g[i] + f[i]
               d(b) == IF b = 0 THEN 0 ELSE h[b - 1] + f[b - 1]
    <3>1. h = [b \in 0 .. i + 1 |-> e(b)] /\ u = [b \in 0 .. i + 1 |-> d(b)]
      OBVIOUS
    <3>2. \A b \in 0 .. i + 1 : e(b) = d(b)
      BY <2>4
    <3> HIDE DEF e, d, h, u
    <3> QED
      BY <3>1, <3>2
  <2>6. IsSum(f, i + 1, h)
    BY <2>5 DEF IsSum
  <2> QED
    BY <2>6
<1>3. S = Nat
  BY <1>1, <1>2, NatSets
<1> QED
  BY <1>3

\* A function that grows by f[i] from i to the next is f's sum.
LEMMA SumIs ==
  ASSUME NEW f, NEW n \in Nat, NEW F, F[0] = 0, \A i \in UpTo(n) : F[i + 1] = F[i] + f[i], NEW k \in 0 .. n
  PROVE  SumTo(f, k) = F[k]
<1> DEFINE g == CHOOSE g : IsSum(f, k, g)
<1>1. SumTo(f, k) = g[k]
  BY DEF SumTo, IsSum
<1>2. IsSum(f, k, g)
  BY SumExists
<1> HIDE DEF g
<1>3. \A i \in 0 .. k : g[i] = IF i = 0 THEN 0 ELSE g[i - 1] + f[i - 1]
  BY <1>2 DEF IsSum
<1> DEFINE S == {i \in Nat : i <= k => g[i] = F[i]}
<1>4. 0 \in S
  BY <1>3
<1>5. ASSUME NEW i \in S PROVE i + 1 \in S
  <2>1. SUFFICES ASSUME i + 1 <= k PROVE g[i + 1] = F[i + 1]
    OBVIOUS
  <2>2. g[i] = F[i] /\ i \in UpTo(n) /\ i + 1 \in 0 .. k /\ i + 1 # 0 /\ (i + 1) - 1 = i
    BY <2>1 DEF UpTo
  <2>3. g[i + 1] = g[i] + f[i]
    BY <1>3, <2>2
  <2> QED
    BY <2>2, <2>3
<1>6. S = Nat
  BY <1>4, <1>5, NatSets
<1> QED
  BY <1>1, <1>6

\* Sums, one value after the other.
LEMMA SumStep ==
  ASSUME NEW f, NEW n \in Nat
  PROVE  SumTo(f, 0) = 0 /\ SumTo(f, n + 1) = SumTo(f, n) + f[n]
<1>1. PICK g : IsSum(f, n + 1, g)
  BY SumExists
<1>2. \A i \in 0 .. n + 1 : g[i] = IF i = 0 THEN 0 ELSE g[i - 1] + f[i - 1]
  BY <1>1 DEF IsSum
<1>3. g[0] = 0
  BY <1>2
<1>4. \A i \in UpTo(n + 1) : g[i + 1] = g[i] + f[i]
  <2> SUFFICES ASSUME NEW i \in UpTo(n + 1) PROVE g[i + 1] = g[i] + f[i]
    OBVIOUS
  <2>1. i + 1 \in 0 .. n + 1 /\ i + 1 # 0 /\ (i + 1) - 1 = i
    BY DEF UpTo
  <2> QED
    BY <1>2, <2>1
<1>5. \A k \in 0 .. n + 1 : SumTo(f, k) = g[k]
  BY <1>3, <1>4, SumIs
<1>6. n \in UpTo(n + 1) /\ 0 \in 0 .. n + 1 /\ n \in 0 .. n + 1 /\ n + 1 \in 0 .. n + 1
  BY DEF UpTo
<1> QED
  BY <1>3, <1>4, <1>5, <1>6

\* A sum of numbers is a number, and grows.
LEMMA SumsGrow ==
  ASSUME NEW f, NEW n \in Nat, \A i \in UpTo(n) : f[i] \in Nat
  PROVE  /\ \A k \in 0 .. n : SumTo(f, k) \in Nat
         /\ \A j, k \in 0 .. n : j <= k => SumTo(f, j) <= SumTo(f, k)
<1> DEFINE S == {k \in Nat : k <= n => SumTo(f, k) \in Nat /\ \A j \in 0 .. k : SumTo(f, j) <= SumTo(f, k)}
<1>1. 0 \in S
  BY SumStep
<1>2. ASSUME NEW k \in S PROVE k + 1 \in S
  <2>1. SUFFICES ASSUME k + 1 <= n
                 PROVE  SumTo(f, k + 1) \in Nat /\ \A j \in 0 .. k + 1 : SumTo(f, j) <= SumTo(f, k + 1)
    OBVIOUS
  <2>2. SumTo(f, k) \in Nat /\ (\A j \in 0 .. k : SumTo(f, j) <= SumTo(f, k)) /\ f[k] \in Nat
    <3>1. k \in UpTo(n) /\ k <= n
      BY <2>1 DEF UpTo
    <3> QED
      BY <3>1
  <2>3. SumTo(f, k + 1) = SumTo(f, k) + f[k]
    BY SumStep
  <2>4. SumTo(f, k + 1) \in Nat /\ SumTo(f, k) <= SumTo(f, k + 1)
    BY <2>2, <2>3
  <2>5. ASSUME NEW j \in 0 .. k + 1 PROVE SumTo(f, j) <= SumTo(f, k + 1)
    <3>1. CASE j = k + 1
      BY <2>4, <3>1
    <3>2. CASE j \in 0 .. k
      <4>1. SumTo(f, j) <= SumTo(f, k) /\ SumTo(f, j) \in Int
        <5>1. j <= n => j \in 0 .. n
          OBVIOUS
        <5> DEFINE T == {i \in Nat : i <= k => SumTo(f, i) \in Nat}
        <5>2. 0 \in T
          BY SumStep
        <5>3. ASSUME NEW i \in T PROVE i + 1 \in T
          <6>1. SumTo(f, i + 1) = SumTo(f, i) + f[i]
            BY SumStep
          <6>2. i + 1 <= k => i \in UpTo(n) /\ i <= k
            BY <2>1 DEF UpTo
          <6> QED
            BY <6>1, <6>2
        <5>4. T = Nat
          BY <5>2, <5>3, NatSets
        <5> QED
          BY <2>2, <3>2, <5>4
      <4> QED
        BY <2>2, <2>4, <4>1
    <3> QED
      BY <3>1, <3>2
  <2> QED
    BY <2>4, <2>5
<1>3. S = Nat
  BY <1>1, <1>2, NatSets
<1> QED
  BY <1>3

\* The indices whose keys come before that of i.
Earlier(key, i) == {j \in DOMAIN key : key[j] < key[i] \/ (key[j] = key[i] /\ j < i)}
\* A stable sort lists every index once, in the order of the keys.
LEMMA Sorts ==
  ASSUME NEW n \in Nat, NEW key \in [UpTo(n) -> Int]
  PROVE  /\ Argsort(key) \in [UpTo(n) -> UpTo(n)]
         /\ \A p, q \in UpTo(n) : p < q => key[Argsort(key)[p]] <= key[Argsort(key)[q]]
         /\ \A p, q \in UpTo(n) : Argsort(key)[p] = Argsort(key)[q] => p = q
         /\ \A i \in UpTo(n) : \E p \in UpTo(n) : Argsort(key)[p] = i
         /\ \A p \in UpTo(n) : Cardinality(Earlier(key, Argsort(key)[p])) = p
<1> DEFINE D == UpTo(n)
           Rel == {x \in D \X D : key[x[1]] < key[x[2]] \/ (key[x[1]] = key[x[2]] /\ x[1] < x[2])}
           place == [i \in D |-> Cardinality(Earlier(key, i))]
           A == [p \in D |-> CHOOSE i \in D : place[i] = p]
<1>1. Argsort(key) = A
  <2>1. DOMAIN key = D
    OBVIOUS
  <2> QED
    BY <2>1 DEF Argsort, Earlier
<1>2. IsFiniteSet(D) /\ Cardinality(D) = n
  <2>1. 0 <= n /\ n - 0 = n
    OBVIOUS
  <2> QED
    BY <2>1, Between DEF UpTo
<1>3. D \in SUBSET Int
  BY DEF UpTo
<1>4. \A i, j \in D : <<i, j>> \in Rel <=> key[i] < key[j] \/ (key[i] = key[j] /\ i < j)
  OBVIOUS
<1>5. \A i \in D : key[i] \in Int
  OBVIOUS
<1>6. \A i \in D : Lower(Rel, D, i) = Earlier(key, i)
  <2> HIDE DEF Rel
  <2> QED
    BY <1>4 DEF Lower, Earlier
<1>7. Orders(Rel, D)
  <2> HIDE DEF Rel, D
  <2>1. \A x, y \in D : x # y => <<x, y>> \in Rel \/ <<y, x>> \in Rel
    BY <1>3, <1>4, <1>5
  <2>2. \A x \in D : ~ <<x, x>> \in Rel
    BY <1>3, <1>4, <1>5
  <2>3. \A x, y, z \in D : <<x, y>> \in Rel /\ <<y, z>> \in Rel => <<x, z>> \in Rel
    BY <1>3, <1>4, <1>5
  <2> QED
    BY <2>1, <2>2, <2>3 DEF Orders
<1> HIDE DEF Rel
<1>8. /\ \A i \in D : place[i] \in D
      /\ \A i, j \in D : <<i, j>> \in Rel => place[i] < place[j]
      /\ \A k \in D : \E i \in D : place[i] = k
  <2>1. /\ \A x \in D : Cardinality(Lower(Rel, D, x)) \in 0 .. Cardinality(D) - 1
        /\ \A x, y \in D : <<x, y>> \in Rel => Cardinality(Lower(Rel, D, x)) < Cardinality(Lower(Rel, D, y))
        /\ \A k \in 0 .. Cardinality(D) - 1 : \E x \in D : Cardinality(Lower(Rel, D, x)) = k
    <3> HIDE DEF D
    <3> QED
      BY <1>2, <1>7, Places
  <2>2. 0 .. Cardinality(D) - 1 = D
    BY <1>2 DEF UpTo
  <2>3. \A x \in D : place[x] = Cardinality(Lower(Rel, D, x))
    BY <1>6
  <2> HIDE DEF D, place
  <2> QED
    BY <2>1, <2>2, <2>3
<1>9. \A p \in D : A[p] \in D /\ place[A[p]] = p
  <2> HIDE DEF place, D
  <2> QED
    BY <1>8
<1>10. \A i \in D : place[i] = Cardinality(Earlier(key, i))
  OBVIOUS
<1>11. A \in [D -> D]
  <2> HIDE DEF D, place
  <2> QED
    BY <1>9
<1> HIDE DEF A, place
<1>12. ASSUME NEW p \in D, NEW q \in D, p < q PROVE key[A[p]] <= key[A[q]]
  <2>1. ~ <<A[q], A[p]>> \in Rel
    <3>1. <<A[q], A[p]>> \in Rel => q < p
      BY <1>8, <1>9
    <3> QED
      BY <1>3, <1>12, <3>1
  <2>2. A[p] \in D /\ A[q] \in D
    BY <1>9
  <2> HIDE DEF D
  <2> QED
    BY <1>4, <1>5, <2>1, <2>2
<1>13. ASSUME NEW i \in D PROVE \E p \in D : A[p] = i
  <2>1. place[i] \in D /\ A[place[i]] \in D /\ place[A[place[i]]] = place[i]
    BY <1>8, <1>9
  <2>2. A[place[i]] = i
    <3>1. SUFFICES ASSUME A[place[i]] # i PROVE FALSE
      OBVIOUS
    <3>2. <<i, A[place[i]]>> \in Rel \/ <<A[place[i]], i>> \in Rel
      BY <1>7, <2>1, <3>1 DEF Orders
    <3>3. place[i] < place[i]
      BY <1>8, <2>1, <3>2
    <3> QED
      BY <1>3, <2>1, <3>3
  <2> QED
    BY <2>1, <2>2
<1>14. ASSUME NEW p \in D, NEW q \in D, A[p] = A[q] PROVE p = q
  BY <1>9, <1>14
<1>15. \A p \in D : Cardinality(Earlier(key, A[p])) = p
  BY <1>9, <1>10
<1> QED
  BY <1>1, <1>11, <1>12, <1>13, <1>14, <1>15

\* The sort of the places that a list gives to its members is the way back.
LEMMA SortsBack ==
  ASSUME NEW n \in Nat, NEW f \in [UpTo(n) -> UpTo(n)],
         \A p, q \in UpTo(n) : f[p] = f[q] => p = q,
         \A i \in UpTo(n) : \E p \in UpTo(n) : f[p] = i
  PROVE  Argsort(f) \in [UpTo(n) -> UpTo(n)] /\ \A p \in UpTo(n) : f[Argsort(f)[p]] = p
<1>1. f \in [UpTo(n) -> Int] /\ \A i \in UpTo(n) : f[i] \in UpTo(n) /\ f[i] \in Nat
  <2>1. UpTo(n) \in SUBSET Int /\ UpTo(n) \in SUBSET Nat
    BY DEF UpTo
  <2> QED
    BY <2>1
<1>2. /\ Argsort(f) \in [UpTo(n) -> UpTo(n)]
      /\ \A p \in UpTo(n) : Cardinality(Earlier(f, Argsort(f)[p])) = p
  BY <1>1, Sorts
<1>3. ASSUME NEW i \in UpTo(n) PROVE Cardinality(Earlier(f, i)) = f[i]
  <2> DEFINE E == Earlier(f, i)
             h == [x \in 0 .. f[i] - 1 |-> CHOOSE j \in UpTo(n) : f[j] = x]
  <2>1. E = {j \in UpTo(n) : f[j] < f[i]}
    <3>1. \A j \in UpTo(n) : f[j] = f[i] /\ j < i => FALSE
      BY DEF UpTo
    <3> QED
      BY <3>1 DEF Earlier
  <2>2. \A x \in 0 .. f[i] - 1 : x \in UpTo(n) /\ x < f[i]
    BY <1>1 DEF UpTo
  <2>3. \A x \in 0 .. f[i] - 1 : h[x] \in UpTo(n) /\ f[h[x]] = x
    BY <2>2
  <2> HIDE DEF h
  <2>4. \A x \in 0 .. f[i] - 1 : h[x] \in E
    <3> HIDE DEF E
    <3> QED
      BY <2>1, <2>2, <2>3
  <2>5. \A j \in E : f[j] \in 0 .. f[i] - 1 /\ h[f[j]] = j
    <3> SUFFICES ASSUME NEW j \in E PROVE f[j] \in 0 .. f[i] - 1 /\ h[f[j]] = j
      OBVIOUS
    <3>1. j \in UpTo(n) /\ f[j] < f[i]
      BY <2>1
    <3>2. f[j] \in 0 .. f[i] - 1
      BY <1>1, <3>1
    <3> QED
      BY <2>3, <3>1, <3>2
  <2>6. h \in Bijection(0 .. f[i] - 1, E)
    <3> HIDE DEF E
    <3>1. h \in [0 .. f[i] - 1 -> E]
      BY <2>4 DEF h
    <3>2. \A x, y \in 0 .. f[i] - 1 : h[x] = h[y] => x = y
      BY <2>3
    <3>3. \A j \in E : \E x \in 0 .. f[i] - 1 : h[x] = j
      BY <2>5
    <3> QED
      BY <3>1, <3>2, <3>3 DEF Bijection, Injection, IsInjective, Surjection
  <2>7. IsFiniteSet(0 .. f[i] - 1) /\ Cardinality(0 .. f[i] - 1) = f[i]
    <3>1. 0 <= f[i] /\ f[i] - 0 = f[i]
      BY <1>1
    <3> QED
      BY <1>1, <3>1, Between
  <2> HIDE DEF E
  <2> QED
    BY <2>6, <2>7, FS_Bijection DEF ExistsBijection, E
<1>4. ASSUME NEW p \in UpTo(n) PROVE f[Argsort(f)[p]] = p
  BY <1>2, <1>3
<1> QED
  BY <1>2, <1>4

-----------------------------------------------------------------------------
(* What a rank keeps for its peers.                                         *)

\* The sizes of a job.
IsJob(j) == j \in [ranks : Nat \ {0}, e : Nat \ {0}, n : Nat, num : Nat, den : Nat \ {0}, align : Nat \ {0}]

\* The sizes are numbers.
LEMMA JobSizes ==
  ASSUME IsJob(job)
  PROVE  /\ job.ranks \in Nat \ {0} /\ job.e \in Nat \ {0} /\ job.n \in Nat /\ job.num \in Nat
         /\ job.den \in Nat \ {0} /\ job.align \in Nat \ {0}
BY DEF IsJob

\* A quotient rounded up.
LEMMA RoundsUp ==
  ASSUME NEW a \in Nat, NEW b \in Nat \ {0}
  PROVE  DivUp(a, b) \in Nat /\ DivUp(a, b) * b \in Nat /\ DivUp(a, b) * b >= a
<1>1. a + b - 1 \in Nat
  OBVIOUS
<1> DEFINE q == (a + b - 1) \div b
           r == (a + b - 1) % b
<1>2. q \in Nat /\ r \in 0 .. b - 1 /\ a + b - 1 = b * q + r
  BY <1>1, DivMod
<1>3. DivUp(a, b) = q
  BY DEF DivUp
<1> HIDE DEF q, r
<1>4. b * q = q * b /\ q * b \in Nat
  BY <1>2
<1> DEFINE m == q * b
<1>5. m \in Nat /\ a + b - 1 = m + r
  BY <1>2, <1>4
<1>6. m >= a
  <2> HIDE DEF m
  <2> QED
    BY <1>2, <1>5
<1> QED
  BY <1>2, <1>3, <1>5, <1>6

\* At least one row to each peer may be kept, and there is room for all that are.
LEMMA Room ==
  ASSUME IsJob(job)
  PROVE  /\ Cap \in Nat \ {0} /\ RStatic \in Nat /\ job.ranks * Cap \in Nat /\ job.ranks * Cap <= RStatic
<1>1. /\ job.ranks \in Nat \ {0} /\ job.n \in Nat /\ job.num \in Nat /\ job.den \in Nat \ {0}
      /\ job.align \in Nat \ {0}
  BY JobSizes
<1>2. DivUp(job.num * job.n, job.den * job.ranks) \in Nat
  <2>1. job.num * job.n \in Nat /\ job.den * job.ranks \in Nat \ {0}
    BY <1>1
  <2> QED
    BY <2>1, RoundsUp
<1>3. Cap \in Nat \ {0}
  <2> DEFINE u == DivUp(job.num * job.n, job.den * job.ranks)
  <2>1. u \in Nat
    BY <1>2
  <2>2. Cap = IF job.num = 0 THEN Most(job.n, 1) ELSE Most(1, Least(Most(job.n, 1), u))
    BY DEF Cap
  <2> HIDE DEF u
  <2> QED
    BY <1>1, <2>1, <2>2 DEF Most, Least
<1>4. job.ranks * Cap \in Nat
  BY <1>1, <1>3
<1> QED
  BY <1>1, <1>3, <1>4, RoundsUp DEF RStatic

\* The rows of each rank are in the order of their experts.
InOrder ==
  /\ expert \in [Ranks -> [UpTo(job.n) -> UpTo(job.ranks * job.e)]]
  /\ \A r \in Ranks : \A i, j \in UpTo(job.n) : i < j => expert[r][i] <= expert[r][j]

\* How many of a rank's rows go to experts below v: the place of the first that does not.
FirstOf(r, v) == Cardinality({p \in UpTo(job.n) : expert[r][p] < v})

\* Every row is for an expert there is.
LEMMA ExpertNumbers ==
  ASSUME IsJob(job), InOrder, NEW r \in Ranks, NEW p \in UpTo(job.n)
  PROVE  expert[r][p] \in Nat /\ expert[r][p] < job.ranks * job.e
<1>1. expert[r][p] \in UpTo(job.ranks * job.e)
  BY DEF InOrder
<1>2. job.ranks * job.e \in Nat
  BY JobSizes
<1> QED
  BY <1>1, <1>2 DEF UpTo

\* The rows are in the order of their experts: those below v are the first FirstOf.
LEMMA FirstRows ==
  ASSUME IsJob(job), InOrder, NEW r \in Ranks, NEW v \in Int
  PROVE  /\ FirstOf(r, v) \in 0 .. job.n
         /\ \A p \in UpTo(job.n) : expert[r][p] < v <=> p < FirstOf(r, v)
<1> DEFINE A == {p \in UpTo(job.n) : expert[r][p] < v}
<1>1. job.n \in Nat
  BY JobSizes
<1>2. ASSUME NEW i \in UpTo(job.n), NEW j \in A, i < j PROVE i \in A
  <2>1. expert[r][i] <= expert[r][j] /\ expert[r][j] < v
    BY <1>2 DEF InOrder
  <2>2. expert[r][i] \in Nat /\ expert[r][j] \in Nat
    BY ExpertNumbers
  <2>3. expert[r][i] < v
    BY <2>1, <2>2
  <2> QED
    BY <2>3
<1>3. A \in SUBSET UpTo(job.n)
  OBVIOUS
<1>4. /\ Cardinality(A) \in 0 .. job.n
      /\ \A i \in UpTo(job.n) : i \in A <=> i < Cardinality(A)
  <2> HIDE DEF A
  <2> QED
    BY <1>1, <1>2, <1>3, FirstOnes
<1>5. FirstOf(r, v) = Cardinality(A)
  BY DEF FirstOf
<1> QED
  BY <1>4, <1>5

\* They are more for a greater bound.
LEMMA FirstsGrow ==
  ASSUME IsJob(job), InOrder, NEW r \in Ranks, NEW v \in Int, NEW w \in Int, v <= w
  PROVE  FirstOf(r, v) <= FirstOf(r, w)
<1>1. /\ FirstOf(r, v) \in 0 .. job.n /\ FirstOf(r, w) \in 0 .. job.n
      /\ \A p \in UpTo(job.n) : expert[r][p] < v <=> p < FirstOf(r, v)
      /\ \A p \in UpTo(job.n) : expert[r][p] < w <=> p < FirstOf(r, w)
  BY FirstRows
<1>2. job.n \in Nat
  BY JobSizes
<1>3. SUFFICES ASSUME FirstOf(r, w) < FirstOf(r, v) PROVE FALSE
  BY <1>1
<1> DEFINE p == FirstOf(r, w)
<1>4. p \in UpTo(job.n)
  BY <1>1, <1>2, <1>3 DEF UpTo
<1>5. expert[r][p] < v /\ ~(expert[r][p] < w)
  BY <1>1, <1>3, <1>4
<1>6. expert[r][p] \in Nat
  BY <1>4, ExpertNumbers
<1> QED
  BY <1>5, <1>6

\* No expert is below the first, all are below the number of experts.
LEMMA FirstEnds ==
  ASSUME IsJob(job), InOrder, NEW r \in Ranks
  PROVE  FirstOf(r, 0) = 0 /\ FirstOf(r, job.ranks * job.e) = job.n
<1>1. job.n \in Nat /\ job.ranks * job.e \in Nat
  BY JobSizes
<1>2. {p \in UpTo(job.n) : expert[r][p] < 0} = {}
  BY ExpertNumbers
<1>3. {p \in UpTo(job.n) : expert[r][p] < job.ranks * job.e} = 0 .. job.n - 1
  BY ExpertNumbers DEF UpTo
<1>4. Cardinality(0 .. job.n - 1) = job.n
  BY <1>1, Between
<1> QED
  BY <1>2, <1>3, <1>4, FS_EmptySet DEF FirstOf

\* The rows that go to a peer's first l experts are those between two such places.
LEMMA RoutedIs ==
  ASSUME IsJob(job), InOrder, NEW r \in Ranks, NEW d \in Ranks, NEW l \in 0 .. job.e
  PROVE  /\ Routed(r, ExpertsOf(d, l)) = FirstOf(r, d * job.e + l) - FirstOf(r, d * job.e)
         /\ FirstOf(r, d * job.e) <= FirstOf(r, d * job.e + l)
<1> DEFINE a == d * job.e
<1>1. a \in Nat /\ l \in Nat /\ job.n \in Nat
  <2>1. d \in Nat /\ job.e \in Nat
    BY JobSizes DEF Ranks, UpTo
  <2> QED
    BY <2>1, JobSizes
<1> HIDE DEF a
<1> DEFINE lo == FirstOf(r, a)
           hi == FirstOf(r, a + l)
<1>2. /\ lo \in 0 .. job.n /\ hi \in 0 .. job.n /\ lo <= hi
      /\ \A p \in UpTo(job.n) : (expert[r][p] < a <=> p < lo) /\ (expert[r][p] < a + l <=> p < hi)
  <2>1. a \in Int /\ a + l \in Int /\ a <= a + l
    BY <1>1
  <2>2. lo \in 0 .. job.n /\ \A p \in UpTo(job.n) : expert[r][p] < a <=> p < lo
    BY <2>1, FirstRows
  <2>3. hi \in 0 .. job.n /\ \A p \in UpTo(job.n) : expert[r][p] < a + l <=> p < hi
    BY <2>1, FirstRows
  <2>4. lo <= hi
    BY <2>1, FirstsGrow
  <2> QED
    BY <2>2, <2>3, <2>4
<1>3. \A x \in Nat : x \in ExpertsOf(d, l) <=> a <= x /\ x < a + l
  <2>1. ExpertsOf(d, l) = {a + m : m \in UpTo(l)}
    BY DEF ExpertsOf, a
  <2>2. ASSUME NEW x \in Nat, a <= x, x < a + l PROVE x \in {a + m : m \in UpTo(l)}
    <3>1. x - a \in UpTo(l) /\ a + (x - a) = x
      BY <1>1, <2>2 DEF UpTo
    <3> QED
      BY <3>1
  <2>3. ASSUME NEW m \in UpTo(l) PROVE a <= a + m /\ a + m < a + l
    BY <1>1 DEF UpTo
  <2> QED
    BY <2>1, <2>2, <2>3
<1>4. {p \in UpTo(job.n) : expert[r][p] \in ExpertsOf(d, l)} = lo .. hi - 1
  <2> HIDE DEF lo, hi
  <2>1. ASSUME NEW p \in UpTo(job.n) PROVE expert[r][p] \in ExpertsOf(d, l) <=> p \in lo .. hi - 1
    <3>1. expert[r][p] \in Nat /\ p \in Nat
      BY <1>1, ExpertNumbers DEF UpTo
    <3>2. (expert[r][p] < a <=> p < lo) /\ (expert[r][p] < a + l <=> p < hi)
      BY <1>2
    <3>3. expert[r][p] \in ExpertsOf(d, l) <=> a <= expert[r][p] /\ expert[r][p] < a + l
      BY <1>3, <3>1
    <3> QED
      BY <1>1, <1>2, <3>1, <3>2, <3>3
  <2>2. \A p \in lo .. hi - 1 : p \in UpTo(job.n)
    BY <1>1, <1>2 DEF UpTo
  <2> QED
    BY <2>1, <2>2
<1>5. Cardinality(lo .. hi - 1) = hi - lo
  <2> HIDE DEF lo, hi
  <2> QED
    BY <1>2, Between
<1> QED
  BY <1>2, <1>4, <1>5 DEF Routed, a

\* What is kept of the rows to a peer's first l experts: no more than Cap, more for more experts.
Given(s, d, l) == FirstOf(s, d * job.e + l) - FirstOf(s, d * job.e)

\* CappedTo counts the first Cap of the rows given, and grows with the experts.
LEMMA CappedIs ==
  ASSUME IsJob(job), InOrder, NEW s \in Ranks, NEW d \in Ranks, NEW l \in 0 .. job.e
  PROVE  /\ Given(s, d, l) \in Nat /\ CappedTo(s, d, l) \in Nat
         /\ CappedTo(s, d, l) = IF Given(s, d, l) < Cap THEN Given(s, d, l) ELSE Cap
         /\ CappedTo(s, d, 0) = 0
         /\ \A m \in 0 .. l : CappedTo(s, d, m) <= CappedTo(s, d, l) /\ CappedTo(s, d, m) \in Nat
<1>1. job.e \in Nat /\ Cap \in Nat \ {0} /\ d * job.e \in Nat
  <2>1. d \in Nat /\ job.e \in Nat
    BY JobSizes DEF Ranks, UpTo
  <2> QED
    BY <2>1, Room
<1>2. ASSUME NEW k \in 0 .. job.e
      PROVE  /\ Given(s, d, k) \in Nat
             /\ CappedTo(s, d, k) = IF Given(s, d, k) < Cap THEN Given(s, d, k) ELSE Cap
             /\ CappedTo(s, d, k) \in Nat
  <2>1. /\ Routed(s, ExpertsOf(d, k)) = Given(s, d, k)
        /\ FirstOf(s, d * job.e) <= FirstOf(s, d * job.e + k)
    BY RoutedIs DEF Given
  <2>2. FirstOf(s, d * job.e) \in Nat /\ FirstOf(s, d * job.e + k) \in Nat
    BY <1>1, FirstRows
  <2>3. Given(s, d, k) \in Nat
    <3> DEFINE a == FirstOf(s, d * job.e)
               b == FirstOf(s, d * job.e + k)
    <3>1. a \in Nat /\ b \in Nat /\ a <= b
      BY <2>1, <2>2
    <3> HIDE DEF a, b
    <3>2. b - a \in Nat
      BY <3>1
    <3> QED
      BY <3>2 DEF a, b, Given
  <2>4. CappedTo(s, d, k) = Least(Cap, Given(s, d, k))
    BY <2>1 DEF CappedTo
  <2> QED
    BY <1>1, <2>3, <2>4 DEF Least
<1>3. CappedTo(s, d, 0) = 0
  <2>1. 0 \in 0 .. job.e /\ d * job.e + 0 = d * job.e
    BY <1>1
  <2>2. Given(s, d, 0) = 0
    <3>1. FirstOf(s, d * job.e) \in Nat
      BY <1>1, FirstRows
    <3> QED
      BY <2>1, <3>1 DEF Given
  <2> QED
    BY <1>1, <1>2, <2>1, <2>2
<1>4. ASSUME NEW m \in 0 .. l PROVE CappedTo(s, d, m) <= CappedTo(s, d, l)
  <2>1. m \in 0 .. job.e /\ m \in Int /\ l \in Int /\ d * job.e + m \in Int /\ d * job.e + l \in Int
        /\ d * job.e + m <= d * job.e + l
    BY <1>1
  <2>2. FirstOf(s, d * job.e + m) <= FirstOf(s, d * job.e + l)
    BY <2>1, FirstsGrow
  <2>3. FirstOf(s, d * job.e + m) \in Nat /\ FirstOf(s, d * job.e + l) \in Nat /\ FirstOf(s, d * job.e) \in Nat
    BY <1>1, <2>1, FirstRows
  <2>4. Given(s, d, m) <= Given(s, d, l)
    BY <2>2, <2>3 DEF Given
  <2> QED
    BY <1>1, <1>2, <2>1, <2>4
<1>5. \A m \in 0 .. l : m \in 0 .. job.e
  BY <1>1
<1> QED
  BY <1>2, <1>3, <1>4, <1>5

-----------------------------------------------------------------------------
(* Where the rows land, and where they come from.                           *)

\* Where a rank puts the rows that a sender kept for it: behind those of the senders before.
Place(r, s) == SumTo([t \in Ranks |-> CappedTo(t, r, job.e)], s)
Filled(r) == Place(r, job.ranks)

\* The senders' places follow each other and fit into RStatic.
LEMMA PlacesGrow ==
  ASSUME IsJob(job), InOrder, NEW r \in Ranks
  PROVE  /\ Place(r, 0) = 0
         /\ \A s \in Ranks : Place(r, s + 1) = Place(r, s) + CappedTo(s, r, job.e)
         /\ \A s \in 0 .. job.ranks : Place(r, s) \in Nat
         /\ \A s, t \in 0 .. job.ranks : s <= t => Place(r, s) <= Place(r, t)
         /\ Filled(r) \in Nat /\ Filled(r) <= RStatic
<1> DEFINE f == [t \in Ranks |-> CappedTo(t, r, job.e)]
<1>1. job.ranks \in Nat /\ job.e \in 0 .. job.e /\ Ranks = UpTo(job.ranks)
  BY JobSizes DEF Ranks
<1>2. \A s \in Ranks : f[s] = CappedTo(s, r, job.e) /\ f[s] \in Nat /\ f[s] <= Cap
  <2> SUFFICES ASSUME NEW s \in Ranks PROVE CappedTo(s, r, job.e) \in Nat /\ CappedTo(s, r, job.e) <= Cap
    OBVIOUS
  <2>1. /\ Given(s, r, job.e) \in Nat /\ CappedTo(s, r, job.e) \in Nat
        /\ CappedTo(s, r, job.e) = IF Given(s, r, job.e) < Cap THEN Given(s, r, job.e) ELSE Cap
    BY <1>1, CappedIs
  <2>2. Cap \in Nat
    BY Room
  <2> QED
    BY <2>1, <2>2
<1>3. \A s : Place(r, s) = SumTo(f, s)
  BY DEF Place
<1> HIDE DEF f
<1>4. /\ \A s \in 0 .. job.ranks : Place(r, s) \in Nat
      /\ \A s, t \in 0 .. job.ranks : s <= t => Place(r, s) <= Place(r, t)
  BY <1>1, <1>2, <1>3, SumsGrow
<1>5. Place(r, 0) = 0 /\ \A s \in Ranks : Place(r, s + 1) = Place(r, s) + CappedTo(s, r, job.e)
  <2>1. SumTo(f, 0) = 0
    BY SumStep
  <2>2. \A s \in Ranks : s \in Nat
    BY <1>1 DEF UpTo
  <2>3. \A s \in Ranks : SumTo(f, s + 1) = SumTo(f, s) + f[s]
    BY <2>2, SumStep
  <2> QED
    BY <1>2, <1>3, <2>1, <2>3
<1>6. Filled(r) \in Nat
  BY <1>1, <1>4 DEF Filled
<1>7. Filled(r) <= job.ranks * Cap
  <2> DEFINE S == {s \in Nat : s <= job.ranks => Place(r, s) <= s * Cap}
  <2>1. Cap \in Nat
    BY Room
  <2>2. 0 \in S
    BY <1>5, <2>1
  <2>3. ASSUME NEW s \in S PROVE s + 1 \in S
    <3>1. SUFFICES ASSUME s + 1 <= job.ranks PROVE Place(r, s + 1) <= (s + 1) * Cap
      OBVIOUS
    <3>2. s \in Ranks /\ s \in 0 .. job.ranks /\ s <= job.ranks
      BY <1>1, <3>1 DEF UpTo
    <3>3. /\ Place(r, s) <= s * Cap /\ Place(r, s) \in Nat
          /\ Place(r, s + 1) = Place(r, s) + CappedTo(s, r, job.e)
          /\ CappedTo(s, r, job.e) \in Nat /\ CappedTo(s, r, job.e) <= Cap
      BY <1>2, <1>4, <1>5, <3>2
    <3> DEFINE m == s * Cap
    <3>4. (s + 1) * Cap = m + Cap /\ m \in Nat
      BY <2>1
    <3> HIDE DEF m
    <3>5. Place(r, s) <= m
      BY <3>3 DEF m
    <3> QED
      BY <2>1, <3>3, <3>4, <3>5
  <2>4. S = Nat
    <3> HIDE DEF S
    <3>1. S \in SUBSET Nat
      BY DEF S
    <3> QED
      BY <2>2, <2>3, <3>1, NatSets
  <2>5. job.ranks \in S
    BY <1>1, <2>4
  <2> QED
    BY <1>1, <2>5 DEF Filled
<1>8. Filled(r) <= RStatic
  <2>1. RStatic \in Nat /\ job.ranks * Cap \in Nat /\ job.ranks * Cap <= RStatic
    BY Room
  <2> DEFINE m == job.ranks * Cap
  <2> HIDE DEF m
  <2>2. m \in Nat /\ m <= RStatic /\ Filled(r) <= m
    BY <1>7, <2>1 DEF m
  <2> QED
    BY <1>6, <2>1, <2>2
<1> QED
  BY <1>4, <1>5, <1>6, <1>8

\* Every filled place has one sender.
SentFrom(r, s, q) == Place(r, s) <= q /\ q < Place(r, s + 1)

\* No place has two senders, and behind the filled ones none has any.
LEMMA OneSender ==
  ASSUME IsJob(job), InOrder, NEW r \in Ranks, NEW q \in Nat
  PROVE  /\ q < Filled(r) => \E s \in Ranks : SentFrom(r, s, q)
         /\ \A s, t \in Ranks : SentFrom(r, s, q) /\ SentFrom(r, t, q) => s = t
         /\ \A s \in Ranks : SentFrom(r, s, q) => q < Filled(r)
         /\ \A s, t \in Ranks : SentFrom(r, s, q) => (Place(r, t + 1) <= q <=> t < s)
<1>1. job.ranks \in Nat /\ \A s \in Ranks : s \in 0 .. job.ranks /\ s + 1 \in 0 .. job.ranks /\ s \in Nat
  BY JobSizes DEF Ranks, UpTo
<1>2. /\ Place(r, 0) = 0
      /\ \A s \in 0 .. job.ranks : Place(r, s) \in Nat
      /\ \A s, t \in 0 .. job.ranks : s <= t => Place(r, s) <= Place(r, t)
      /\ Filled(r) \in Nat
  BY PlacesGrow
<1>3. ASSUME q < Filled(r) PROVE \E s \in Ranks : SentFrom(r, s, q)
  <2> DEFINE S == {s \in Nat : s <= job.ranks /\ q < Place(r, s)}
  <2>1. job.ranks \in S
    BY <1>1, <1>3 DEF Filled
  <2>2. PICK s \in S : \A t \in S : s <= t
    <3>1. S \in SUBSET Nat /\ S # {}
      BY <2>1
    <3> HIDE DEF S
    <3> QED
      BY <3>1, LeastNat
  <2>3. s # 0
    BY <1>2, <2>2
  <2>4. s - 1 \in Ranks /\ (s - 1) + 1 = s /\ s - 1 \in Nat /\ s - 1 \notin S
    <3>1. s \in Nat /\ s <= job.ranks
      OBVIOUS
    <3>2. s - 1 \in Nat /\ s - 1 < s
      BY <2>3, <3>1
    <3>3. s - 1 \notin S
      <4> HIDE DEF S
      <4>1. s - 1 \in S => s <= s - 1
        BY <2>2
      <4> QED
        BY <3>1, <3>2, <4>1
    <3>4. s - 1 \in Ranks
      BY <1>1, <3>1, <3>2 DEF Ranks, UpTo
    <3> QED
      BY <3>1, <3>2, <3>3, <3>4
  <2>5. Place(r, s - 1) <= q
    <3>1. Place(r, s - 1) \in Nat /\ s - 1 <= job.ranks
      BY <1>1, <1>2, <2>4
    <3> QED
      BY <2>4, <3>1
  <2> QED
    BY <2>4, <2>5 DEF SentFrom
<1>4. ASSUME NEW s \in Ranks, NEW t \in Ranks, SentFrom(r, s, q) PROVE Place(r, t + 1) <= q <=> t < s
  <2>1. Place(r, s) \in Nat /\ Place(r, s + 1) \in Nat /\ Place(r, t) \in Nat /\ Place(r, t + 1) \in Nat
    BY <1>1, <1>2
  <2>2. Place(r, s) <= q /\ q < Place(r, s + 1)
    BY <1>4 DEF SentFrom
  <2>3. t + 1 <= s => Place(r, t + 1) <= Place(r, s)
    BY <1>1, <1>2
  <2>4. s + 1 <= t + 1 => Place(r, s + 1) <= Place(r, t + 1)
    BY <1>1, <1>2
  <2>5. s \in Nat /\ t \in Nat
    BY <1>1
  <2> QED
    BY <2>1, <2>2, <2>3, <2>4, <2>5
<1>5. ASSUME NEW s \in Ranks, NEW t \in Ranks, SentFrom(r, s, q), SentFrom(r, t, q) PROVE s = t
  <2>1. ~(Place(r, t + 1) <= q) /\ ~(Place(r, s + 1) <= q)
    <3>1. Place(r, t + 1) \in Nat /\ Place(r, s + 1) \in Nat
      BY <1>1, <1>2
    <3> QED
      BY <1>5, <3>1 DEF SentFrom
  <2>2. ~(t < s) /\ ~(s < t)
    BY <1>4, <1>5, <2>1
  <2> QED
    BY <1>1, <2>2
<1>6. ASSUME NEW s \in Ranks, SentFrom(r, s, q) PROVE q < Filled(r)
  <2>1. Place(r, s + 1) <= Filled(r) /\ Place(r, s + 1) \in Nat
    <3>1. s + 1 <= job.ranks /\ job.ranks \in 0 .. job.ranks
      BY <1>1
    <3> QED
      BY <1>1, <1>2, <3>1 DEF Filled
  <2> QED
    BY <1>2, <1>6, <2>1 DEF SentFrom
<1> QED
  BY <1>3, <1>4, <1>5, <1>6

\* The row that belongs at a filled place.
SenderOf(r, q) == CHOOSE s \in Ranks : SentFrom(r, s, q)
RowAt(r, q) == FirstOf(SenderOf(r, q), r * job.e) + (q - Place(r, SenderOf(r, q)))
Source(r, q) == <<SenderOf(r, q), RowAt(r, q)>>

\* SenderOf is that sender.
LEMMA SenderIs ==
  ASSUME IsJob(job), InOrder, NEW r \in Ranks, NEW q \in Nat
  PROVE  /\ q < Filled(r) => SenderOf(r, q) \in Ranks /\ SentFrom(r, SenderOf(r, q), q)
         /\ \A s \in Ranks : SentFrom(r, s, q) => SenderOf(r, q) = s
<1>1. /\ q < Filled(r) => \E s \in Ranks : SentFrom(r, s, q)
      /\ \A s, t \in Ranks : SentFrom(r, s, q) /\ SentFrom(r, t, q) => s = t
  BY OneSender
<1> QED
  BY <1>1 DEF SenderOf

\* It is one that its sender kept for the rank, and how many of those are before it tells its expert.
LEMMA SourceIs ==
  ASSUME IsJob(job), InOrder, NEW r \in Ranks, NEW q \in Nat, q < Filled(r)
  PROVE  LET s == SenderOf(r, q)
             w == q - Place(r, s)
         IN  /\ s \in Ranks /\ w \in Nat /\ w < CappedTo(s, r, job.e) /\ w < Cap
             /\ RowAt(r, q) \in UpTo(job.n) /\ RowAt(r, q) = FirstOf(s, r * job.e) + w
             /\ \A l \in 0 .. job.e : w < CappedTo(s, r, l) <=> expert[s][RowAt(r, q)] < r * job.e + l
             /\ r * job.e <= expert[s][RowAt(r, q)] /\ expert[s][RowAt(r, q)] < r * job.e + job.e
<1> DEFINE s == SenderOf(r, q)
           w == q - Place(r, s)
           a == r * job.e
           p == RowAt(r, q)
           b == FirstOf(s, a)
<1>1. s \in Ranks /\ Place(r, s) <= q /\ q < Place(r, s + 1)
  BY SenderIs DEF SentFrom
<1>2. job.e \in Nat \ {0} /\ job.n \in Nat /\ Cap \in Nat /\ a \in Nat /\ job.e \in 0 .. job.e
  <2>1. r \in Nat /\ job.e \in Nat \ {0}
    BY JobSizes DEF Ranks, UpTo
  <2> QED
    BY <2>1, JobSizes, Room
<1>3. p = b + w
  BY DEF RowAt
<1> HIDE DEF s, p
<1>4. w \in Nat /\ w < CappedTo(s, r, job.e)
  <2>1. Place(r, s) \in Nat /\ Place(r, s + 1) = Place(r, s) + CappedTo(s, r, job.e)
    <3>1. s \in 0 .. job.ranks
      BY <1>1, JobSizes DEF Ranks, UpTo
    <3> QED
      BY <1>1, <3>1, PlacesGrow
  <2>2. CappedTo(s, r, job.e) \in Nat
    BY <1>1, <1>2, CappedIs
  <2> QED
    BY <1>1, <2>1, <2>2
<1> HIDE DEF w, a
<1>5. b \in Nat /\ \A l \in 0 .. job.e : FirstOf(s, a + l) \in 0 .. job.n
  BY <1>1, <1>2, FirstRows
<1>6. \A l \in 0 .. job.e : /\ Given(s, r, l) = FirstOf(s, a + l) - b /\ Given(s, r, l) \in Nat
                            /\ CappedTo(s, r, l) = IF Given(s, r, l) < Cap THEN Given(s, r, l) ELSE Cap
  BY <1>1, CappedIs DEF Given, a
<1>7. w < Cap /\ w < Given(s, r, job.e)
  BY <1>2, <1>4, <1>6
<1>8. p \in UpTo(job.n)
  <2>1. FirstOf(s, a + job.e) \in 0 .. job.n /\ Given(s, r, job.e) = FirstOf(s, a + job.e) - b
    BY <1>2, <1>5, <1>6
  <2> HIDE DEF b
  <2>2. b + w < job.n /\ b + w >= 0 /\ b + w \in Int
    BY <1>2, <1>4, <1>5, <1>7, <2>1
  <2> QED
    BY <1>2, <1>3, <2>2 DEF UpTo
<1>9. ASSUME NEW l \in 0 .. job.e PROVE w < CappedTo(s, r, l) <=> expert[s][p] < a + l
  <2>1. expert[s][p] < a + l <=> p < FirstOf(s, a + l)
    BY <1>1, <1>2, <1>8, FirstRows
  <2>2. p < FirstOf(s, a + l) <=> w < Given(s, r, l)
    <3> HIDE DEF b
    <3>1. FirstOf(s, a + l) \in 0 .. job.n /\ Given(s, r, l) = FirstOf(s, a + l) - b
      BY <1>5, <1>6
    <3> QED
      BY <1>2, <1>3, <1>4, <1>5, <3>1
  <2>3. w < CappedTo(s, r, l) <=> w < Given(s, r, l)
    <3>1. Given(s, r, l) \in Nat /\ CappedTo(s, r, l) = IF Given(s, r, l) < Cap THEN Given(s, r, l) ELSE Cap
      BY <1>6
    <3> QED
      BY <1>2, <1>4, <1>7, <3>1
  <2> QED
    BY <2>1, <2>2, <2>3
<1>10. a <= expert[s][p] /\ expert[s][p] < a + job.e
  <2>1. expert[s][p] < a <=> p < b
    BY <1>1, <1>2, <1>8, FirstRows
  <2>2. ~(p < b)
    <3> HIDE DEF b
    <3> QED
      BY <1>3, <1>4, <1>5
  <2>3. expert[s][p] \in Nat
    BY <1>1, <1>8, ExpertNumbers
  <2>4. expert[s][p] < a + job.e
    BY <1>2, <1>4, <1>9
  <2> QED
    BY <1>2, <2>1, <2>2, <2>3, <2>4
<1> QED
  BY <1>1, <1>3, <1>4, <1>7, <1>8, <1>9, <1>10 DEF s, w, a, p, b

\* The rank of an expert.
LEMMA RankOfExpert ==
  ASSUME NEW x \in Nat, NEW n \in Nat \ {0}, NEW r \in Nat
  PROVE  x \div n = r <=> r * n <= x /\ x < r * n + n
<1> DEFINE q == x \div n
           m == x % n
<1>1. q \in Nat /\ m \in 0 .. n - 1 /\ x = n * q + m
  BY DivMod
<1>2. r * n \in Nat /\ n * r = r * n /\ n * q = q * n /\ q * n \in Nat
  BY <1>1
<1>3. ASSUME q = r PROVE r * n <= x /\ x < r * n + n
  <2> DEFINE a == r * n
  <2>1. x = a + m /\ a \in Nat
    BY <1>1, <1>2, <1>3
  <2> HIDE DEF a, m
  <2>2. a <= x /\ x < a + n
    BY <1>1, <2>1
  <2> QED
    BY <2>2 DEF a
<1>4. ASSUME r * n <= x, x < r * n + n PROVE q = r
  <2> DEFINE a == r * n
             k == x - a
  <2>1. a \in Nat /\ a <= x /\ x < a + n
    BY <1>2, <1>4
  <2>2. k \in 0 .. n - 1 /\ x = a + k
    <3> HIDE DEF a
    <3> QED
      BY <2>1
  <2>3. (n * r + k) \div n = r
    <3> HIDE DEF k
    <3> QED
      BY <2>2, DivOf
  <2>4. n * r + k = x
    BY <1>2, <2>2
  <2> QED
    BY <2>3, <2>4
<1> QED
  BY <1>3, <1>4

\* The kept rows that go to a rank are the first Cap of them.
LEMMA KeptIs ==
  ASSUME IsJob(job), InOrder, NEW r \in Ranks, NEW s \in Ranks, NEW i \in UpTo(job.n),
         r * job.e <= expert[s][i], expert[s][i] < r * job.e + job.e
  PROVE  LET b == FirstOf(s, r * job.e)
         IN  /\ b \in Nat /\ i \in Nat /\ b <= i /\ (Kept(s, i) <=> i - b < Cap)
             /\ Kept(s, i) <=> i - b < CappedTo(s, r, job.e)
<1> DEFINE a == r * job.e
           b == FirstOf(s, a)
           c == FirstOf(s, a + job.e)
<1>1. r \in Nat /\ job.e \in Nat \ {0} /\ job.n \in Nat /\ Cap \in Nat \ {0} /\ a \in Nat /\ job.e \in 0 .. job.e
  <2>1. r \in Nat /\ job.e \in Nat \ {0}
    BY JobSizes DEF Ranks, UpTo
  <2> QED
    BY <2>1, JobSizes, Room
<1>2. \A j \in UpTo(job.n) : expert[s][j] \in Nat /\ (expert[s][j] \div job.e = r <=> a <= expert[s][j] /\ expert[s][j] < a + job.e)
  BY <1>1, ExpertNumbers, RankOfExpert
<1> HIDE DEF a
<1>3. /\ b \in 0 .. job.n /\ c \in 0 .. job.n
      /\ \A j \in UpTo(job.n) : (expert[s][j] < a <=> j < b) /\ (expert[s][j] < a + job.e <=> j < c)
  BY <1>1, FirstRows
<1> HIDE DEF b, c
<1>4. i \in Nat /\ i < job.n /\ b <= i /\ i < c
  <2>1. i \in Nat /\ i < job.n
    BY <1>1 DEF UpTo
  <2>2. ~(expert[s][i] < a) /\ expert[s][i] < a + job.e
    BY <1>1, <1>2 DEF a
  <2> QED
    BY <1>1, <1>3, <2>1, <2>2
<1>5. expert[s][i] \div job.e = r
  BY <1>2 DEF a
<1>6. {j \in 0 .. i - 1 : expert[s][j] \div job.e = expert[s][i] \div job.e} = b .. i - 1
  <2>1. ASSUME NEW j \in 0 .. i - 1 PROVE expert[s][j] \div job.e = r <=> j \in b .. i - 1
    <3>1. j \in UpTo(job.n) /\ j < i /\ j \in Nat
      BY <1>1, <1>4 DEF UpTo
    <3>2. expert[s][j] <= expert[s][i]
      BY <3>1 DEF InOrder
    <3>3. expert[s][j] \in Nat /\ expert[s][i] \in Nat
      BY <1>2, <3>1
    <3>4. expert[s][j] < a + job.e
      BY <1>1, <3>2, <3>3 DEF a
    <3>5. a <= expert[s][j] <=> b <= j
      BY <1>1, <1>3, <3>1, <3>3
    <3> QED
      BY <1>2, <1>3, <1>4, <3>1, <3>4, <3>5
  <2>2. \A j \in b .. i - 1 : j \in 0 .. i - 1
    BY <1>3, <1>4
  <2> QED
    BY <1>5, <2>1, <2>2
<1>7. Kept(s, i) <=> i - b < Cap
  <2>1. Cardinality(b .. i - 1) = i - b
    BY <1>3, <1>4, Between
  <2> QED
    BY <1>6, <2>1 DEF Kept
<1>8. Kept(s, i) <=> i - b < CappedTo(s, r, job.e)
  <2>1. /\ Given(s, r, job.e) \in Nat
        /\ CappedTo(s, r, job.e) = IF Given(s, r, job.e) < Cap THEN Given(s, r, job.e) ELSE Cap
    BY <1>1, CappedIs
  <2>2. Given(s, r, job.e) = c - b
    BY DEF Given, c, b, a
  <2>3. i - b < c - b
    BY <1>3, <1>4
  <2> QED
    BY <1>1, <1>3, <1>4, <1>7, <2>1, <2>2, <2>3
<1> QED
  BY <1>3, <1>4, <1>7, <1>8 DEF a, b

\* A kept row has a place, and what is at a place is kept.
LEMMA KeptHasPlace ==
  ASSUME IsJob(job), InOrder, NEW r \in Ranks, NEW s \in Ranks, NEW i \in UpTo(job.n),
         r * job.e <= expert[s][i], expert[s][i] < r * job.e + job.e, Kept(s, i)
  PROVE  LET q == Place(r, s) + (i - FirstOf(s, r * job.e))
         IN  q \in Nat /\ q < Filled(r) /\ SenderOf(r, q) = s /\ RowAt(r, q) = i
<1> DEFINE b == FirstOf(s, r * job.e)
           q == Place(r, s) + (i - b)
<1>1. b \in Nat /\ i \in Nat /\ b <= i /\ i - b < CappedTo(s, r, job.e)
  BY KeptIs
<1>2. Place(r, s) \in Nat /\ Place(r, s + 1) = Place(r, s) + CappedTo(s, r, job.e)
  <2>1. s \in 0 .. job.ranks
    BY JobSizes DEF Ranks, UpTo
  <2> QED
    BY <2>1, PlacesGrow
<1>3. CappedTo(s, r, job.e) \in Nat
  <2>1. job.e \in 0 .. job.e
    BY JobSizes
  <2> QED
    BY <2>1, CappedIs
<1>4. q \in Nat /\ Place(r, s) <= q /\ q < Place(r, s + 1) /\ q - Place(r, s) = i - b /\ b + (i - b) = i
  <2> HIDE DEF b
  <2> QED
    BY <1>1, <1>2, <1>3
<1>5. SentFrom(r, s, q)
  BY <1>4 DEF SentFrom
<1> HIDE DEF q
<1>6. q < Filled(r)
  BY <1>4, <1>5, OneSender
<1>7. SenderOf(r, q) = s
  BY <1>4, <1>5, SenderIs
<1>8. RowAt(r, q) = i
  BY <1>4, <1>7 DEF RowAt
<1> QED
  BY <1>4, <1>6, <1>7, <1>8 DEF q

\* Only kept rows belong at a place.
LEMMA PlaceIsKept ==
  ASSUME IsJob(job), InOrder, NEW r \in Ranks, NEW q \in Nat, q < Filled(r)
  PROVE  Kept(SenderOf(r, q), RowAt(r, q))
<1> DEFINE s == SenderOf(r, q)
           w == q - Place(r, s)
           i == RowAt(r, q)
           b == FirstOf(s, r * job.e)
<1>1. /\ s \in Ranks /\ w \in Nat /\ w < Cap /\ i \in UpTo(job.n) /\ i = b + w
      /\ r * job.e <= expert[s][i] /\ expert[s][i] < r * job.e + job.e
  BY SourceIs
<1> HIDE DEF s, i, w
<1>2. b \in Nat /\ (Kept(s, i) <=> i - b < Cap)
  BY <1>1, KeptIs
<1> HIDE DEF b
<1>3. i - b = w
  BY <1>1, <1>2
<1> QED
  BY <1>1, <1>2, <1>3 DEF s, i

\* What the counts of a rank say of its places.
Counts(r) ==
  /\ \A s \in Ranks : takes[r][s] = CappedTo(s, r, job.e)
  /\ \A s \in Ranks, l \in UpTo(job.e) : received[r][s][l] = CappedTo(s, r, l + 1) - CappedTo(s, r, l)

\* The sums of the counts are the places of the senders.
LEMMA StartsAre ==
  ASSUME IsJob(job), InOrder, NEW r \in Ranks, Counts(r)
  PROVE  /\ \A s \in 0 .. job.ranks : TakeStart(r, s) = Place(r, s)
         /\ Valid(r) = Filled(r)
<1> DEFINE F == [s \in 0 .. job.ranks |-> Place(r, s)]
<1>1. job.ranks \in Nat
  BY JobSizes
<1>2. F[0] = 0
  BY <1>1, PlacesGrow
<1>3. \A s \in UpTo(job.ranks) : F[s + 1] = F[s] + takes[r][s]
  <2> SUFFICES ASSUME NEW s \in UpTo(job.ranks) PROVE F[s + 1] = F[s] + takes[r][s]
    OBVIOUS
  <2>1. s \in Ranks /\ s \in 0 .. job.ranks /\ s + 1 \in 0 .. job.ranks
    BY <1>1 DEF Ranks, UpTo
  <2> QED
    BY <2>1, PlacesGrow DEF Counts
<1>4. \A s \in 0 .. job.ranks : SumTo(takes[r], s) = F[s]
  <2> HIDE DEF F
  <2> QED
    BY <1>1, <1>2, <1>3, SumIs
<1>5. job.ranks \in 0 .. job.ranks
  BY <1>1
<1> QED
  BY <1>4, <1>5 DEF TakeStart, Valid, Filled

\* Of the rows from a sender, those to the first l experts.
LEMMA ReceivedAre ==
  ASSUME IsJob(job), InOrder, NEW r \in Ranks, Counts(r), NEW s \in Ranks, NEW l \in 0 .. job.e
  PROVE  SumTo(received[r][s], l) = CappedTo(s, r, l)
<1> DEFINE F == [k \in 0 .. job.e |-> CappedTo(s, r, k)]
<1>1. job.e \in Nat
  BY JobSizes
<1>2. F[0] = 0 /\ \A k \in 0 .. job.e : F[k] \in Nat
  BY <1>1, CappedIs
<1>3. \A k \in UpTo(job.e) : F[k + 1] = F[k] + received[r][s][k]
  <2> SUFFICES ASSUME NEW k \in UpTo(job.e) PROVE F[k + 1] = F[k] + received[r][s][k]
    OBVIOUS
  <2>1. k \in 0 .. job.e /\ k + 1 \in 0 .. job.e
    BY <1>1 DEF UpTo
  <2>2. received[r][s][k] = F[k + 1] - F[k]
    BY <2>1 DEF Counts
  <2> HIDE DEF F
  <2> QED
    BY <1>2, <2>1, <2>2
<1>4. SumTo(received[r][s], l) = F[l]
  <2> HIDE DEF F
  <2> QED
    BY <1>1, <1>2, <1>3, SumIs
<1> QED
  BY <1>4

\* The expert of each place, by the counts.
LEMMA SlotsAre ==
  ASSUME IsJob(job), InOrder, NEW r \in Ranks, Counts(r), NEW q \in Nat
  PROVE  SlotExpert(r, q) = IF q < Filled(r) THEN expert[SenderOf(r, q)][RowAt(r, q)] - r * job.e ELSE job.e
<1> DEFINE past == {s \in Ranks : q >= TakeStart(r, s) + takes[r][s]}
           sender == Least(job.ranks - 1, Cardinality(past))
           within == q - TakeStart(r, sender)
           below == {l \in UpTo(job.e) : within >= SumTo(received[r][sender], l + 1)}
<1>1. SlotExpert(r, q) = IF q < Filled(r) THEN Cardinality(below) ELSE job.e
  BY StartsAre DEF SlotExpert
<1>2. SUFFICES ASSUME q < Filled(r) PROVE Cardinality(below) = expert[SenderOf(r, q)][RowAt(r, q)] - r * job.e
  BY <1>1
<1> DEFINE s == SenderOf(r, q)
           p == RowAt(r, q)
           w == q - Place(r, s)
           a == r * job.e
<1>3. /\ s \in Ranks /\ w \in Nat
      /\ p \in UpTo(job.n)
      /\ \A l \in 0 .. job.e : w < CappedTo(s, r, l) <=> expert[s][p] < a + l
      /\ a <= expert[s][p] /\ expert[s][p] < a + job.e
  BY <1>2, SourceIs
<1>4. SentFrom(r, s, q)
  BY <1>2, SenderIs
<1>5. job.ranks \in Nat \ {0} /\ job.e \in Nat \ {0} /\ a \in Nat /\ \A t \in Ranks : t \in Nat /\ t < job.ranks
  <2>1. r \in Nat /\ job.e \in Nat \ {0}
    BY JobSizes DEF Ranks, UpTo
  <2>2. job.ranks \in Nat \ {0}
    BY JobSizes
  <2> QED
    BY <2>1, <2>2 DEF Ranks, UpTo
<1> HIDE DEF s, p, a, w
<1>6. past = 0 .. s - 1
  <2>1. ASSUME NEW t \in Ranks PROVE q >= TakeStart(r, t) + takes[r][t] <=> t < s
    <3>1. TakeStart(r, t) + takes[r][t] = Place(r, t + 1) /\ Place(r, t + 1) \in Nat
      <4>1. t \in 0 .. job.ranks /\ t + 1 \in 0 .. job.ranks
        BY <1>5
      <4> QED
        BY <4>1, StartsAre, PlacesGrow DEF Counts
    <3>2. Place(r, t + 1) <= q <=> t < s
      BY <1>3, <1>4, OneSender
    <3> QED
      BY <3>1, <3>2
  <2>2. \A t \in 0 .. s - 1 : t \in Ranks
    BY <1>3, <1>5 DEF Ranks, UpTo
  <2>3. \A t \in Ranks : t \in 0 .. s - 1 <=> t < s
    BY <1>3, <1>5
  <2> QED
    BY <2>1, <2>2, <2>3
<1>7. Cardinality(past) = s
  <2>1. 0 <= s /\ s \in Nat /\ s - 0 = s
    BY <1>3, <1>5
  <2> QED
    BY <1>6, <2>1, Between
<1>8. sender = s /\ within = w
  <2>1. sender = s
    BY <1>3, <1>5, <1>7 DEF Least
  <2>2. s \in 0 .. job.ranks
    BY <1>3, <1>5
  <2>3. TakeStart(r, s) = Place(r, s)
    BY <2>2, StartsAre
  <2> HIDE DEF sender
  <2> QED
    BY <2>1, <2>3 DEF w, s
<1>9. below = 0 .. (expert[s][p] - a) - 1
  <2> HIDE DEF sender, within
  <2>1. expert[s][p] \in Nat
    BY <1>3, ExpertNumbers
  <2>2. ASSUME NEW l \in UpTo(job.e) PROVE within >= SumTo(received[r][sender], l + 1) <=> l \in 0 .. (expert[s][p] - a) - 1
    <3>1. l \in Nat /\ l + 1 \in 0 .. job.e
      BY <1>5 DEF UpTo
    <3>2. SumTo(received[r][sender], l + 1) = CappedTo(s, r, l + 1)
      BY <1>3, <1>8, <3>1, ReceivedAre
    <3>3. CappedTo(s, r, l + 1) \in Nat
      BY <1>3, <3>1, CappedIs
    <3>4. w < CappedTo(s, r, l + 1) <=> expert[s][p] < a + (l + 1)
      BY <1>3, <3>1
    <3>5. within >= CappedTo(s, r, l + 1) <=> ~(expert[s][p] < a + (l + 1))
      BY <1>3, <1>8, <3>3, <3>4
    <3> QED
      BY <1>5, <2>1, <3>1, <3>2, <3>5
  <2>3. \A l \in 0 .. (expert[s][p] - a) - 1 : l \in UpTo(job.e)
    BY <1>3, <1>5, <2>1 DEF UpTo
  <2> QED
    BY <2>2, <2>3
<1>10. Cardinality(below) = expert[s][p] - a
  <2>1. expert[s][p] \in Nat
    BY <1>3, ExpertNumbers
  <2>2. expert[s][p] - a \in Nat /\ 0 <= expert[s][p] - a /\ (expert[s][p] - a) - 0 = expert[s][p] - a
    BY <1>3, <1>5, <2>1
  <2>3. Cardinality(0 .. (expert[s][p] - a) - 1) = (expert[s][p] - a) - 0
    BY <2>2, Between
  <2> QED
    BY <1>9, <2>2, <2>3
<1> QED
  BY <1>10 DEF s, p, a

\* The sum of two lists of numbers.
LEMMA SumAdds ==
  ASSUME NEW n \in Nat, NEW f, NEW g, NEW h,
         \A i \in UpTo(n) : f[i] \in Nat /\ g[i] \in Nat /\ h[i] = f[i] + g[i]
  PROVE  SumTo(h, n) = SumTo(f, n) + SumTo(g, n)
<1> DEFINE F == [k \in 0 .. n |-> SumTo(f, k) + SumTo(g, k)]
<1>1. /\ \A k \in 0 .. n : SumTo(f, k) \in Nat /\ SumTo(g, k) \in Nat
  BY SumsGrow
<1>2. F[0] = 0
  BY SumStep
<1>3. \A i \in UpTo(n) : F[i + 1] = F[i] + h[i]
  <2> SUFFICES ASSUME NEW i \in UpTo(n) PROVE F[i + 1] = F[i] + h[i]
    OBVIOUS
  <2>1. i \in Nat /\ i \in 0 .. n /\ i + 1 \in 0 .. n
    BY DEF UpTo
  <2>2. SumTo(f, i + 1) = SumTo(f, i) + f[i] /\ SumTo(g, i + 1) = SumTo(g, i) + g[i]
    BY <2>1, SumStep
  <2>3. F[i] = SumTo(f, i) + SumTo(g, i) /\ F[i + 1] = SumTo(f, i + 1) + SumTo(g, i + 1)
    BY <2>1
  <2>4. SumTo(f, i) \in Nat /\ SumTo(g, i) \in Nat
    BY <1>1, <2>1
  <2> QED
    BY <2>2, <2>3, <2>4
<1>4. SumTo(h, n) = F[n]
  <2> HIDE DEF F
  <2>1. n \in 0 .. n
    OBVIOUS
  <2> QED
    BY <1>2, <1>3, <2>1, SumIs
<1> QED
  BY <1>4

\* In a sorted list, what is below a bound comes first.
LEMMA SortedBelow ==
  ASSUME NEW n \in Nat, NEW key \in [UpTo(n) -> Int], NEW v \in Int
  PROVE  LET k == Cardinality({q \in UpTo(n) : key[q] < v})
         IN  k \in 0 .. n /\ \A p \in UpTo(n) : key[Argsort(key)[p]] < v <=> p < k
<1> DEFINE order == Argsort(key)
           A == {p \in UpTo(n) : key[order[p]] < v}
           B == {q \in UpTo(n) : key[q] < v}
           f == [p \in A |-> order[p]]
<1>1. /\ order \in [UpTo(n) -> UpTo(n)]
      /\ \A p, q \in UpTo(n) : p < q => key[order[p]] <= key[order[q]]
      /\ \A p, q \in UpTo(n) : order[p] = order[q] => p = q
      /\ \A i \in UpTo(n) : \E p \in UpTo(n) : order[p] = i
  BY Sorts
<1> HIDE DEF order
<1>2. A \in SUBSET UpTo(n)
  OBVIOUS
<1>3. ASSUME NEW i \in UpTo(n), NEW j \in A, i < j PROVE i \in A
  <2>1. key[order[i]] <= key[order[j]] /\ key[order[j]] < v
    BY <1>1, <1>3
  <2>2. key[order[i]] \in Int /\ key[order[j]] \in Int
    BY <1>1
  <2>3. key[order[i]] < v
    BY <2>1, <2>2
  <2> QED
    BY <2>3
<1>4. /\ IsFiniteSet(A) /\ Cardinality(A) \in 0 .. n
      /\ \A i \in UpTo(n) : i \in A <=> i < Cardinality(A)
  <2> HIDE DEF A
  <2> QED
    BY <1>2, <1>3, FirstOnes
<1>5. f \in Bijection(A, B)
  <2>1. f \in [A -> B]
    BY <1>1
  <2>2. \A p, q \in A : f[p] = f[q] => p = q
    BY <1>1
  <2>3. \A i \in B : \E p \in A : f[p] = i
    BY <1>1
  <2> HIDE DEF f, A, B
  <2> QED
    BY <2>1, <2>2, <2>3 DEF Bijection, Injection, IsInjective, Surjection
<1>6. Cardinality(B) = Cardinality(A)
  <2> HIDE DEF f, A, B
  <2> QED
    BY <1>4, <1>5, FS_Bijection DEF ExistsBijection
<1> QED
  BY <1>4, <1>6 DEF order

-----------------------------------------------------------------------------
(* The groups of the experts.                                               *)

\* The local expert of each place; behind the filled ones, none's.
SlotOf(r, q) == IF q < Filled(r) THEN expert[SenderOf(r, q)][RowAt(r, q)] - r * job.e ELSE job.e
Slots(r) == [q \in UpTo(RStatic) |-> SlotOf(r, q)]

\* A local expert, which the counts of the sender bound.
LEMMA SlotIs ==
  ASSUME IsJob(job), InOrder, NEW r \in Ranks, NEW q \in Nat
  PROVE  /\ SlotOf(r, q) \in 0 .. job.e /\ (SlotOf(r, q) < job.e <=> q < Filled(r))
         /\ \A s \in Ranks, l \in 0 .. job.e :
              SentFrom(r, s, q) => (SlotOf(r, q) < l <=> q - Place(r, s) < CappedTo(s, r, l))
<1>1. r \in Nat /\ job.e \in Nat \ {0} /\ r * job.e \in Nat
  <2>1. r \in Nat /\ job.e \in Nat \ {0}
    BY JobSizes DEF Ranks, UpTo
  <2> QED
    BY <2>1
<1>2. CASE q < Filled(r)
  <2> DEFINE s == SenderOf(r, q)
             x == expert[s][RowAt(r, q)]
             a == r * job.e
             w == q - Place(r, s)
  <2>1. /\ s \in Ranks /\ RowAt(r, q) \in UpTo(job.n)
        /\ \A l \in 0 .. job.e : w < CappedTo(s, r, l) <=> x < a + l
        /\ a <= x /\ x < a + job.e
    BY <1>2, SourceIs
  <2>2. x \in Nat
    BY <2>1, ExpertNumbers
  <2>3. SlotOf(r, q) = x - a
    BY <1>2 DEF SlotOf
  <2>4. \A t \in Ranks : SentFrom(r, t, q) => s = t
    BY SenderIs
  <2> HIDE DEF s, x, a
  <2>5. x - a \in 0 .. job.e /\ x - a < job.e /\ \A l \in 0 .. job.e : x - a < l <=> x < a + l
    <3>1. a \in Nat
      BY <1>1 DEF a
    <3> QED
      BY <1>1, <2>1, <2>2, <3>1
  <2> QED
    BY <1>2, <2>1, <2>3, <2>4, <2>5
<1>3. CASE ~(q < Filled(r))
  <2>1. \A s \in Ranks : ~SentFrom(r, s, q)
    BY <1>3, OneSender
  <2>2. SlotOf(r, q) = job.e
    BY <1>3 DEF SlotOf
  <2> QED
    BY <1>1, <1>3, <2>1, <2>2
<1> QED
  BY <1>2, <1>3

\* How many places are of the first l experts: those of the senders before s, ...
KeptFrom(r, l) == [t \in Ranks |-> CappedTo(t, r, l)]

\* Their places among those of the first s senders.
LEMMA BelowBefore ==
  ASSUME IsJob(job), InOrder, NEW r \in Ranks, NEW l \in 0 .. job.e, NEW s \in 0 .. job.ranks
  PROVE  LET A == {q \in 0 .. Place(r, s) - 1 : SlotOf(r, q) < l}
         IN  IsFiniteSet(A) /\ Cardinality(A) = SumTo(KeptFrom(r, l), s)
<1> DEFINE A(k) == {q \in 0 .. Place(r, k) - 1 : SlotOf(r, q) < l}
           S == {k \in Nat : k <= job.ranks => IsFiniteSet(A(k)) /\ Cardinality(A(k)) = SumTo(KeptFrom(r, l), k)}
<1>1. job.ranks \in Nat /\ job.e \in Nat /\ l \in Nat
  BY JobSizes
<1>2. 0 \in S
  <2>1. A(0) = {}
    <3>1. Place(r, 0) = 0
      BY PlacesGrow
    <3> QED
      BY <3>1
  <2>2. SumTo(KeptFrom(r, l), 0) = 0
    BY SumStep
  <2> HIDE DEF A
  <2> QED
    BY <2>1, <2>2, FS_EmptySet
<1>3. ASSUME NEW k \in S PROVE k + 1 \in S
  <2>1. SUFFICES ASSUME k + 1 <= job.ranks
                 PROVE  IsFiniteSet(A(k + 1)) /\ Cardinality(A(k + 1)) = SumTo(KeptFrom(r, l), k + 1)
    BY DEF A
  <2>2. k \in Nat /\ k \in Ranks /\ k \in 0 .. job.ranks /\ k + 1 \in 0 .. job.ranks /\ k <= job.ranks
    BY <1>1, <2>1 DEF Ranks, UpTo
  <2>3. IsFiniteSet(A(k)) /\ Cardinality(A(k)) = SumTo(KeptFrom(r, l), k)
    BY <2>2 DEF A
  <2> DEFINE a == Place(r, k)
             b == Place(r, k + 1)
             c == CappedTo(k, r, l)
             C == a .. a + c - 1
  <2>4. a \in Nat /\ b \in Nat /\ b = a + CappedTo(k, r, job.e) /\ c \in Nat /\ c <= CappedTo(k, r, job.e)
        /\ CappedTo(k, r, job.e) \in Nat
    <3>1. a \in Nat /\ b \in Nat /\ b = a + CappedTo(k, r, job.e)
      BY <2>2, PlacesGrow
    <3>2. job.e \in 0 .. job.e /\ l \in 0 .. job.e
      BY <1>1
    <3>3. c \in Nat /\ c <= CappedTo(k, r, job.e) /\ CappedTo(k, r, job.e) \in Nat
      BY <2>2, <3>2, CappedIs
    <3> QED
      BY <3>1, <3>3
  <2>5. ASSUME NEW q \in Nat, a <= q, q < b PROVE SlotOf(r, q) < l <=> q - a < c
    <3>1. SentFrom(r, k, q)
      BY <2>5 DEF SentFrom
    <3> QED
      BY <2>2, <3>1, SlotIs
  <2> HIDE DEF a, b, c
  <2>6. A(k) = {q \in 0 .. a - 1 : SlotOf(r, q) < l} /\ A(k + 1) = {q \in 0 .. b - 1 : SlotOf(r, q) < l}
    BY DEF a, b
  <2> HIDE DEF A
  <2>7. A(k + 1) = A(k) \cup C
    <3>1. ASSUME NEW q PROVE q \in A(k + 1) <=> q \in A(k) \/ q \in C
      <4>1. CASE q \in Nat /\ q < a
        <5>1. q \in A(k) <=> SlotOf(r, q) < l
          BY <2>4, <2>6, <4>1
        <5>2. q \in A(k + 1) <=> SlotOf(r, q) < l
          BY <2>4, <2>6, <4>1
        <5>3. q \notin C
          BY <2>4, <4>1
        <5> QED
          BY <5>1, <5>2, <5>3
      <4>2. CASE q \in Nat /\ a <= q /\ q < b
        <5>1. q \notin A(k)
          BY <2>4, <2>6, <4>2
        <5>2. q \in A(k + 1) <=> q - a < c
          BY <2>4, <2>5, <2>6, <4>2
        <5>3. q \in C <=> q - a < c
          BY <2>4, <4>2
        <5> QED
          BY <5>1, <5>2, <5>3
      <4>3. CASE ~(q \in Nat /\ q < b)
        <5>1. q \notin A(k + 1) /\ q \notin A(k)
          BY <2>4, <2>6, <4>3
        <5>2. q \notin C
          BY <2>4, <4>3
        <5> QED
          BY <5>1, <5>2
      <4> QED
        BY <2>4, <4>1, <4>2, <4>3
    <3> QED
      BY <3>1
  <2>8. A(k) \cap C = {}
    <3>1. \A q \in A(k) : q \in Nat /\ q < a
      BY <2>4, <2>6
    <3>2. \A q \in C : a <= q /\ q \in Int
      BY <2>4
    <3> QED
      BY <2>4, <3>1, <3>2
  <2>9. IsFiniteSet(C) /\ Cardinality(C) = c
    <3>1. a \in Nat /\ a + c \in Nat /\ a <= a + c /\ (a + c) - a = c
      BY <2>4
    <3>2. IsFiniteSet(a .. (a + c) - 1) /\ Cardinality(a .. (a + c) - 1) = (a + c) - a
      BY <3>1, Between
    <3> QED
      BY <3>1, <3>2
  <2> HIDE DEF C
  <2>10. IsFiniteSet(A(k + 1)) /\ Cardinality(A(k + 1)) = Cardinality(A(k)) + c - Cardinality({})
    BY <2>3, <2>7, <2>8, <2>9, FS_Union
  <2>11. Cardinality({}) = 0 /\ Cardinality(A(k)) \in Nat
    BY <2>3, FS_EmptySet, FS_CardinalityType
  <2>12. SumTo(KeptFrom(r, l), k + 1) = SumTo(KeptFrom(r, l), k) + c
    <3>1. KeptFrom(r, l)[k] = c
      BY <2>2 DEF KeptFrom, c
    <3> QED
      BY <2>2, <3>1, SumStep
  <2> QED
    BY <2>3, <2>4, <2>10, <2>11, <2>12
<1>4. S = Nat
  <2> HIDE DEF S
  <2>1. S \in SUBSET Nat
    BY DEF S
  <2> QED
    BY <1>2, <1>3, <2>1, NatSets
<1>5. s \in S
  <2> HIDE DEF S
  <2> QED
    BY <1>1, <1>4
<1> QED
  BY <1>1, <1>5

\* ... and all.
Ending(r, l) == SumTo(KeptFrom(r, l), job.ranks)

\* Their places among all.
LEMMA SlotsBelow ==
  ASSUME IsJob(job), InOrder, NEW r \in Ranks, NEW l \in 0 .. job.e
  PROVE  Cardinality({q \in UpTo(RStatic) : Slots(r)[q] < l}) = Ending(r, l)
<1>1. job.ranks \in 0 .. job.ranks /\ job.e \in Nat
  BY JobSizes
<1>2. Filled(r) \in Nat /\ Filled(r) <= RStatic /\ RStatic \in Nat
  BY PlacesGrow, Room
<1>3. ASSUME NEW q \in UpTo(RStatic) PROVE Slots(r)[q] < l <=> q \in 0 .. Filled(r) - 1 /\ SlotOf(r, q) < l
  <2>1. q \in Nat /\ Slots(r)[q] = SlotOf(r, q)
    BY <1>2 DEF UpTo, Slots
  <2>2. SlotOf(r, q) \in 0 .. job.e /\ (SlotOf(r, q) < job.e <=> q < Filled(r))
    BY <2>1, SlotIs
  <2> QED
    BY <1>1, <1>2, <2>1, <2>2
<1>4. \A q \in 0 .. Filled(r) - 1 : q \in UpTo(RStatic)
  BY <1>2 DEF UpTo
<1>5. {q \in UpTo(RStatic) : Slots(r)[q] < l} = {q \in 0 .. Place(r, job.ranks) - 1 : SlotOf(r, q) < l}
  BY <1>3, <1>4 DEF Filled
<1> QED
  BY <1>1, <1>5, BelowBefore DEF Ending

\* So the places in the order of the experts are those of an expert from one ending to the next.
LEMMA InGroups ==
  ASSUME IsJob(job), InOrder, NEW r \in Ranks
  PROVE  /\ Argsort(Slots(r)) \in [UpTo(RStatic) -> UpTo(RStatic)]
         /\ \A i \in UpTo(RStatic) : \E p \in UpTo(RStatic) : Argsort(Slots(r))[p] = i
         /\ \A p, q \in UpTo(RStatic) : Argsort(Slots(r))[p] = Argsort(Slots(r))[q] => p = q
         /\ \A l \in 0 .. job.e : Ending(r, l) \in 0 .. RStatic
         /\ \A p \in UpTo(RStatic), l \in 0 .. job.e : SlotOf(r, Argsort(Slots(r))[p]) < l <=> p < Ending(r, l)
         /\ Ending(r, 0) = 0 /\ Ending(r, job.e) = Filled(r)
         /\ \A p \in UpTo(RStatic) : p < Filled(r) <=> Argsort(Slots(r))[p] < Filled(r)
<1> DEFINE order == Argsort(Slots(r))
<1>1. RStatic \in Nat /\ job.e \in Nat /\ job.e \in 0 .. job.e /\ 0 \in 0 .. job.e
  BY Room, JobSizes
<1>2. UpTo(RStatic) \in SUBSET Nat
  BY DEF UpTo
<1>3. Slots(r) \in [UpTo(RStatic) -> Int]
  <2>1. \A q \in UpTo(RStatic) : SlotOf(r, q) \in Int
    BY <1>2, SlotIs
  <2> QED
    BY <2>1 DEF Slots
<1>4. /\ order \in [UpTo(RStatic) -> UpTo(RStatic)]
      /\ \A i \in UpTo(RStatic) : \E p \in UpTo(RStatic) : order[p] = i
      /\ \A p, q \in UpTo(RStatic) : order[p] = order[q] => p = q
  BY <1>1, <1>3, Sorts
<1>5. ASSUME NEW l \in 0 .. job.e
      PROVE  Ending(r, l) \in 0 .. RStatic /\ \A p \in UpTo(RStatic) : Slots(r)[order[p]] < l <=> p < Ending(r, l)
  <2>1. Cardinality({q \in UpTo(RStatic) : Slots(r)[q] < l}) = Ending(r, l)
    BY SlotsBelow
  <2>2. l \in Int
    OBVIOUS
  <2> QED
    BY <1>1, <1>3, <2>1, <2>2, SortedBelow
<1> HIDE DEF order
<1>6. \A p \in UpTo(RStatic) : order[p] \in Nat /\ Slots(r)[order[p]] = SlotOf(r, order[p])
  <2>1. \A i \in UpTo(RStatic) : Slots(r)[i] = SlotOf(r, i)
    BY DEF Slots
  <2> QED
    BY <1>2, <1>4, <2>1
<1>7. Ending(r, job.e) = Filled(r)
  BY DEF Ending, Filled, Place, KeptFrom
<1>8. Ending(r, 0) = 0
  <2> DEFINE F == [k \in 0 .. job.ranks |-> 0]
  <2>1. job.ranks \in Nat /\ job.ranks \in 0 .. job.ranks /\ 0 \in 0 .. job.ranks
    BY JobSizes
  <2>2. \A i \in UpTo(job.ranks) : F[i + 1] = F[i] + KeptFrom(r, 0)[i]
    <3> SUFFICES ASSUME NEW i \in UpTo(job.ranks) PROVE F[i + 1] = F[i] + KeptFrom(r, 0)[i]
      OBVIOUS
    <3>1. i \in 0 .. job.ranks /\ i + 1 \in 0 .. job.ranks /\ i \in Ranks
      BY <2>1 DEF UpTo, Ranks
    <3>2. KeptFrom(r, 0)[i] = 0
      BY <1>1, <3>1, CappedIs DEF KeptFrom
    <3> QED
      BY <3>1, <3>2
  <2>3. F[0] = 0 /\ F[job.ranks] = 0
    BY <2>1
  <2> HIDE DEF F
  <2> QED
    BY <2>1, <2>2, <2>3, SumIs DEF Ending
<1>9. ASSUME NEW p \in UpTo(RStatic) PROVE p < Filled(r) <=> order[p] < Filled(r)
  <2>1. SlotOf(r, order[p]) < job.e <=> p < Filled(r)
    BY <1>1, <1>5, <1>6, <1>7
  <2>2. SlotOf(r, order[p]) < job.e <=> order[p] < Filled(r)
    BY <1>6, SlotIs
  <2> QED
    BY <2>1, <2>2
<1> QED
  BY <1>4, <1>5, <1>6, <1>7, <1>8, <1>9 DEF order

\* What is computed with, by the sizes of the groups.
Received(r, l) == SumTo([s \in Ranks |-> received[r][s][l]], job.ranks)

\* A group ends where the rows of its experts and of those before do.
LEMMA GroupsEnd ==
  ASSUME IsJob(job), InOrder, NEW r \in Ranks, Counts(r), NEW l \in UpTo(job.e)
  PROVE  Ending(r, l + 1) = Ending(r, l) + Received(r, l) /\ Received(r, l) \in Nat
<1> DEFINE f == KeptFrom(r, l)
           g == [s \in Ranks |-> received[r][s][l]]
           h == KeptFrom(r, l + 1)
<1>1. job.ranks \in Nat /\ job.e \in Nat /\ Ranks = UpTo(job.ranks)
  BY JobSizes DEF Ranks
<1>2. l \in 0 .. job.e /\ l + 1 \in 0 .. job.e /\ l \in 0 .. l + 1
  BY <1>1 DEF UpTo
<1>3. ASSUME NEW s \in UpTo(job.ranks) PROVE f[s] \in Nat /\ g[s] \in Nat /\ h[s] = f[s] + g[s]
  <2>1. s \in Ranks
    BY <1>1
  <2>2. f[s] = CappedTo(s, r, l) /\ h[s] = CappedTo(s, r, l + 1) /\ g[s] = CappedTo(s, r, l + 1) - CappedTo(s, r, l)
    BY <2>1 DEF KeptFrom, Counts
  <2>3. CappedTo(s, r, l) \in Nat /\ CappedTo(s, r, l + 1) \in Nat /\ CappedTo(s, r, l) <= CappedTo(s, r, l + 1)
    BY <1>2, <2>1, CappedIs
  <2> HIDE DEF f, g, h
  <2> QED
    BY <2>2, <2>3
<1> HIDE DEF f, g, h
<1>4. SumTo(h, job.ranks) = SumTo(f, job.ranks) + SumTo(g, job.ranks)
  BY <1>1, <1>3, SumAdds
<1>5. SumTo(g, job.ranks) \in Nat
  <2>1. job.ranks \in 0 .. job.ranks
    BY <1>1
  <2> QED
    BY <1>1, <1>3, <2>1, SumsGrow
<1> QED
  BY <1>4, <1>5 DEF f, g, h, Ending, Received

\* The groups, with the padding that the last has without MegaBlox.
LEMMA GroupBounds ==
  ASSUME IsJob(job), InOrder, NEW r \in Ranks, Counts(r), NEW unpadded \in BOOLEAN, NEW l \in UpTo(job.e)
  PROVE  /\ SumTo(GroupSizes(r, unpadded), l) = Ending(r, l)
         /\ SumTo(GroupSizes(r, unpadded), l) + GroupSizes(r, unpadded)[l]
              = IF unpadded \/ l < job.e - 1 THEN Ending(r, l + 1) ELSE RStatic
         /\ ~(unpadded \/ l < job.e - 1) => l + 1 = job.e
         /\ GroupSizes(r, unpadded)[l] \in Int
<1> DEFINE real == [m \in UpTo(job.e) |-> SumTo([s \in Ranks |-> received[r][s][m]], job.ranks)]
           sizes == GroupSizes(r, unpadded)
<1>1. job.e \in Nat \ {0} /\ RStatic \in Nat
  BY JobSizes, Room
<1>2. Valid(r) = Filled(r) /\ Filled(r) \in Nat /\ Filled(r) <= RStatic
  BY StartsAre, PlacesGrow
<1>3. \A m \in UpTo(job.e) : real[m] = Received(r, m)
  BY DEF Received
<1>4. sizes = IF unpadded THEN real ELSE [real EXCEPT ![job.e - 1] = @ + RStatic - Valid(r)]
  BY DEF GroupSizes
<1>5. job.e - 1 \in UpTo(job.e) /\ DOMAIN real = UpTo(job.e)
  BY <1>1 DEF UpTo
<1> HIDE DEF real, sizes
<1>6. ASSUME NEW m \in UpTo(job.e)
      PROVE  sizes[m] = IF unpadded \/ m < job.e - 1 THEN Received(r, m) ELSE Received(r, m) + RStatic - Filled(r)
  <2>1. m < job.e - 1 \/ m = job.e - 1
    BY <1>1 DEF UpTo
  <2>2. CASE unpadded
    BY <1>3, <1>4, <2>2
  <2>3. CASE ~unpadded
    <3>1. sizes[m] = IF m = job.e - 1 THEN real[m] + RStatic - Valid(r) ELSE real[m]
      BY <1>4, <1>5, <2>3
    <3>2. m < job.e - 1 => m # job.e - 1
      BY <1>1 DEF UpTo
    <3> QED
      BY <1>2, <1>3, <2>1, <2>3, <3>1, <3>2
  <2> QED
    BY <2>2, <2>3
<1>7. SumTo(sizes, l) = Ending(r, l)
  <2> DEFINE F == [m \in 0 .. l |-> Ending(r, m)]
  <2>1. l \in Nat /\ l < job.e /\ l \in 0 .. l /\ 0 \in 0 .. l
    BY <1>1 DEF UpTo
  <2>2. F[0] = 0
    BY <2>1, InGroups
  <2>3. \A m \in UpTo(l) : F[m + 1] = F[m] + sizes[m]
    <3> SUFFICES ASSUME NEW m \in UpTo(l) PROVE F[m + 1] = F[m] + sizes[m]
      OBVIOUS
    <3>1. m \in 0 .. l /\ m + 1 \in 0 .. l /\ m \in UpTo(job.e) /\ m < job.e - 1
      BY <1>1, <2>1 DEF UpTo
    <3>2. sizes[m] = Received(r, m)
      BY <1>6, <3>1
    <3>3. Ending(r, m + 1) = Ending(r, m) + Received(r, m)
      BY <3>1, GroupsEnd
    <3> QED
      BY <3>1, <3>2, <3>3
  <2>4. SumTo(sizes, l) = F[l]
    <3> HIDE DEF F
    <3> QED
      BY <2>1, <2>2, <2>3, SumIs
  <2> QED
    BY <2>1, <2>4
<1>8. Ending(r, l + 1) = Ending(r, l) + Received(r, l) /\ Received(r, l) \in Nat
  BY GroupsEnd
<1>9. Ending(r, l) \in Nat /\ Ending(r, job.e) = Filled(r)
  <2>1. l \in 0 .. job.e
    BY <1>1 DEF UpTo
  <2>2. Ending(r, l) \in 0 .. RStatic /\ Ending(r, job.e) = Filled(r)
    BY <2>1, InGroups
  <2> QED
    BY <1>1, <2>2
<1>10. ~(l < job.e - 1) => l + 1 = job.e
  BY <1>1 DEF UpTo
<1>11. sizes[l] = IF unpadded \/ l < job.e - 1 THEN Received(r, l) ELSE Received(r, l) + RStatic - Filled(r)
  BY <1>6
<1>12. Ending(r, l) + sizes[l] = IF unpadded \/ l < job.e - 1 THEN Ending(r, l + 1) ELSE RStatic
  <2>1. CASE unpadded \/ l < job.e - 1
    BY <1>8, <1>11, <2>1
  <2>2. CASE ~(unpadded \/ l < job.e - 1)
    <3>1. Ending(r, l) + Received(r, l) = Filled(r)
      BY <1>8, <1>9, <1>10, <2>2
    <3>2. sizes[l] = Received(r, l) + RStatic - Filled(r)
      BY <1>11, <2>2
    <3>3. Ending(r, l) + sizes[l] = RStatic
      BY <1>1, <1>2, <1>8, <1>9, <3>1, <3>2
    <3> QED
      BY <2>2, <3>3
  <2> QED
    BY <2>1, <2>2
<1>13. sizes[l] \in Int
  BY <1>1, <1>2, <1>8, <1>11
<1> QED
  BY <1>7, <1>10, <1>12, <1>13 DEF sizes

\* The rows at the places of an expert are all that were kept for it.
RowsOf(r, l) == {w \in Ranks \X UpTo(job.n) : Kept(w[1], w[2]) /\ expert[w[1]][w[2]] = r * job.e + l}

\* What sorting by the local experts puts there.
LEMMA GroupRows ==
  ASSUME IsJob(job), InOrder, NEW r \in Ranks, NEW l \in UpTo(job.e)
  PROVE  {Source(r, Argsort(Slots(r))[q]) : q \in Ending(r, l) .. Ending(r, l + 1) - 1} = RowsOf(r, l)
<1> DEFINE order == Argsort(Slots(r))
           Q == Ending(r, l) .. Ending(r, l + 1) - 1
<1>1. r \in Nat /\ job.e \in Nat /\ r * job.e \in Nat /\ RStatic \in Nat /\ l \in Nat
      /\ l \in 0 .. job.e /\ l + 1 \in 0 .. job.e /\ job.e \in 0 .. job.e
  <2>1. r \in Nat /\ job.e \in Nat
    BY JobSizes DEF Ranks, UpTo
  <2> QED
    BY <2>1, Room DEF UpTo
<1>2. /\ order \in [UpTo(RStatic) -> UpTo(RStatic)]
      /\ \A i \in UpTo(RStatic) : \E p \in UpTo(RStatic) : order[p] = i
      /\ \A m \in 0 .. job.e : Ending(r, m) \in 0 .. RStatic
      /\ \A p \in UpTo(RStatic), m \in 0 .. job.e : SlotOf(r, order[p]) < m <=> p < Ending(r, m)
      /\ \A p \in UpTo(RStatic) : p < Filled(r) <=> order[p] < Filled(r)
  BY InGroups
<1> HIDE DEF order
<1>3. \A p \in UpTo(RStatic) : order[p] \in Nat /\ p \in Nat /\ SlotOf(r, order[p]) \in 0 .. job.e
  <2>1. \A p \in UpTo(RStatic) : order[p] \in UpTo(RStatic)
    BY <1>2
  <2>2. UpTo(RStatic) \in SUBSET Nat
    BY DEF UpTo
  <2> QED
    BY <2>1, <2>2, SlotIs
<1>4. \A q \in Q : q \in UpTo(RStatic)
  BY <1>1, <1>2 DEF UpTo
<1>5. ASSUME NEW q \in UpTo(RStatic) PROVE q \in Q <=> SlotOf(r, order[q]) = l
  <2>1. SlotOf(r, order[q]) < l <=> q < Ending(r, l)
    BY <1>1, <1>2
  <2>2. SlotOf(r, order[q]) < l + 1 <=> q < Ending(r, l + 1)
    BY <1>1, <1>2
  <2>3. Ending(r, l) \in Nat /\ Ending(r, l + 1) \in Nat
    BY <1>1, <1>2
  <2>4. q \in Nat /\ SlotOf(r, order[q]) \in Nat
    BY <1>1, <1>3
  <2> HIDE DEF Q
  <2>5. q \in Q <=> Ending(r, l) <= q /\ q < Ending(r, l + 1)
    BY <2>3, <2>4 DEF Q
  <2> QED
    BY <1>1, <2>1, <2>2, <2>3, <2>4, <2>5
<1> HIDE DEF Q
<1>6. ASSUME NEW q \in Nat, SlotOf(r, q) = l
      PROVE  q < Filled(r) /\ expert[SenderOf(r, q)][RowAt(r, q)] = r * job.e + l
             /\ SenderOf(r, q) \in Ranks /\ RowAt(r, q) \in UpTo(job.n)
  <2>1. q < Filled(r)
    <3>1. l < job.e
      BY <1>1 DEF UpTo
    <3> QED
      BY <1>6, <3>1, SlotIs
  <2>2. SenderOf(r, q) \in Ranks /\ RowAt(r, q) \in UpTo(job.n)
    BY <2>1, SourceIs
  <2>3. expert[SenderOf(r, q)][RowAt(r, q)] - r * job.e = l
    BY <1>6, <2>1 DEF SlotOf
  <2>4. expert[SenderOf(r, q)][RowAt(r, q)] \in Nat
    BY <2>2, ExpertNumbers
  <2> QED
    BY <1>1, <2>1, <2>2, <2>3, <2>4
<1>7. ASSUME NEW q \in Q PROVE Source(r, order[q]) \in RowsOf(r, l)
  <2>1. order[q] \in Nat /\ SlotOf(r, order[q]) = l
    BY <1>3, <1>4, <1>5
  <2>2. order[q] < Filled(r) /\ SenderOf(r, order[q]) \in Ranks /\ RowAt(r, order[q]) \in UpTo(job.n)
        /\ expert[SenderOf(r, order[q])][RowAt(r, order[q])] = r * job.e + l
    BY <1>6, <2>1
  <2>3. Kept(SenderOf(r, order[q]), RowAt(r, order[q]))
    BY <2>1, <2>2, PlaceIsKept
  <2> QED
    BY <2>2, <2>3 DEF Source, RowsOf
<1>8. ASSUME NEW w \in RowsOf(r, l) PROVE \E q \in Q : Source(r, order[q]) = w
  <2>1. PICK s \in Ranks, i \in UpTo(job.n) : w = <<s, i>> /\ Kept(s, i) /\ expert[s][i] = r * job.e + l
    BY DEF RowsOf
  <2>2. r * job.e <= expert[s][i] /\ expert[s][i] < r * job.e + job.e
    BY <1>1, <2>1 DEF UpTo
  <2>3. PICK k \in Nat : k < Filled(r) /\ SenderOf(r, k) = s /\ RowAt(r, k) = i
    BY <2>1, <2>2, KeptHasPlace
  <2>4. SlotOf(r, k) = l
    BY <1>1, <2>1, <2>3 DEF SlotOf
  <2>5. k \in UpTo(RStatic)
    <3>1. Filled(r) <= RStatic /\ Filled(r) \in Nat
      BY PlacesGrow
    <3> QED
      BY <1>1, <2>3, <3>1 DEF UpTo
  <2>6. PICK q \in UpTo(RStatic) : order[q] = k
    BY <1>2, <2>5
  <2>7. q \in Q
    BY <1>5, <2>4, <2>6
  <2> QED
    BY <2>1, <2>3, <2>6, <2>7 DEF Source
<1>9. {Source(r, order[q]) : q \in Q} = RowsOf(r, l)
  BY <1>7, <1>8
<1> QED
  BY <1>9 DEF order, Q

\* What a rank's experts compute.
Order(r) == Argsort(Slots(r))
Computed(r) == [q \in UpTo(RStatic) |-> IF q < Filled(r) THEN Source(r, Order(r)[q]) ELSE Zero]
Group(r, unpadded, l) ==
  {rows[r][q] : q \in SumTo(GroupSizes(r, unpadded), l)
                        .. SumTo(GroupSizes(r, unpadded), l) + GroupSizes(r, unpadded)[l] - 1}

\* With or without the padding, a group holds its expert's rows.
LEMMA GroupsHold ==
  ASSUME IsJob(job), InOrder, NEW r \in Ranks, Counts(r), rows[r] = Computed(r),
         NEW unpadded \in BOOLEAN, NEW l \in UpTo(job.e)
  PROVE  Group(r, unpadded, l) \ (IF unpadded \/ l < job.e - 1 THEN {} ELSE {Zero}) = RowsOf(r, l)
<1> DEFINE order == Argsort(Slots(r))
           a == Ending(r, l)
           b == Ending(r, l + 1)
           first == SumTo(GroupSizes(r, unpadded), l)
           size == GroupSizes(r, unpadded)[l]
           end == first + size
           few == unpadded \/ l < job.e - 1
<1>1. /\ first = a
      /\ end = IF few THEN b ELSE RStatic
      /\ ~few => l + 1 = job.e
      /\ size \in Int
  BY GroupBounds
<1>2. job.e \in Nat /\ RStatic \in Nat /\ Filled(r) \in Nat /\ Filled(r) <= RStatic
  BY JobSizes, Room, PlacesGrow
<1>3. a \in Nat /\ b \in Nat /\ b <= Filled(r) /\ (~few => b = Filled(r))
  <2>1. l \in 0 .. job.e /\ l + 1 \in 0 .. job.e /\ l + 1 \in Nat /\ l + 1 <= job.e
    BY <1>2 DEF UpTo
  <2>2. a \in 0 .. RStatic /\ b \in 0 .. RStatic /\ Ending(r, job.e) = Filled(r)
    BY <2>1, InGroups
  <2>3. b <= Filled(r)
    <3>1. SUFFICES ASSUME Filled(r) < b PROVE FALSE
      BY <1>2, <2>2
    <3> DEFINE p == Filled(r)
    <3>2. p \in UpTo(RStatic)
      BY <1>2, <2>2, <3>1 DEF UpTo
    <3>3. SlotOf(r, order[p]) < l + 1 /\ ~(SlotOf(r, order[p]) < job.e)
      <4>1. job.e \in 0 .. job.e
        BY <1>2
      <4>2. SlotOf(r, order[p]) < job.e <=> p < Ending(r, job.e)
        BY <3>2, <4>1, InGroups
      <4>3. SlotOf(r, order[p]) < l + 1 <=> p < b
        BY <2>1, <3>2, InGroups
      <4> QED
        BY <1>2, <2>2, <3>1, <4>2, <4>3
    <3>4. SlotOf(r, order[p]) \in 0 .. job.e
      <4>1. order[p] \in UpTo(RStatic)
        BY <3>2, InGroups
      <4>2. order[p] \in Nat
        BY <4>1 DEF UpTo
      <4> QED
        BY <4>2, SlotIs
    <3> QED
      BY <1>2, <2>1, <3>3, <3>4
  <2> QED
    BY <1>1, <2>2, <2>3
<1>4. {Source(r, order[q]) : q \in a .. b - 1} = RowsOf(r, l)
  BY GroupRows
<1>5. \A q \in UpTo(RStatic) : rows[r][q] = IF q < Filled(r) THEN Source(r, order[q]) ELSE Zero
  BY DEF Computed, Order
<1> HIDE DEF order, end, few, first, size
<1>6. \A q \in a .. b - 1 : q \in UpTo(RStatic) /\ q < Filled(r) /\ rows[r][q] = Source(r, order[q])
  <2> HIDE DEF a, b
  <2>1. \A q \in a .. b - 1 : q \in UpTo(RStatic) /\ q < Filled(r)
    BY <1>2, <1>3 DEF UpTo
  <2> QED
    BY <1>5, <2>1
<1>7. {rows[r][q] : q \in a .. b - 1} = RowsOf(r, l)
  <2> HIDE DEF a, b
  <2> QED
    BY <1>4, <1>6
<1>8. Zero \notin RowsOf(r, l)
  <2>1. Zero \in RowsOf(r, l) => -1 \in Ranks
    BY DEF RowsOf, Zero
  <2> QED
    BY <2>1 DEF Ranks, UpTo
<1>9. Group(r, unpadded, l) = {rows[r][q] : q \in a .. end - 1}
  <2>1. Group(r, unpadded, l) = {rows[r][q] : q \in first .. end - 1}
    <3>1. first + (size - 1) = end - 1
      BY <1>1, <1>3 DEF end
    <3>2. Group(r, unpadded, l) = {rows[r][q] : q \in first .. first + (size - 1)}
      BY DEF Group, first, size
    <3> QED
      BY <3>1, <3>2
  <2> QED
    BY <1>1, <2>1
<1>10. CASE few
  <2>1. end = b
    BY <1>1, <1>10
  <2> HIDE DEF a, b
  <2> QED
    BY <1>7, <1>10, <1>9, <2>1 DEF few
<1>11. CASE ~few
  <2>1. end = RStatic /\ b = Filled(r)
    BY <1>1, <1>3, <1>11
  <2> HIDE DEF a, b
  <2>2. ASSUME NEW q \in a .. RStatic - 1, q \notin a .. b - 1 PROVE rows[r][q] = Zero
    <3>1. q \in UpTo(RStatic) /\ ~(q < Filled(r))
      BY <1>2, <1>3, <2>1, <2>2 DEF UpTo
    <3> QED
      BY <1>5, <3>1
  <2>3. \A q \in a .. b - 1 : q \in a .. RStatic - 1
    BY <1>2, <1>3
  <2>4. {rows[r][q] : q \in a .. RStatic - 1} \ {Zero} = {rows[r][q] : q \in a .. b - 1}
    <3>1. \A q \in a .. b - 1 : rows[r][q] # Zero
      BY <1>7, <1>8
    <3> QED
      BY <2>2, <2>3, <3>1
  <2> QED
    BY <1>7, <1>11, <1>9, <2>1, <2>4 DEF few
<1> QED
  BY <1>10, <1>11

-----------------------------------------------------------------------------
(* The two exchanges of rows.                                               *)

\* Each place has one writer, the rank whose row belongs there; the others have none.
LEMMA WritersOf ==
  ASSUME IsJob(job), InOrder, NEW r \in Ranks, NEW q \in Nat, NEW to, NEW counts,
         \A s \in Ranks : counts[r][s] = CappedTo(s, r, job.e) /\ to[s][r] = OrNothing(CappedTo(s, r, job.e), Place(r, s))
  PROVE  {s \in Ranks : q \in to[s][r] .. to[s][r] + counts[r][s] - 1}
           = IF q < Filled(r) THEN {SenderOf(r, q)} ELSE {}
<1>1. ASSUME NEW s \in Ranks PROVE q \in to[s][r] .. to[s][r] + counts[r][s] - 1 <=> SentFrom(r, s, q)
  <2> DEFINE k == CappedTo(s, r, job.e)
             a == Place(r, s)
             b == Place(r, s + 1)
  <2>1. a \in Nat /\ b = a + k
    <3>1. s \in 0 .. job.ranks
      BY JobSizes DEF Ranks, UpTo
    <3> QED
      BY <3>1, PlacesGrow
  <2>2. k \in Nat
    <3>1. job.e \in 0 .. job.e
      BY JobSizes
    <3> QED
      BY <3>1, CappedIs
  <2>3. counts[r][s] = k /\ to[s][r] = IF k > 0 THEN a ELSE 0
    BY DEF OrNothing
  <2>4. SentFrom(r, s, q) <=> a <= q /\ q < b
    BY DEF SentFrom
  <2> HIDE DEF k, a, b
  <2>5. CASE k > 0
    <3>1. q \in a .. a + (k - 1) <=> a <= q /\ q < a + k
      BY <2>1, <2>2
    <3> QED
      BY <2>1, <2>3, <2>4, <2>5, <3>1
  <2>6. CASE ~(k > 0)
    <3>1. k = 0
      BY <2>2, <2>6
    <3>2. ~(q \in 0 .. 0 + (0 - 1))
      OBVIOUS
    <3>3. ~(a <= q /\ q < a + 0)
      BY <2>1
    <3> QED
      BY <2>1, <2>3, <2>4, <3>1, <3>2, <3>3
  <2> QED
    BY <2>5, <2>6
<1>2. CASE q < Filled(r)
  <2>1. SenderOf(r, q) \in Ranks /\ SentFrom(r, SenderOf(r, q), q) /\ \A s \in Ranks : SentFrom(r, s, q) => SenderOf(r, q) = s
    BY <1>2, SenderIs
  <2> QED
    BY <1>1, <1>2, <2>1
<1>3. CASE ~(q < Filled(r))
  <2>1. \A s \in Ranks : ~SentFrom(r, s, q)
    BY <1>3, OneSender
  <2> QED
    BY <1>1, <1>3, <2>1
<1> QED
  BY <1>2, <1>3

\* What each rank has after the rows were sent, and after they were returned.
Landed(r) == [q \in UpTo(RStatic) |-> IF q < Filled(r) THEN Source(r, q) ELSE Zero]
Back(r) == [i \in UpTo(job.n) |-> IF Kept(r, i) THEN <<r, i>> ELSE Zero]
Sizes(r) ==
  /\ \A d \in Ranks : /\ sends[r][d] = CappedTo(r, d, job.e)
                      /\ sendFrom[r][d] = OrNothing(CappedTo(r, d, job.e), FirstOf(r, d * job.e))
  /\ Counts(r)
Offsets(r) ==
  \A d \in Ranks : /\ takeFrom[r][d] = OrNothing(CappedTo(d, r, job.e), Place(r, d))
                   /\ sendTo[r][d] = OrNothing(CappedTo(r, d, job.e), Place(d, r))
                   /\ backTo[r][d] = OrNothing(CappedTo(d, r, job.e), FirstOf(d, r * job.e))

\* Sending the rows puts each where it belongs.
LEMMA RowsLand ==
  ASSUME IsJob(job), InOrder, \A r \in Ranks : Sizes(r) /\ Offsets(r),
         \A r \in Ranks, p \in UpTo(job.n) : rows[r][p] = <<r, p>>, NEW r \in Ranks
  PROVE  RaggedAllToAll(rows, RStatic, sendFrom, sendTo, takes)[r] = Landed(r)
<1> DEFINE W(q) == {s \in Ranks : q \in sendTo[s][r] .. sendTo[s][r] + takes[r][s] - 1}
           S(q) == CHOOSE s \in W(q) : \A t \in W(q) : t <= s
           e(q) == IF W(q) = {} THEN Zero ELSE rows[S(q)][sendFrom[S(q)][r] + q - sendTo[S(q)][r]]
<1>1. RaggedAllToAll(rows, RStatic, sendFrom, sendTo, takes)[r] = [q \in UpTo(RStatic) |-> e(q)]
  BY DEF RaggedAllToAll, ForRanks
<1>2. ASSUME NEW q \in UpTo(RStatic) PROVE e(q) = IF q < Filled(r) THEN Source(r, q) ELSE Zero
  <2>1. q \in Nat
    <3>1. RStatic \in Nat
      BY Room
    <3> QED
      BY <3>1 DEF UpTo
  <2>2. \A s \in Ranks : takes[r][s] = CappedTo(s, r, job.e) /\ sendTo[s][r] = OrNothing(CappedTo(s, r, job.e), Place(r, s))
    BY DEF Sizes, Offsets, Counts
  <2>3. W(q) = IF q < Filled(r) THEN {SenderOf(r, q)} ELSE {}
    BY <2>1, <2>2, WritersOf
  <2> HIDE DEF W
  <2>4. CASE ~(q < Filled(r))
    BY <2>3, <2>4
  <2>5. CASE q < Filled(r)
    <3> DEFINE s == SenderOf(r, q)
    <3>1. /\ s \in Ranks /\ q - Place(r, s) \in Nat /\ q - Place(r, s) < CappedTo(s, r, job.e)
          /\ RowAt(r, q) \in UpTo(job.n) /\ RowAt(r, q) = FirstOf(s, r * job.e) + (q - Place(r, s))
      BY <2>1, <2>5, SourceIs
    <3>2. S(q) = s
      <4>1. W(q) = {s} /\ s \in Nat
        BY <2>3, <2>5, <3>1 DEF Ranks, UpTo
      <4> HIDE DEF s
      <4>2. \A t \in W(q) : t <= s
        BY <4>1
      <4> QED
        BY <4>1, <4>2
    <3>3. CappedTo(s, r, job.e) > 0
      <4>1. job.e \in 0 .. job.e
        BY JobSizes
      <4>2. CappedTo(s, r, job.e) \in Nat
        BY <3>1, <4>1, CappedIs
      <4> QED
        BY <3>1, <4>2
    <3>4. sendFrom[s][r] = FirstOf(s, r * job.e) /\ sendTo[s][r] = Place(r, s)
      BY <3>1, <3>3 DEF Sizes, Offsets, OrNothing
    <3> HIDE DEF s, S
    <3>5. e(q) = rows[s][RowAt(r, q)]
      BY <2>3, <2>5, <3>1, <3>2, <3>4
    <3>6. rows[s][RowAt(r, q)] = <<s, RowAt(r, q)>>
      BY <3>1
    <3> QED
      BY <2>5, <3>5, <3>6 DEF Source, s
  <2> QED
    BY <2>4, <2>5
<1> HIDE DEF e
<1> QED
  BY <1>1, <1>2 DEF Landed

\* The rows of the experts, put back in place.
LEMMA RowsPutBack ==
  ASSUME IsJob(job), InOrder, NEW r \in Ranks, Counts(r), NEW written,
         \A q \in UpTo(RStatic) : q < Filled(r) => written[q] = Source(r, Argsort(Slots(r))[q]),
         NEW index, index = Argsort(Argsort(Slots(r)))
  PROVE  Permute(r, written, index) = Landed(r)
<1> DEFINE order == Argsort(Slots(r))
<1>1. RStatic \in Nat
  BY Room
<1>2. /\ order \in [UpTo(RStatic) -> UpTo(RStatic)]
      /\ \A i \in UpTo(RStatic) : \E p \in UpTo(RStatic) : order[p] = i
      /\ \A p, q \in UpTo(RStatic) : order[p] = order[q] => p = q
      /\ \A p \in UpTo(RStatic) : p < Filled(r) <=> order[p] < Filled(r)
  BY InGroups
<1> HIDE DEF order
<1>3. index \in [UpTo(RStatic) -> UpTo(RStatic)] /\ \A p \in UpTo(RStatic) : order[index[p]] = p
  BY <1>1, <1>2, SortsBack DEF order
<1>4. Valid(r) = Filled(r)
  BY StartsAre
<1>5. ASSUME NEW q \in UpTo(RStatic), q < Filled(r) PROVE written[index[q]] = Source(r, q)
  <2>1. index[q] \in UpTo(RStatic) /\ order[index[q]] = q
    BY <1>3
  <2>2. index[q] < Filled(r)
    BY <1>2, <1>5, <2>1
  <2> QED
    BY <2>1, <2>2 DEF order
<1>6. \A q \in UpTo(RStatic) : (IF q < Valid(r) THEN written[index[q]] ELSE Zero) = IF q < Filled(r) THEN Source(r, q) ELSE Zero
  BY <1>4, <1>5
<1> QED
  BY <1>6 DEF Permute, Landed

\* The experts of the kept rows that a rank gets back in a place.
LEMMA RowsReturn ==
  ASSUME IsJob(job), InOrder, \A r \in Ranks : Sizes(r) /\ Offsets(r),
         \A r \in Ranks : rows[r] = Landed(r), NEW r \in Ranks
  PROVE  RaggedAllToAll(rows, job.n, takeFrom, backTo, sends)[r] = Back(r)
<1> DEFINE W(i) == {s \in Ranks : i \in backTo[s][r] .. backTo[s][r] + sends[r][s] - 1}
           S(i) == CHOOSE s \in W(i) : \A t \in W(i) : t <= s
           e(i) == IF W(i) = {} THEN Zero ELSE rows[S(i)][takeFrom[S(i)][r] + i - backTo[S(i)][r]]
<1>1. RaggedAllToAll(rows, job.n, takeFrom, backTo, sends)[r] = [i \in UpTo(job.n) |-> e(i)]
  BY DEF RaggedAllToAll, ForRanks
<1>2. job.e \in Nat \ {0} /\ job.n \in Nat /\ job.ranks \in Nat \ {0} /\ job.e \in 0 .. job.e
      /\ \A s \in Ranks : s \in Nat /\ s * job.e \in Nat
  <2>1. job.e \in Nat \ {0} /\ job.n \in Nat /\ job.ranks \in Nat \ {0}
    BY JobSizes
  <2>2. \A s \in Ranks : s \in Nat
    BY <2>1 DEF Ranks, UpTo
  <2> QED
    BY <2>1, <2>2
<1>3. ASSUME NEW i \in UpTo(job.n) PROVE e(i) = IF Kept(r, i) THEN <<r, i>> ELSE Zero
  <2> DEFINE x == expert[r][i]
             h == x \div job.e
  <2>1. x \in Nat /\ x < job.ranks * job.e /\ i \in Nat
    BY <1>2, ExpertNumbers DEF UpTo
  <2>2. h \in Ranks
    <3>1. h \in Nat /\ x % job.e \in 0 .. job.e - 1 /\ x = job.e * h + (x % job.e)
      BY <1>2, <2>1, DivMod
    <3>2. h * job.e <= x
      BY <1>2, <2>1, <3>1, RankOfExpert
    <3>3. h < job.ranks
      <4>1. SUFFICES ASSUME job.ranks <= h PROVE FALSE
        BY <1>2, <3>1
      <4>2. job.ranks * job.e <= h * job.e
        BY <1>2, <3>1, <4>1, Times
      <4>3. job.ranks * job.e \in Nat /\ h * job.e \in Nat
        BY <1>2, <3>1
      <4> QED
        BY <2>1, <3>2, <4>2, <4>3
    <3> QED
      BY <1>2, <3>1, <3>3 DEF Ranks, UpTo
  <2>3. \A s \in Ranks : h = s <=> s * job.e <= x /\ x < s * job.e + job.e
    BY <1>2, <2>1, RankOfExpert
  <2>4. ASSUME NEW s \in Ranks PROVE i \in backTo[s][r] .. backTo[s][r] + sends[r][s] - 1 <=> h = s /\ Kept(r, i)
    <3> DEFINE k == CappedTo(r, s, job.e)
               b == FirstOf(r, s * job.e)
               c == FirstOf(r, s * job.e + job.e)
    <3>1. sends[r][s] = k /\ backTo[s][r] = IF k > 0 THEN b ELSE 0
      BY DEF Sizes, Offsets, OrNothing
    <3>2. k \in Nat /\ Given(r, s, job.e) \in Nat /\ k <= Given(r, s, job.e) /\ Given(r, s, job.e) = c - b
      <4>1. k \in Nat /\ Given(r, s, job.e) \in Nat
            /\ k = IF Given(r, s, job.e) < Cap THEN Given(r, s, job.e) ELSE Cap
        BY <1>2, CappedIs
      <4>2. Cap \in Nat
        BY Room
      <4> HIDE DEF k
      <4> QED
        BY <4>1, <4>2 DEF Given
    <3>3. b \in Nat /\ c \in Nat /\ (x < s * job.e <=> i < b) /\ (x < s * job.e + job.e <=> i < c)
      BY <1>2, FirstRows
    <3>4. h = s => b <= i /\ (Kept(r, i) <=> i - b < k)
      BY <2>3, KeptIs
    <3> HIDE DEF k, b, c, h
    <3>5. ASSUME b <= i, i < b + k PROVE h = s
      <4>1. i < c /\ ~(i < b)
        BY <2>1, <3>2, <3>3, <3>5
      <4>2. s * job.e <= x /\ x < s * job.e + job.e
        <5>1. ~(x < s * job.e) /\ x < s * job.e + job.e
          BY <3>3, <4>1
        <5>2. s * job.e \in Nat
          BY <1>2
        <5> HIDE DEF x
        <5> QED
          BY <2>1, <5>1, <5>2
      <4> QED
        BY <2>3, <4>2
    <3>6. i \in backTo[s][r] .. backTo[s][r] + (sends[r][s] - 1) <=> b <= i /\ i < b + k
      <4>1. CASE k > 0
        <5>1. i \in b .. b + (k - 1) <=> b <= i /\ i < b + k
          BY <2>1, <3>2, <3>3
        <5> QED
          BY <3>1, <4>1, <5>1
      <4>2. CASE ~(k > 0)
        <5>1. k = 0
          BY <3>2, <4>2
        <5>2. ~(i \in 0 .. 0 + (0 - 1))
          OBVIOUS
        <5>3. ~(b <= i /\ i < b + 0)
          BY <2>1, <3>3
        <5> QED
          BY <3>1, <5>1, <5>2, <5>3
      <4> QED
        BY <4>1, <4>2
    <3>7. b <= i => (i - b < k <=> i < b + k)
      BY <2>1, <3>2, <3>3
    <3> QED
      BY <3>4, <3>5, <3>6, <3>7
  <2>5. W(i) = IF Kept(r, i) THEN {h} ELSE {}
    <3> HIDE DEF h
    <3> QED
      BY <2>2, <2>4
  <2> HIDE DEF W
  <2>6. CASE ~Kept(r, i)
    BY <2>5, <2>6
  <2>7. CASE Kept(r, i)
    <3> DEFINE b == FirstOf(r, h * job.e)
               q == Place(h, r) + (i - b)
    <3>1. h * job.e <= x /\ x < h * job.e + job.e
      BY <2>2, <2>3
    <3> HIDE DEF h
    <3>2. S(i) = h
      <4>1. W(i) = {h} /\ h \in Nat
        BY <1>2, <2>2, <2>5, <2>7
      <4>2. \A t \in W(i) : t <= h
        BY <4>1
      <4> QED
        BY <4>1, <4>2
    <3>3. q \in Nat /\ q < Filled(h) /\ SenderOf(h, q) = r /\ RowAt(h, q) = i
      BY <2>2, <2>7, <3>1, KeptHasPlace
    <3>4. CappedTo(r, h, job.e) > 0
      <4>1. b \in Nat /\ b <= i /\ i - b < CappedTo(r, h, job.e)
        BY <2>2, <2>7, <3>1, KeptIs
      <4>2. CappedTo(r, h, job.e) \in Nat
        BY <1>2, <2>2, CappedIs
      <4> HIDE DEF b
      <4> QED
        BY <2>1, <4>1, <4>2
    <3>5. takeFrom[h][r] = Place(h, r) /\ backTo[h][r] = b
      BY <2>2, <3>4 DEF Offsets, OrNothing
    <3> HIDE DEF S
    <3>6. e(i) = rows[h][q]
      BY <2>2, <2>5, <2>7, <3>2, <3>5
    <3> HIDE DEF q
    <3>7. q \in UpTo(RStatic)
      <4>1. Filled(h) <= RStatic /\ Filled(h) \in Nat /\ RStatic \in Nat
        BY <2>2, PlacesGrow, Room
      <4> QED
        BY <3>3, <4>1 DEF UpTo
    <3>8. rows[h][q] = Source(h, q)
      <4>1. rows[h] = Landed(h)
        BY <2>2
      <4> QED
        BY <3>3, <3>7, <4>1 DEF Landed
    <3> QED
      BY <2>7, <3>3, <3>6, <3>8 DEF Source
  <2> QED
    BY <2>6, <2>7
<1> HIDE DEF e
<1> QED
  BY <1>1, <1>3 DEF Back

-----------------------------------------------------------------------------
(* The invariant of the dispatch, and its steps.                            *)

\* The invariant: what is known after each of the steps.
Exchanged == {"offsets", "sort", "send", "permute", "experts", "return", "done"}
Moving == {"send", "permute", "experts", "return", "done"}
Tallied(r) ==
  \A d \in Ranks : /\ total[r][d] = Given(r, d, job.e)
                   /\ \A l \in UpTo(job.e) : capped[r][d][l] = CappedTo(r, d, l + 1) - CappedTo(r, d, l)
Own(r) == [p \in UpTo(job.n) |-> <<r, p>>]
RowsAre ==
  \A r \in Ranks :
    /\ at \in {"count", "sizes", "offsets", "sort", "send"} => rows[r] = Own(r)
    /\ at \in {"permute", "return"} => rows[r] = Landed(r)
    /\ at = "experts" => rows[r] = Computed(r)
    /\ at = "done" => rows[r] = Back(r)
DispatchInv ==
  /\ IsJob(job)
  /\ at \in {"reorder", "count", "sizes"} \cup Exchanged
  /\ at # "reorder" => InOrder
  /\ at \in {"sizes"} \cup Exchanged => \A r \in Ranks : Tallied(r)
  /\ at \in Exchanged => \A r \in Ranks : Sizes(r)
  /\ at \in {"sort"} \cup Moving => \A r \in Ranks : Offsets(r) /\ slots[r] = Slots(r)
  /\ at \in Moving => \A r \in Ranks : perm[r] = Order(r) /\ inverse[r] = Argsort(Order(r))
  /\ RowsAre

\* What is computed of the job and the order of the rows alone stays while they do.
LEMMA DispatchStays ==
  ASSUME job' = job, expert' = expert
  PROVE  /\ Ranks' = Ranks /\ RStatic' = RStatic /\ (IsJob(job)' <=> IsJob(job)) /\ (InOrder' <=> InOrder)
         /\ \A r, v : FirstOf(r, v)' = FirstOf(r, v)
         /\ \A r, d, l : CappedTo(r, d, l)' = CappedTo(r, d, l)
         /\ \A r, d, l : Given(r, d, l)' = Given(r, d, l)
         /\ \A r, s : Place(r, s)' = Place(r, s)
         /\ \A r : Slots(r)' = Slots(r) /\ Order(r)' = Order(r) /\ Own(r)' = Own(r)
         /\ \A r : Landed(r)' = Landed(r) /\ Computed(r)' = Computed(r) /\ Back(r)' = Back(r)
<1>1. Ranks' = Ranks /\ Cap' = Cap /\ RStatic' = RStatic /\ (IsJob(job)' <=> IsJob(job)) /\ (InOrder' <=> InOrder)
  BY DEF Ranks, RStatic, Cap, IsJob, InOrder
<1>2. \A r, v : FirstOf(r, v)' = FirstOf(r, v)
  BY DEF FirstOf
<1>3. \A r, d, l : CappedTo(r, d, l)' = CappedTo(r, d, l)
  <2>1. \A d, l : ExpertsOf(d, l)' = ExpertsOf(d, l)
    BY DEF ExpertsOf
  <2>2. \A r, S : Routed(r, S)' = Routed(r, S)
    BY DEF Routed
  <2>3. \A r, d, l : Routed(r, ExpertsOf(d, l))' = Routed(r, ExpertsOf(d, l))
    BY <2>1, <2>2
  <2> QED
    BY <1>1, <2>3 DEF CappedTo
<1>4. \A r, d, l : Given(r, d, l)' = Given(r, d, l)
  BY <1>2 DEF Given
<1>5. \A r, s : Place(r, s)' = Place(r, s)
  BY <1>1, <1>3 DEF Place
<1>6. \A r : Filled(r)' = Filled(r)
  BY <1>5 DEF Filled
<1>7. \A r, s, q : SentFrom(r, s, q)' <=> SentFrom(r, s, q)
  BY <1>5 DEF SentFrom
<1>8. \A r, q : SenderOf(r, q)' = SenderOf(r, q)
  BY <1>1, <1>7 DEF SenderOf
<1>9. \A r, q : RowAt(r, q)' = RowAt(r, q)
  BY <1>2, <1>5, <1>8 DEF RowAt
<1>10. \A r, q : Source(r, q)' = Source(r, q)
  BY <1>8, <1>9 DEF Source
<1>11. \A r, q : SlotOf(r, q)' = SlotOf(r, q)
  BY <1>6, <1>8, <1>9 DEF SlotOf
<1>12. \A r : Slots(r)' = Slots(r)
  BY <1>1, <1>11 DEF Slots
<1>13. \A r : Order(r)' = Order(r)
  BY <1>12 DEF Order
<1>14. \A r : Landed(r)' = Landed(r)
  BY <1>1, <1>6, <1>10 DEF Landed
<1>15. \A r : Computed(r)' = Computed(r)
  BY <1>1, <1>6, <1>10, <1>13 DEF Computed
<1>16. \A r, i : Kept(r, i)' <=> Kept(r, i)
  BY <1>1 DEF Kept
<1>17. \A r : Back(r)' = Back(r) /\ Own(r)' = Own(r)
  BY <1>1, <1>16 DEF Back, Own
<1> QED
  BY <1>1, <1>2, <1>3, <1>4, <1>5, <1>12, <1>13, <1>14, <1>15, <1>17

\* So does what is said of the counts and the offsets while those do.
LEMMA TablesStay ==
  ASSUME job' = job, expert' = expert
  PROVE  /\ total' = total /\ capped' = capped => \A r : Tallied(r)' <=> Tallied(r)
         /\ sends' = sends /\ sendFrom' = sendFrom /\ received' = received /\ takes' = takes => \A r : Sizes(r)' <=> Sizes(r)
         /\ sendTo' = sendTo /\ takeFrom' = takeFrom /\ backTo' = backTo => \A r : Offsets(r)' <=> Offsets(r)
<1>1. /\ Ranks' = Ranks
      /\ \A r, v : FirstOf(r, v)' = FirstOf(r, v)
      /\ \A r, d, l : CappedTo(r, d, l)' = CappedTo(r, d, l)
      /\ \A r, d, l : Given(r, d, l)' = Given(r, d, l)
      /\ \A r, s : Place(r, s)' = Place(r, s)
  BY DispatchStays
<1>2. ASSUME total' = total, capped' = capped PROVE \A r : Tallied(r)' <=> Tallied(r)
  BY <1>1, <1>2 DEF Tallied
<1>3. ASSUME sends' = sends, sendFrom' = sendFrom, received' = received, takes' = takes
      PROVE  \A r : Sizes(r)' <=> Sizes(r)
  BY <1>1, <1>3 DEF Sizes, Counts
<1>4. ASSUME sendTo' = sendTo, takeFrom' = takeFrom, backTo' = backTo PROVE \A r : Offsets(r)' <=> Offsets(r)
  BY <1>1, <1>4 DEF Offsets
<1> QED
  BY <1>2, <1>3, <1>4

\* The invariant holds before the first step.
LEMMA DispatchStart ==
  ASSUME NEW j \in DispatchJobs, DispatchInit(j)
  PROVE  DispatchInv
<1>1. IsJob(job)
  BY DispatchAssumption DEF DispatchInit, IsJob
<1>2. at = "reorder"
  BY DEF DispatchInit
<1> QED
  BY <1>1, <1>2 DEF DispatchInv, RowsAre, Exchanged, Moving

\* Sorting its routes by their experts puts each rank's rows in order.
LEMMA ReorderStep ==
  ASSUME DispatchInv, NEW routes \in Routes, Reorder(routes)
  PROVE  DispatchInv'
<1>1. IsJob(job) /\ job' = job /\ at' = "count" /\ job.n \in Nat /\ job.ranks * job.e \in Nat
  <2>1. IsJob(job) /\ job' = job /\ at' = "count"
    BY DEF DispatchInv, Reorder
  <2>2. job.n \in Nat /\ job.ranks \in Nat /\ job.e \in Nat
    BY <2>1, JobSizes
  <2> QED
    BY <2>1, <2>2
<1>2. Ranks' = Ranks /\ (IsJob(job)' <=> IsJob(job))
  BY <1>1 DEF Ranks, IsJob
<1>3. \A r \in Ranks : routes[r] \in [UpTo(job.n) -> UpTo(job.ranks * job.e)]
  BY DEF Routes
<1>4. ASSUME NEW r \in Ranks
      PROVE  /\ expert'[r] \in [UpTo(job.n) -> UpTo(job.ranks * job.e)]
             /\ \A i, j \in UpTo(job.n) : i < j => expert'[r][i] <= expert'[r][j]
  <2> DEFINE order == Argsort(routes[r])
  <2>1. routes[r] \in [UpTo(job.n) -> Int]
    <3>1. UpTo(job.ranks * job.e) \in SUBSET Int
      BY DEF UpTo
    <3> QED
      BY <1>3, <3>1
  <2>2. /\ order \in [UpTo(job.n) -> UpTo(job.n)]
        /\ \A p, q \in UpTo(job.n) : p < q => routes[r][order[p]] <= routes[r][order[q]]
    BY <1>1, <2>1, Sorts
  <2>3. expert'[r] = [p \in UpTo(job.n) |-> routes[r][order[p]]]
    BY DEF Reorder, ForRanks
  <2> HIDE DEF order
  <2> QED
    BY <1>3, <2>2, <2>3
<1>5. expert' \in [Ranks -> [UpTo(job.n) -> UpTo(job.ranks * job.e)]]
  <2>1. expert' = [r \in Ranks |-> expert'[r]]
    BY DEF Reorder, ForRanks
  <2> QED
    BY <1>4, <2>1
<1>6. InOrder'
  BY <1>1, <1>2, <1>4, <1>5 DEF InOrder
<1>7. \A r \in Ranks : rows'[r] = [p \in UpTo(job.n) |-> <<r, p>>]
  BY DEF Reorder, ForRanks
<1>8. RowsAre'
  BY <1>1, <1>2, <1>7 DEF RowsAre, Own
<1> QED
  BY <1>1, <1>2, <1>6, <1>8 DEF DispatchInv, Exchanged, Moving

\* What is counted is what the ranks give and keep.
LEMMA CountStep ==
  ASSUME DispatchInv, Count
  PROVE  DispatchInv'
<1>1. at = "count" /\ at' = "sizes" /\ job' = job /\ expert' = expert /\ rows' = rows /\ IsJob(job) /\ InOrder
  BY DEF DispatchInv, Count
<1>2. /\ Ranks' = Ranks /\ (IsJob(job)' <=> IsJob(job)) /\ (InOrder' <=> InOrder)
      /\ \A r, d, l : CappedTo(r, d, l)' = CappedTo(r, d, l)
      /\ \A r, d, l : Given(r, d, l)' = Given(r, d, l)
      /\ \A r : Own(r)' = Own(r)
  BY <1>1, DispatchStays
<1>3. ASSUME NEW r \in Ranks, NEW d \in Ranks
      PROVE  /\ total'[r][d] = Given(r, d, job.e)
             /\ \A l \in UpTo(job.e) : capped'[r][d][l] = CappedTo(r, d, l + 1) - CappedTo(r, d, l)
  <2>1. job.e \in 0 .. job.e
    BY <1>1, JobSizes
  <2>2. total'[r][d] = Routed(r, ExpertsOf(d, job.e))
    BY DEF Count, ForPairs
  <2>3. Routed(r, ExpertsOf(d, job.e)) = Given(r, d, job.e)
    BY <1>1, <2>1, RoutedIs DEF Given
  <2>4. capped'[r][d] = [l \in UpTo(job.e) |-> CappedTo(r, d, l + 1) - CappedTo(r, d, l)]
    BY DEF Count, ForPairs
  <2> QED
    BY <2>2, <2>3, <2>4
<1>4. \A r \in Ranks : Tallied(r)'
  BY <1>1, <1>2, <1>3 DEF Tallied
<1>5. RowsAre'
  BY <1>1, <1>2 DEF RowsAre, DispatchInv
<1> QED
  BY <1>1, <1>2, <1>4, <1>5 DEF DispatchInv, Exchanged, Moving

\* The counts exchanged are those of the other side, the starts those of all rows.
LEMMA ExchangeCountsStep ==
  ASSUME DispatchInv, ExchangeCounts
  PROVE  DispatchInv'
<1>1. /\ at = "sizes" /\ at' = "offsets" /\ job' = job /\ expert' = expert /\ rows' = rows /\ IsJob(job) /\ InOrder
      /\ total' = total /\ capped' = capped /\ \A r \in Ranks : Tallied(r)
  BY DEF DispatchInv, ExchangeCounts
<1>2. /\ Ranks' = Ranks /\ (IsJob(job)' <=> IsJob(job)) /\ (InOrder' <=> InOrder)
      /\ \A r, v : FirstOf(r, v)' = FirstOf(r, v)
      /\ \A r, d, l : CappedTo(r, d, l)' = CappedTo(r, d, l)
      /\ \A r : Own(r)' = Own(r)
  BY <1>1, DispatchStays
<1>3. \A r : Tallied(r)' <=> Tallied(r)
  BY <1>1, TablesStay
<1>4. job.e \in Nat /\ job.ranks \in Nat /\ job.e \in 0 .. job.e /\ Ranks = UpTo(job.ranks)
  BY <1>1, JobSizes DEF Ranks
<1>5. ASSUME NEW r \in Ranks, NEW d \in Ranks PROVE SumTo(capped[r][d], job.e) = CappedTo(r, d, job.e)
  <2> DEFINE F == [l \in 0 .. job.e |-> CappedTo(r, d, l)]
  <2>1. F[0] = 0 /\ \A l \in 0 .. job.e : F[l] \in Nat
    BY <1>1, <1>4, CappedIs
  <2>2. \A l \in UpTo(job.e) : F[l + 1] = F[l] + capped[r][d][l]
    <3> SUFFICES ASSUME NEW l \in UpTo(job.e) PROVE F[l + 1] = F[l] + capped[r][d][l]
      OBVIOUS
    <3>1. l \in 0 .. job.e /\ l + 1 \in 0 .. job.e
      BY <1>4 DEF UpTo
    <3>2. capped[r][d][l] = F[l + 1] - F[l]
      BY <1>1, <3>1 DEF Tallied
    <3> HIDE DEF F
    <3> QED
      BY <2>1, <3>1, <3>2
  <2>3. SumTo(capped[r][d], job.e) = F[job.e]
    <3> HIDE DEF F
    <3> QED
      BY <1>4, <2>1, <2>2, SumIs
  <2> QED
    BY <1>4, <2>3
<1>6. ASSUME NEW r \in Ranks, NEW d \in 0 .. job.ranks PROVE Start(r, d) = FirstOf(r, d * job.e)
  <2> DEFINE F == [c \in 0 .. job.ranks |-> FirstOf(r, c * job.e)]
  <2>1. F[0] = 0
    <3>1. 0 \in 0 .. job.ranks /\ 0 * job.e = 0
      BY <1>4
    <3> QED
      BY <1>1, <3>1, FirstEnds
  <2>2. \A c \in UpTo(job.ranks) : F[c + 1] = F[c] + total[r][c]
    <3> SUFFICES ASSUME NEW c \in UpTo(job.ranks) PROVE F[c + 1] = F[c] + total[r][c]
      OBVIOUS
    <3>1. c \in Ranks /\ c \in Nat /\ c \in 0 .. job.ranks /\ c + 1 \in 0 .. job.ranks
      BY <1>4 DEF UpTo
    <3>2. total[r][c] = FirstOf(r, c * job.e + job.e) - FirstOf(r, c * job.e)
      BY <1>1, <3>1 DEF Tallied, Given
    <3>3. (c + 1) * job.e = c * job.e + job.e /\ c * job.e \in Nat
      BY <1>4, <3>1
    <3>4. FirstOf(r, c * job.e + job.e) \in Nat /\ FirstOf(r, c * job.e) \in Nat
      <4>1. job.n \in Nat /\ c * job.e \in Int /\ c * job.e + job.e \in Int
        BY <1>1, <1>4, <3>3, JobSizes
      <4> QED
        BY <1>1, <4>1, FirstRows
    <3>5. F[c + 1] = FirstOf(r, c * job.e + job.e) /\ F[c] = FirstOf(r, c * job.e)
      BY <3>1, <3>3
    <3> HIDE DEF F
    <3> QED
      BY <3>2, <3>4, <3>5
  <2>3. SumTo(total[r], d) = F[d]
    <3> HIDE DEF F
    <3> QED
      BY <1>4, <2>1, <2>2, SumIs
  <2> QED
    BY <2>3 DEF Start
<1>7. ASSUME NEW r \in Ranks, NEW d \in Ranks
      PROVE  /\ sends'[r][d] = CappedTo(r, d, job.e)
             /\ sendFrom'[r][d] = OrNothing(CappedTo(r, d, job.e), FirstOf(r, d * job.e))
             /\ takes'[r][d] = CappedTo(d, r, job.e)
             /\ \A l \in UpTo(job.e) : received'[r][d][l] = CappedTo(d, r, l + 1) - CappedTo(d, r, l)
  <2>1. /\ sends'[r][d] = SumTo(capped[r][d], job.e)
        /\ sendFrom'[r][d] = OrNothing(SumTo(capped[r][d], job.e), Start(r, d))
        /\ takes'[r][d] = SumTo(capped[d][r], job.e)
        /\ received'[r][d] = capped[d][r]
    BY DEF ExchangeCounts, ForPairs
  <2>2. d \in 0 .. job.ranks
    BY <1>4 DEF UpTo
  <2> QED
    BY <1>1, <1>5, <1>6, <2>1, <2>2 DEF Tallied
<1>8. \A r \in Ranks : Sizes(r)'
  BY <1>1, <1>2, <1>7 DEF Sizes, Counts
<1>9. RowsAre'
  BY <1>1, <1>2 DEF RowsAre, DispatchInv
<1> QED
  BY <1>1, <1>2, <1>3, <1>8, <1>9 DEF DispatchInv, Exchanged, Moving

\* The offsets exchanged are the places on the other side.
LEMMA ExchangeOffsetsStep ==
  ASSUME DispatchInv, ExchangeOffsets
  PROVE  DispatchInv'
<1>1. /\ at = "offsets" /\ at' = "sort" /\ job' = job /\ expert' = expert /\ rows' = rows /\ IsJob(job) /\ InOrder
      /\ total' = total /\ capped' = capped /\ \A r \in Ranks : Tallied(r)
      /\ sends' = sends /\ sendFrom' = sendFrom /\ received' = received /\ takes' = takes /\ \A r \in Ranks : Sizes(r)
  BY DEF DispatchInv, ExchangeOffsets, Exchanged
<1>2. /\ Ranks' = Ranks /\ (IsJob(job)' <=> IsJob(job)) /\ (InOrder' <=> InOrder)
      /\ \A r, v : FirstOf(r, v)' = FirstOf(r, v)
      /\ \A r, d, l : CappedTo(r, d, l)' = CappedTo(r, d, l)
      /\ \A r, s : Place(r, s)' = Place(r, s)
      /\ \A r : Own(r)' = Own(r) /\ Slots(r)' = Slots(r)
  BY <1>1, DispatchStays
<1>3. \A r : (Tallied(r)' <=> Tallied(r)) /\ (Sizes(r)' <=> Sizes(r))
  BY <1>1, TablesStay
<1>4. ASSUME NEW r \in Ranks, NEW d \in Ranks
      PROVE  takeFrom'[r][d] = OrNothing(CappedTo(d, r, job.e), Place(r, d))
  <2>1. takeFrom'[r][d] = OrNothing(takes[r][d], TakeStart(r, d))
    BY DEF ExchangeOffsets, ForPairs
  <2>2. d \in 0 .. job.ranks
    BY <1>1, JobSizes DEF Ranks, UpTo
  <2>3. TakeStart(r, d) = Place(r, d)
    BY <1>1, <2>2, StartsAre DEF Sizes
  <2> QED
    BY <1>1, <2>1, <2>3 DEF Sizes, Counts
<1>5. ASSUME NEW r \in Ranks, NEW d \in Ranks
      PROVE  /\ sendTo'[r][d] = OrNothing(CappedTo(r, d, job.e), Place(d, r))
             /\ backTo'[r][d] = OrNothing(CappedTo(d, r, job.e), FirstOf(d, r * job.e))
  <2>1. /\ sendTo'[r][d] = OrNothing(sends[r][d], takeFrom'[d][r])
        /\ backTo'[r][d] = OrNothing(takes[r][d], sendFrom[d][r])
    BY DEF ExchangeOffsets, ForPairs
  <2>2. /\ sends[r][d] = CappedTo(r, d, job.e) /\ takes[r][d] = CappedTo(d, r, job.e)
        /\ sendFrom[d][r] = OrNothing(CappedTo(d, r, job.e), FirstOf(d, r * job.e))
    BY <1>1 DEF Sizes, Counts
  <2> QED
    BY <1>4, <2>1, <2>2 DEF OrNothing
<1>6. \A r \in Ranks : Offsets(r)'
  BY <1>1, <1>2, <1>4, <1>5 DEF Offsets
<1>7. ASSUME NEW r \in Ranks PROVE slots'[r] = Slots(r)
  <2>1. slots'[r] = [q \in UpTo(RStatic) |-> SlotExpert(r, q)]
    BY DEF ExchangeOffsets, ForRanks
  <2>2. \A q \in UpTo(RStatic) : SlotExpert(r, q) = SlotOf(r, q)
    <3>1. UpTo(RStatic) \in SUBSET Nat
      BY DEF UpTo
    <3> QED
      BY <1>1, <3>1, SlotsAre DEF Sizes, SlotOf
  <2> QED
    BY <2>1, <2>2 DEF Slots
<1>8. RowsAre'
  BY <1>1, <1>2 DEF RowsAre, DispatchInv
<1>9. \A r \in Ranks' : slots'[r] = Slots(r)'
  BY <1>2, <1>7
<1> QED
  BY <1>1, <1>2, <1>3, <1>6, <1>8, <1>9 DEF DispatchInv, Exchanged, Moving

\* The slots are sorted by their experts.
LEMMA SortSlotsStep ==
  ASSUME DispatchInv, SortSlots
  PROVE  DispatchInv'
<1>1. /\ at = "sort" /\ at' = "send" /\ job' = job /\ expert' = expert /\ rows' = rows /\ IsJob(job) /\ InOrder
      /\ total' = total /\ capped' = capped /\ \A r \in Ranks : Tallied(r)
      /\ sends' = sends /\ sendFrom' = sendFrom /\ received' = received /\ takes' = takes /\ \A r \in Ranks : Sizes(r)
      /\ sendTo' = sendTo /\ takeFrom' = takeFrom /\ backTo' = backTo
      /\ slots' = slots /\ \A r \in Ranks : Offsets(r) /\ slots[r] = Slots(r)
  BY DEF DispatchInv, SortSlots, Exchanged
<1>2. /\ Ranks' = Ranks /\ (IsJob(job)' <=> IsJob(job)) /\ (InOrder' <=> InOrder)
      /\ \A r : Own(r)' = Own(r) /\ Slots(r)' = Slots(r) /\ Order(r)' = Order(r)
  BY <1>1, DispatchStays
<1>3. \A r : (Tallied(r)' <=> Tallied(r)) /\ (Sizes(r)' <=> Sizes(r)) /\ (Offsets(r)' <=> Offsets(r))
  BY <1>1, TablesStay
<1>4. \A r \in Ranks : perm'[r] = Order(r) /\ inverse'[r] = Argsort(Order(r))
  <2> SUFFICES ASSUME NEW r \in Ranks PROVE perm'[r] = Order(r) /\ inverse'[r] = Argsort(Order(r))
    OBVIOUS
  <2>1. perm'[r] = Argsort(slots[r]) /\ inverse'[r] = Argsort(perm'[r])
    BY DEF SortSlots, ForRanks, Undo
  <2> QED
    BY <1>1, <2>1 DEF Order
<1>5. RowsAre'
  BY <1>1, <1>2 DEF RowsAre, DispatchInv
<1>6. \A r \in Ranks' : slots'[r] = Slots(r)' /\ perm'[r] = Order(r)' /\ inverse'[r] = Argsort(Order(r)')
  BY <1>1, <1>2, <1>4
<1> QED
  BY <1>1, <1>2, <1>3, <1>5, <1>6 DEF DispatchInv, Exchanged, Moving

\* The tables stay while the rows move, so that only the rows are to be looked at.
Tables == <<job, expert, total, capped, sends, sendFrom, sendTo, received, takes, takeFrom, backTo, slots, perm, inverse>>

\* A step that moves the rows alone keeps the invariant if they get where they belong.
LEMMA MovingStep ==
  ASSUME DispatchInv, at \in Moving, at' \in Moving, UNCHANGED Tables,
         \A r \in Ranks : /\ at' = "send" => rows'[r] = Own(r)
                          /\ at' \in {"permute", "return"} => rows'[r] = Landed(r)
                          /\ at' = "experts" => rows'[r] = Computed(r)
                          /\ at' = "done" => rows'[r] = Back(r)
  PROVE  DispatchInv'
<1>1. /\ job' = job /\ expert' = expert /\ total' = total /\ capped' = capped
      /\ sends' = sends /\ sendFrom' = sendFrom /\ received' = received /\ takes' = takes
      /\ sendTo' = sendTo /\ takeFrom' = takeFrom /\ backTo' = backTo
      /\ slots' = slots /\ perm' = perm /\ inverse' = inverse
  BY DEF Tables
<1>2. /\ IsJob(job) /\ InOrder
      /\ \A r \in Ranks : Tallied(r) /\ Sizes(r) /\ Offsets(r) /\ slots[r] = Slots(r)
      /\ \A r \in Ranks : perm[r] = Order(r) /\ inverse[r] = Argsort(Order(r))
  BY DEF DispatchInv, Moving, Exchanged
<1>3. /\ Ranks' = Ranks /\ (IsJob(job)' <=> IsJob(job)) /\ (InOrder' <=> InOrder)
      /\ \A r : Own(r)' = Own(r) /\ Slots(r)' = Slots(r) /\ Order(r)' = Order(r)
      /\ \A r : Landed(r)' = Landed(r) /\ Computed(r)' = Computed(r) /\ Back(r)' = Back(r)
  BY <1>1, DispatchStays
<1>4. \A r : (Tallied(r)' <=> Tallied(r)) /\ (Sizes(r)' <=> Sizes(r)) /\ (Offsets(r)' <=> Offsets(r))
  BY <1>1, TablesStay
<1>5. RowsAre'
  BY <1>3 DEF RowsAre, Moving
<1>6. \A r \in Ranks' : slots'[r] = Slots(r)' /\ perm'[r] = Order(r)' /\ inverse'[r] = Argsort(Order(r)')
  BY <1>1, <1>2, <1>3
<1>7. at' \in Exchanged /\ at' # "reorder"
  BY DEF Moving, Exchanged
<1>8. \A r \in Ranks' : Tallied(r)' /\ Sizes(r)' /\ Offsets(r)'
  BY <1>2, <1>3, <1>4
<1> QED
  BY <1>2, <1>3, <1>5, <1>6, <1>7, <1>8 DEF DispatchInv

\* What is known while the rows move.
LEMMA WhileMoving ==
  ASSUME DispatchInv, at \in Moving
  PROVE  /\ IsJob(job) /\ InOrder
         /\ \A r \in Ranks : Sizes(r) /\ Counts(r) /\ Offsets(r) /\ perm[r] = Order(r) /\ inverse[r] = Argsort(Order(r))
  BY DEF DispatchInv, Moving, Exchanged, Sizes

\* The rows are sent to the ranks of their experts.
LEMMA SendRowsStep ==
  ASSUME DispatchInv, SendRows
  PROVE  DispatchInv'
<1>1. at = "send" /\ at' = "permute" /\ at \in Moving /\ at' \in Moving /\ UNCHANGED Tables
  BY DEF SendRows, Moving, Tables
<1>2. IsJob(job) /\ InOrder /\ \A r \in Ranks : Sizes(r) /\ Offsets(r)
  BY <1>1, WhileMoving
<1>3. \A r \in Ranks, p \in UpTo(job.n) : rows[r][p] = <<r, p>>
  BY <1>1 DEF DispatchInv, RowsAre, Own
<1>4. \A r \in Ranks : rows'[r] = Landed(r)
  <2>1. rows' = RaggedAllToAll(rows, RStatic, sendFrom, sendTo, takes)
    BY DEF SendRows
  <2>2. \A r \in Ranks : RaggedAllToAll(rows, RStatic, sendFrom, sendTo, takes)[r] = Landed(r)
    BY <1>2, <1>3, RowsLand
  <2> QED
    BY <2>1, <2>2
<1> QED
  BY <1>1, <1>4, MovingStep

\* The landed rows are put in the order of the experts.
LEMMA PermuteRowsStep ==
  ASSUME DispatchInv, PermuteRows
  PROVE  DispatchInv'
<1>1. at = "permute" /\ at' = "experts" /\ at \in Moving /\ at' \in Moving /\ UNCHANGED Tables
  BY DEF PermuteRows, Moving, Tables
<1>2. IsJob(job) /\ InOrder /\ \A r \in Ranks : Counts(r) /\ perm[r] = Order(r)
  BY <1>1, WhileMoving
<1>3. \A r \in Ranks : rows[r] = Landed(r)
  BY <1>1 DEF DispatchInv, RowsAre
<1>4. ASSUME NEW r \in Ranks PROVE rows'[r] = Computed(r)
  <2>1. rows'[r] = Permute(r, rows[r], perm[r])
    BY DEF PermuteRows, ForRanks
  <2>2. Valid(r) = Filled(r)
    BY <1>2, StartsAre
  <2>3. ASSUME NEW q \in UpTo(RStatic), q < Filled(r) PROVE rows[r][perm[r][q]] = Source(r, Order(r)[q])
    <3>1. Order(r)[q] \in UpTo(RStatic) /\ Order(r)[q] < Filled(r)
      BY <1>2, <2>3, InGroups DEF Order
    <3>2. perm[r] = Order(r) /\ rows[r] = Landed(r)
      BY <1>2, <1>3
    <3> QED
      BY <3>1, <3>2 DEF Landed
  <2>4. \A q \in UpTo(RStatic) : (IF q < Valid(r) THEN rows[r][perm[r][q]] ELSE Zero)
                                   = IF q < Filled(r) THEN Source(r, Order(r)[q]) ELSE Zero
    BY <2>2, <2>3
  <2> QED
    BY <2>1, <2>4 DEF Permute, Computed
<1> QED
  BY <1>1, <1>4, MovingStep

\* The experts' rows are put back where they landed.
LEMMA RunExpertsStep ==
  ASSUME DispatchInv, RunExperts
  PROVE  DispatchInv'
<1>1. at = "experts" /\ at' = "return" /\ at \in Moving /\ at' \in Moving /\ UNCHANGED Tables
  BY DEF RunExperts, Moving, Tables
<1>2. IsJob(job) /\ InOrder /\ \A r \in Ranks : Counts(r) /\ inverse[r] = Argsort(Order(r))
  BY <1>1, WhileMoving
<1>3. \A r \in Ranks : rows[r] = Computed(r)
  BY <1>1 DEF DispatchInv, RowsAre
<1>4. ASSUME NEW r \in Ranks PROVE rows'[r] = Landed(r)
  <2> DEFINE written == [q \in UpTo(RStatic) |-> IF q < Valid(r) THEN rows[r][q] ELSE Junk]
  <2>1. rows'[r] = Permute(r, written, inverse[r])
    BY DEF RunExperts, ForRanks
  <2>2. Valid(r) = Filled(r)
    BY <1>2, StartsAre
  <2>3. \A q \in UpTo(RStatic) : q < Filled(r) => written[q] = Source(r, Argsort(Slots(r))[q])
    BY <1>3, <2>2 DEF Computed, Order
  <2>4. inverse[r] = Argsort(Argsort(Slots(r)))
    BY <1>2 DEF Order
  <2> HIDE DEF written
  <2> QED
    BY <1>2, <2>1, <2>3, <2>4, RowsPutBack
<1> QED
  BY <1>1, <1>4, MovingStep

\* Every rank has its kept rows back in place.
LEMMA ReturnRowsStep ==
  ASSUME DispatchInv, ReturnRows
  PROVE  DispatchInv'
<1>1. at = "return" /\ at' = "done" /\ at \in Moving /\ at' \in Moving /\ UNCHANGED Tables
  BY DEF ReturnRows, Moving, Tables
<1>2. IsJob(job) /\ InOrder /\ \A r \in Ranks : Sizes(r) /\ Offsets(r)
  BY <1>1, WhileMoving
<1>3. \A r \in Ranks : rows[r] = Landed(r)
  BY <1>1 DEF DispatchInv, RowsAre
<1>4. \A r \in Ranks : rows'[r] = Back(r)
  <2>1. rows' = RaggedAllToAll(rows, job.n, takeFrom, backTo, sends)
    BY DEF ReturnRows
  <2>2. \A r \in Ranks : RaggedAllToAll(rows, job.n, takeFrom, backTo, sends)[r] = Back(r)
    BY <1>2, <1>3, RowsReturn
  <2> QED
    BY <2>1, <2>2
<1> QED
  BY <1>1, <1>4, MovingStep

\* The gradients start where the rows did.
LEMMA GradientsStep ==
  ASSUME DispatchInv, Backward
  PROVE  DispatchInv'
<1>1. at = "done" /\ at' = "send" /\ at \in Moving /\ at' \in Moving /\ UNCHANGED Tables
  BY DEF Backward, Moving, Tables
<1>2. \A r \in Ranks : rows'[r] = Own(r)
  BY DEF Backward, ForRanks, Own
<1> QED
  BY <1>1, <1>2, MovingStep

\* A step that changes nothing keeps all that is known.
LEMMA DispatchRests ==
  ASSUME DispatchInv, UNCHANGED dispatchvars
  PROVE  DispatchInv'
<1>1. /\ at' = at /\ job' = job /\ expert' = expert /\ total' = total /\ capped' = capped
      /\ sends' = sends /\ sendFrom' = sendFrom /\ received' = received /\ takes' = takes
      /\ sendTo' = sendTo /\ takeFrom' = takeFrom /\ backTo' = backTo
      /\ slots' = slots /\ perm' = perm /\ inverse' = inverse /\ rows' = rows
  BY DEF dispatchvars
<1>2. /\ Ranks' = Ranks /\ (IsJob(job)' <=> IsJob(job)) /\ (InOrder' <=> InOrder)
      /\ \A r : Own(r)' = Own(r) /\ Slots(r)' = Slots(r) /\ Order(r)' = Order(r)
      /\ \A r : Landed(r)' = Landed(r) /\ Computed(r)' = Computed(r) /\ Back(r)' = Back(r)
  BY <1>1, DispatchStays
<1>3. \A r : (Tallied(r)' <=> Tallied(r)) /\ (Sizes(r)' <=> Sizes(r)) /\ (Offsets(r)' <=> Offsets(r))
  BY <1>1, TablesStay
<1>4. RowsAre'
  BY <1>1, <1>2 DEF RowsAre, DispatchInv
<1>5. at' \in Moving => \A r \in Ranks' : perm'[r] = Order(r)' /\ inverse'[r] = Argsort(Order(r)')
  BY <1>1, <1>2 DEF DispatchInv
<1>6. at' \in {"sort"} \cup Moving => \A r \in Ranks' : Offsets(r)' /\ slots'[r] = Slots(r)'
  BY <1>1, <1>2, <1>3 DEF DispatchInv
<1> QED
  BY <1>1, <1>2, <1>3, <1>4, <1>5, <1>6 DEF DispatchInv

\* The invariant says where the rows are when the experts compute and at the end.
LEMMA RowsFollow ==
  ASSUME DispatchInv
  PROVE  RowsGoAndComeBack
<1>1. ASSUME at = "experts", NEW r \in Ranks, NEW unpadded \in BOOLEAN, NEW l \in UpTo(job.e)
      PROVE  LET sizes == GroupSizes(r, unpadded)
                 first == SumTo(sizes, l)
                 group == {rows[r][q] : q \in first .. first + sizes[l] - 1}
             IN  group \ (IF unpadded \/ l < job.e - 1 THEN {} ELSE {Zero})
                   = {w \in Ranks \X UpTo(job.n) : Kept(w[1], w[2]) /\ expert[w[1]][w[2]] = r * job.e + l}
  <2>1. at \in Moving
    BY <1>1 DEF Moving
  <2>2. IsJob(job) /\ InOrder /\ Counts(r)
    BY <2>1, WhileMoving
  <2>3. rows[r] = Computed(r)
    BY <1>1 DEF DispatchInv, RowsAre
  <2>4. Group(r, unpadded, l) \ (IF unpadded \/ l < job.e - 1 THEN {} ELSE {Zero}) = RowsOf(r, l)
    BY <2>2, <2>3, GroupsHold
  <2> QED
    BY <2>4 DEF Group, RowsOf
<1>2. ASSUME at = "done", NEW r \in Ranks, NEW i \in UpTo(job.n)
      PROVE  rows[r][i] = IF Kept(r, i) THEN <<r, i>> ELSE Zero
  <2>1. rows[r] = Back(r)
    BY <1>2 DEF DispatchInv, RowsAre
  <2> QED
    BY <2>1 DEF Back
<1> QED
  BY <1>1, <1>2 DEF RowsGoAndComeBack

\* TpuRaggedEPTokenDispatcher: for every number of ranks, experts and routes, every
\* capacity and every choice of the router, the experts compute exactly the rows
\* that were routed to them and kept, and every rank has its kept rows back in their
\* places, forward and backward.
THEOREM EveryRowComesBack == DispatchSpec => []RowsGoAndComeBack
<1>1. (\E j \in DispatchJobs : DispatchInit(j)) => DispatchInv
  BY DispatchStart
<1>2. DispatchInv /\ [DispatchNext]_dispatchvars => DispatchInv'
  <2> SUFFICES ASSUME DispatchInv, [DispatchNext]_dispatchvars PROVE DispatchInv'
    OBVIOUS
  <2>1. ASSUME NEW routes \in Routes, Reorder(routes) PROVE DispatchInv'
    BY <2>1, ReorderStep
  <2>2. CASE Count
    BY <2>2, CountStep
  <2>3. CASE ExchangeCounts
    BY <2>3, ExchangeCountsStep
  <2>4. CASE ExchangeOffsets
    BY <2>4, ExchangeOffsetsStep
  <2>5. CASE SortSlots
    BY <2>5, SortSlotsStep
  <2>6. CASE SendRows
    BY <2>6, SendRowsStep
  <2>7. CASE PermuteRows
    BY <2>7, PermuteRowsStep
  <2>8. CASE RunExperts
    BY <2>8, RunExpertsStep
  <2>9. CASE ReturnRows
    BY <2>9, ReturnRowsStep
  <2>10. CASE Backward
    BY <2>10, GradientsStep
  <2>11. CASE UNCHANGED dispatchvars
    BY <2>11, DispatchRests
  <2> QED
    BY <2>1, <2>2, <2>3, <2>4, <2>5, <2>6, <2>7, <2>8, <2>9, <2>10, <2>11 DEF DispatchNext
<1>3. DispatchInv => RowsGoAndComeBack
  BY RowsFollow
<1> QED
  BY <1>1, <1>2, <1>3, PTL DEF DispatchSpec
=============================================================================
