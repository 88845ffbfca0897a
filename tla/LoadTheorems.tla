---------------------------- MODULE LoadTheorems ----------------------------
(***************************************************************************)
(* Facts about LoadOf: it is a natural number, it grows with the set and   *)
(* with the sizes, it depends only on the sizes of the members, and a new   *)
(* member adds exactly its size; sums add up, may be taken in either order, *)
(* and count a set by the parts of a partition.  And a fact about numbers,  *)
(* for induction by the least counterexample.                               *)
(***************************************************************************)
EXTENDS Load, FiniteSetTheorems, FunctionTheorems, WellFoundedInduction, TLAPS

\* A set of natural numbers has a least member.
LEMMA LeastMember ==
  ASSUME NEW S \in SUBSET Nat, S # {}
  PROVE  \E n \in S : \A m \in S : ~(m < n)
<1>1. IsWellFoundedOn(OpToRel(<, Nat), Nat)
  BY NatLessThanWellFounded
<1>2. PICK n \in S : \A m \in S : ~(<<m, n>> \in OpToRel(<, Nat))
  BY <1>1, WFMin
<1>3. QED
  BY <1>2 DEF OpToRel

\* A finite set of numbers has a greatest.
LEMMA GreatestMember ==
  ASSUME NEW T, T \subseteq Nat, IsFiniteSet(T), T # {}
  PROVE  \E m \in T : \A x \in T : x <= m
<1> DEFINE Bad(U) == U \subseteq Nat /\ IsFiniteSet(U) /\ U # {} /\ ~\E m \in U : \A x \in U : x <= m
           sizes == {n \in Nat : \E U : Bad(U) /\ Cardinality(U) = n}
<1>1. SUFFICES ASSUME NEW U, Bad(U) PROVE FALSE
  OBVIOUS
<1>2. Cardinality(U) \in sizes
  BY <1>1, FS_CardinalityType
<1>3. PICK n \in sizes : \A m \in sizes : ~(m < n)
  <2>1. sizes \in SUBSET Nat /\ sizes # {}
    BY <1>2
  <2>2. QED
    BY <2>1, LeastMember
<1>4. PICK V : Bad(V) /\ Cardinality(V) = n
  BY <1>3
<1>5. PICK v \in V : TRUE
  BY <1>4
<1>6. IsFiniteSet(V \ {v}) /\ Cardinality(V \ {v}) = n - 1 /\ n \in Nat /\ n - 1 \in Nat
  <2>1. IsFiniteSet(V \ {v}) /\ Cardinality(V \ {v}) = n - 1
    BY <1>4, <1>5, FS_RemoveElement
  <2>2. QED
    BY <1>4, <2>1, FS_CardinalityType
<1>7. ~Bad(V \ {v})
  <2>1. n - 1 < n
    BY <1>6
  <2>2. n - 1 \notin sizes
    BY <1>3, <2>1
  <2>3. QED
    BY <1>6, <2>2
<1>8. CASE V \ {v} = {}
  <2>1. \A x \in V : x = v
    BY <1>8
  <2>2. QED
    BY <1>4, <1>5, <2>1
<1>9. CASE V \ {v} # {}
  <2>1. PICK m \in V \ {v} : \A x \in V \ {v} : x <= m
    BY <1>4, <1>6, <1>7, <1>9
  <2>2. CASE v <= m
    <3>1. \A x \in V : x <= m
      BY <2>1, <2>2
    <3>2. QED
      BY <1>4, <2>1, <3>1
  <2>3. CASE ~(v <= m)
    <3>1. \A x \in V : x <= v
      BY <1>4, <2>1, <2>3
    <3>2. QED
      BY <1>4, <1>5, <3>1
  <2>4. QED
    BY <2>2, <2>3
<1>10. QED
  BY <1>8, <1>9

\* Finitely many members of natural size occupy finitely many cells.
LEMMA CellsFinite ==
  ASSUME NEW S, IsFiniteSet(S), NEW size, \A x \in S : size[x] \in Nat
  PROVE  IsFiniteSet(Cells(S, size))
<1> DEFINE cellsOf == [x \in S |-> {x} \X (1..size[x])]
           T == {{x} \X (1..size[x]) : x \in S}
<1>1. cellsOf \in Surjection(S, T)
  BY DEF Surjection
<1>2. IsFiniteSet(T)
  BY <1>1, FS_Surjection
<1>3. ASSUME NEW U \in T PROVE IsFiniteSet(U)
  <2>1. PICK x \in S : U = {x} \X (1..size[x])
    OBVIOUS
  <2>2. IsFiniteSet({x})
    BY FS_Singleton
  <2>4. size[x] \in Int
    OBVIOUS
  <2>5. IsFiniteSet(1..size[x])
    BY <2>4, FS_Interval
  <2>3. QED
    BY <2>1, <2>2, <2>5, FS_Product
<1>4. QED
  BY <1>2, <1>3, FS_UNION DEF Cells

LEMMA LoadIsNat ==
  ASSUME NEW S, IsFiniteSet(S), NEW size, \A x \in S : size[x] \in Nat
  PROVE  LoadOf(S, size) \in Nat
BY CellsFinite, FS_CardinalityType DEF LoadOf

\* Fewer members occupy no more.
LEMMA LoadMonotone ==
  ASSUME NEW S, IsFiniteSet(S), NEW size, \A x \in S : size[x] \in Nat,
         NEW R \in SUBSET S
  PROVE  LoadOf(R, size) <= LoadOf(S, size)
<1>1. Cells(R, size) \subseteq Cells(S, size)
  BY DEF Cells
<1>2. QED
  BY <1>1, CellsFinite, FS_Subset DEF LoadOf

\* A new member occupies exactly size[x] cells more.
LEMMA LoadAddsSize ==
  ASSUME NEW S, IsFiniteSet(S), NEW x, x \notin S, NEW size,
         \A y \in S \cup {x} : size[y] \in Nat
  PROVE  LoadOf(S \cup {x}, size) = LoadOf(S, size) + size[x]
<1> DEFINE own == {x} \X (1..size[x])
<1>1. Cells(S \cup {x}, size) = Cells(S, size) \cup own
  BY DEF Cells
<1>2. Cells(S, size) \cap own = {}
  BY DEF Cells
<1>3. IsFiniteSet({x}) /\ Cardinality({x}) = 1
  BY FS_Singleton
<1>4. IsFiniteSet(1..size[x]) /\ Cardinality(1..size[x]) = size[x]
  BY FS_Interval
<1>5. IsFiniteSet(own) /\ Cardinality(own) = size[x]
  BY <1>3, <1>4, FS_Product
<1>6. IsFiniteSet(Cells(S, size)) /\ Cardinality(Cells(S, size)) \in Nat
  BY CellsFinite, FS_CardinalityType
<1>7. Cardinality(Cells(S, size) \cup own)
        = Cardinality(Cells(S, size)) + Cardinality(own) - Cardinality({})
  BY <1>2, <1>5, <1>6, FS_Union
<1>8. Cardinality({}) = 0
  BY FS_EmptySet
<1>9. size[x] \in Nat
  OBVIOUS
<1> HIDE DEF own
<1>10. Cardinality(Cells(S, size) \cup own) = Cardinality(Cells(S, size)) + size[x]
  BY <1>5, <1>6, <1>7, <1>8, <1>9
<1>11. QED
  BY <1>1, <1>10 DEF LoadOf

\* Only the sizes of the members count.
LEMMA LoadCongruent ==
  ASSUME NEW S, NEW f, NEW g, \A x \in S : f[x] = g[x]
  PROVE  LoadOf(S, f) = LoadOf(S, g)
<1>1. {{x} \X (1..f[x]) : x \in S} = {{x} \X (1..g[x]) : x \in S}
  OBVIOUS
<1>2. QED
  BY <1>1 DEF LoadOf, Cells

\* What is nowhere more adds up to no more.
LEMMA LoadOrdered ==
  ASSUME NEW S, IsFiniteSet(S), NEW f, NEW g, \A x \in S : f[x] \in Nat /\ g[x] \in Nat /\ f[x] <= g[x]
  PROVE  LoadOf(S, f) <= LoadOf(S, g)
<1>1. Cells(S, f) \subseteq Cells(S, g)
  BY DEF Cells
<1>2. IsFiniteSet(Cells(S, g))
  BY CellsFinite
<1>3. QED
  BY <1>1, <1>2, FS_Subset DEF LoadOf

\* No member is smaller and one is larger: more cells.
LEMMA LoadStrict ==
  ASSUME NEW S, IsFiniteSet(S), NEW f, NEW g, \A x \in S : f[x] \in Nat /\ g[x] \in Nat /\ f[x] <= g[x],
         NEW z \in S, f[z] < g[z]
  PROVE  LoadOf(S, f) < LoadOf(S, g)
<1> DEFINE last == <<z, g[z]>>
<1>1. \A x \in S : {x} \X (1..f[x]) \subseteq {x} \X (1..g[x])
  OBVIOUS
<1>2. Cells(S, f) \subseteq Cells(S, g)
  BY <1>1 DEF Cells
<1>3. last \in Cells(S, g)
  BY DEF Cells
<1>4. last \notin Cells(S, f)
  BY DEF Cells
<1>5. IsFiniteSet(Cells(S, g)) /\ IsFiniteSet(Cells(S, f))
  BY CellsFinite
<1>6. /\ Cardinality(Cells(S, f)) <= Cardinality(Cells(S, g))
      /\ Cardinality(Cells(S, f)) # Cardinality(Cells(S, g))
  BY <1>2, <1>3, <1>4, <1>5, FS_Subset
<1>7. Cardinality(Cells(S, f)) \in Nat /\ Cardinality(Cells(S, g)) \in Nat
  BY <1>5, FS_CardinalityType
<1>8. QED
  BY <1>6, <1>7 DEF LoadOf

\* All members alike.
LEMMA LoadConstant ==
  ASSUME NEW S, IsFiniteSet(S), NEW f, NEW c \in Nat, \A x \in S : f[x] = c
  PROVE  LoadOf(S, f) = Cardinality(S) * c
<1>1. Cells(S, f) = S \X (1..c)
  BY DEF Cells
<1>2. IsFiniteSet(1..c) /\ Cardinality(1..c) = c
  BY FS_Interval
<1>3. QED
  BY <1>1, <1>2, FS_Product DEF LoadOf

\* The sum over nothing.
LEMMA LoadOfNone == \A f : LoadOf({}, f) = 0
<1>1. \A f : Cells({}, f) = {}
  BY DEF Cells
<1>2. QED
  BY <1>1, FS_EmptySet DEF LoadOf

\* How many numbers, and how many pairs with one first member, there are.
LEMMA CountTo == ASSUME NEW n \in Nat PROVE IsFiniteSet(1..n) /\ Cardinality(1..n) = n
BY FS_Interval

LEMMA CountWith ==
  ASSUME NEW x, NEW T, IsFiniteSet(T)
  PROVE  IsFiniteSet({x} \X T) /\ Cardinality({x} \X T) = Cardinality(T)
<1>1. IsFiniteSet({x}) /\ Cardinality({x}) = 1 /\ Cardinality(T) \in Nat
  BY FS_Singleton, FS_CardinalityType
<1>2. IsFiniteSet({x} \X T) /\ Cardinality({x} \X T) = 1 * Cardinality(T)
  BY <1>1, FS_Product
<1>3. QED
  BY <1>1, <1>2

\* A sum of zeros and ones.
LEMMA LoadIndicator ==
  ASSUME NEW S, NEW f, \A x \in S : f[x] \in {0, 1}, IsFiniteSet(S)
  PROVE  LoadOf(S, f) = Cardinality({x \in S : f[x] = 1})
<1> DEFINE T == {x \in S : f[x] = 1}
<1>1. Cells(S, f) = T \X (1..1)
  BY DEF Cells
<1>2. IsFiniteSet(T) /\ Cardinality(T) \in Nat
  BY FS_Subset, FS_CardinalityType
<1>3. IsFiniteSet(1..1) /\ Cardinality(1..1) = 1
  BY CountTo
<1> HIDE DEF T
<1>4. Cardinality(T \X (1..1)) = Cardinality(T) * 1
  BY <1>2, <1>3, FS_Product
<1>5. QED
  BY <1>1, <1>2, <1>4 DEF LoadOf, T

\* A sum is positive if a member is.
LEMMA LoadPositive ==
  ASSUME NEW S, IsFiniteSet(S), NEW size, \A x \in S : size[x] \in Nat
  PROVE  LoadOf(S, size) > 0 <=> \E x \in S : size[x] > 0
<1> DEFINE zero == [x \in S |-> 0]
<1>1. LoadOf(S, zero) = Cardinality(S) * 0 /\ Cardinality(S) \in Nat
  BY LoadConstant, FS_CardinalityType
<1>2. LoadOf(S, size) \in Nat
  BY LoadIsNat
<1>3. ASSUME \A x \in S : ~(size[x] > 0) PROVE LoadOf(S, size) = 0
  <2>1. \A x \in S : size[x] = zero[x]
    BY <1>3
  <2> HIDE DEF zero
  <2>2. QED
    BY <1>1, <2>1, LoadCongruent
<1>4. ASSUME NEW z \in S, size[z] > 0 PROVE LoadOf(S, size) > 0
  <2>1. \A x \in S : zero[x] = 0
    OBVIOUS
  <2> HIDE DEF zero
  <2>2. LoadOf(S, zero) < LoadOf(S, size)
    BY <1>4, <2>1, LoadStrict
  <2>3. QED
    BY <1>1, <1>2, <2>2
<1>5. QED
  BY <1>2, <1>3, <1>4

\* Members of no more than c each.
LEMMA LoadAtMost ==
  ASSUME NEW S, IsFiniteSet(S), NEW size, NEW c \in Nat, \A x \in S : size[x] \in Nat /\ size[x] <= c
  PROVE  LoadOf(S, size) \in Nat /\ LoadOf(S, size) <= Cardinality(S) * c
<1> DEFINE all == [x \in S |-> c]
<1>1. LoadOf(S, all) = Cardinality(S) * c
  BY LoadConstant
<1>2. \A x \in S : all[x] = c
  OBVIOUS
<1> HIDE DEF all
<1>3. LoadOf(S, size) <= LoadOf(S, all)
  BY <1>2, LoadOrdered
<1>4. QED
  BY <1>1, <1>3, LoadIsNat

\* The cells of a sum are those of its terms, side by side.
LEMMA LoadsAdd ==
  ASSUME NEW S, IsFiniteSet(S), NEW f, NEW g, NEW h,
         \A x \in S : f[x] \in Nat /\ g[x] \in Nat /\ h[x] = f[x] + g[x]
  PROVE  LoadOf(S, h) = LoadOf(S, f) + LoadOf(S, g)
<1> DEFINE F == Cells(S, f)
           G == Cells(S, g)
           H == Cells(S, h)
           shift == [c \in G |-> <<c[1], f[c[1]] + c[2]>>]
<1>1. /\ \A c : c \in F <=> \E x, j : x \in S /\ j \in 1..f[x] /\ c = <<x, j>>
      /\ \A c : c \in G <=> \E x, j : x \in S /\ j \in 1..g[x] /\ c = <<x, j>>
      /\ \A c : c \in H <=> \E x, j : x \in S /\ j \in 1..h[x] /\ c = <<x, j>>
  BY DEF Cells
<1>2. F \subseteq H
  BY <1>1
<1>3. shift \in [G -> H \ F]
  <2> SUFFICES ASSUME NEW c \in G PROVE shift[c] \in H \ F
    OBVIOUS
  <2>1. PICK x, j : x \in S /\ j \in 1..g[x] /\ c = <<x, j>>
    BY <1>1
  <2>2. shift[c] = <<x, f[x] + j>>
    BY <2>1
  <2>3. f[x] + j \in 1..h[x] /\ f[x] + j \notin 1..f[x]
    <3>1. f[x] \in Nat /\ g[x] \in Nat /\ h[x] = f[x] + g[x] /\ j \in 1..g[x]
      BY <2>1
    <3>2. QED
      BY <3>1
  <2>4. QED
    BY <1>1, <2>2, <2>3
<1>4. ASSUME NEW c \in G, NEW d \in G, shift[c] = shift[d] PROVE c = d
  <2>1. PICK x, j : x \in S /\ j \in 1..g[x] /\ c = <<x, j>>
    BY <1>1
  <2>2. PICK y, k : y \in S /\ k \in 1..g[y] /\ d = <<y, k>>
    BY <1>1
  <2>3. x = y /\ f[x] + j = f[y] + k
    BY <1>4, <2>1, <2>2
  <2>4. j = k
    <3>1. f[x] \in Nat /\ g[x] \in Nat /\ j \in 1..g[x] /\ k \in 1..g[x] /\ f[x] + j = f[x] + k
      BY <2>1, <2>2, <2>3
    <3>2. QED
      BY <3>1
  <2>5. QED
    BY <2>1, <2>2, <2>3, <2>4
<1>5. ASSUME NEW c \in H \ F PROVE \E d \in G : shift[d] = c
  <2>1. PICK x, j : x \in S /\ j \in 1..h[x] /\ c = <<x, j>>
    BY <1>1
  <2>2. j \notin 1..f[x]
    BY <1>1, <2>1
  <2>3. j - f[x] \in 1..g[x] /\ f[x] + (j - f[x]) = j
    <3>1. f[x] \in Nat /\ g[x] \in Nat /\ h[x] = f[x] + g[x] /\ j \in 1..h[x]
      BY <2>1
    <3>2. QED
      BY <2>2, <3>1
  <2>4. <<x, j - f[x]>> \in G
    BY <1>1, <2>1, <2>3
  <2>5. shift[<<x, j - f[x]>>] = c
    BY <2>1, <2>3, <2>4
  <2>6. QED
    BY <2>4, <2>5
<1>6. shift \in Bijection(G, H \ F)
  BY <1>3, <1>4, <1>5, Fun_IsBij
<1>7. IsFiniteSet(F) /\ IsFiniteSet(G) /\ IsFiniteSet(H)
  BY CellsFinite
<1>8. Cardinality(H \ F) = Cardinality(G)
  BY <1>6, <1>7, FS_Bijection DEF ExistsBijection
<1>9. Cardinality(H \ F) = Cardinality(H) - Cardinality(F)
  <2>1. H \cap F = F
    BY <1>2
  <2>2. Cardinality(H \ F) = Cardinality(H) - Cardinality(H \cap F)
    BY <1>7, FS_Difference
  <2>3. QED
    BY <2>1, <2>2
<1>10. Cardinality(F) \in Nat /\ Cardinality(G) \in Nat /\ Cardinality(H) \in Nat
  BY <1>7, FS_CardinalityType
<1>11. QED
  BY <1>8, <1>9, <1>10 DEF LoadOf

\* A finite set counted by the parts its members are assigned to.
Part(I, key, k) == {i \in I : key[i] = k}

LEMMA CountByKey ==
  ASSUME NEW I, IsFiniteSet(I), NEW K, NEW key, \A i \in I : key[i] \in K,
         NEW size, \A k \in K : size[k] = Cardinality(Part(I, key, k))
  PROVE  LoadOf(K, size) = Cardinality(I)
<1> DEFINE part(k) == Part(I, key, k)
           nth == [k \in K |-> CHOOSE b : b \in Bijection(1..size[k], part(k))]
           C == Cells(K, size)
           member == [c \in C |-> nth[c[1]][c[2]]]
<1>1. \A c : c \in C <=> \E k, j : k \in K /\ j \in 1..size[k] /\ c = <<k, j>>
  BY DEF Cells
<1>2. ASSUME NEW k \in K PROVE nth[k] \in Bijection(1..size[k], part(k))
  <2>1. IsFiniteSet(part(k))
    BY FS_Subset DEF Part
  <2>2. ExistsBijection(1..size[k], part(k))
    BY <2>1, FS_CardinalityType
  <2>3. QED
    BY <2>2 DEF ExistsBijection
<1>3. ASSUME NEW k \in K
      PROVE  /\ nth[k] \in [1..size[k] -> part(k)]
             /\ \A i, j \in 1..size[k] : nth[k][i] = nth[k][j] => i = j
             /\ \A i \in part(k) : \E j \in 1..size[k] : nth[k][j] = i
  <2> HIDE DEF nth, part
  <2>1. nth[k] \in Bijection(1..size[k], part(k))
    BY <1>2
  <2>2. QED
    BY <2>1 DEF Bijection, Injection, Surjection, IsInjective
<1> HIDE DEF nth
<1>4. ASSUME NEW k \in K, NEW j \in 1..size[k]
      PROVE  <<k, j>> \in C /\ member[<<k, j>>] = nth[k][j] /\ nth[k][j] \in I /\ key[nth[k][j]] = k
  <2>1. <<k, j>> \in C
    BY <1>1
  <2>2. nth[k][j] \in part(k)
    BY <1>3
  <2>3. QED
    BY <2>1, <2>2 DEF Part
<1>5. member \in [C -> I]
  <2> SUFFICES ASSUME NEW c \in C PROVE member[c] \in I
    BY Zenon
  <2>1. PICK k, j : k \in K /\ j \in 1..size[k] /\ c = <<k, j>>
    BY <1>1
  <2>2. QED
    BY <1>4, <2>1
<1>6. ASSUME NEW c \in C, NEW d \in C, member[c] = member[d] PROVE c = d
  <2>1. PICK k, i : k \in K /\ i \in 1..size[k] /\ c = <<k, i>>
    BY <1>1
  <2>2. PICK l, j : l \in K /\ j \in 1..size[l] /\ d = <<l, j>>
    BY <1>1
  <2>3. /\ member[c] = nth[k][i] /\ key[nth[k][i]] = k
        /\ member[d] = nth[l][j] /\ key[nth[l][j]] = l
    BY <1>4, <2>1, <2>2
  <2>4. nth[k][i] = nth[l][j] /\ k = l
    BY <1>6, <2>3
  <2>5. QED
    BY <1>3, <2>1, <2>2, <2>4
<1>7. ASSUME NEW i \in I PROVE \E c \in C : member[c] = i
  <2>1. key[i] \in K /\ i \in part(key[i])
    BY DEF Part
  <2>2. PICK j \in 1..size[key[i]] : nth[key[i]][j] = i
    BY <1>3, <2>1
  <2>3. QED
    BY <1>4, <2>1, <2>2
<1>8. member \in Bijection(C, I)
  BY <1>5, <1>6, <1>7, Fun_IsBij
<1>9. Inverse(member, C, I) \in Bijection(I, C)
  BY <1>8, Fun_BijInverse
<1>10. QED
  BY <1>9, FS_Bijection DEF ExistsBijection, LoadOf

\* A sum taken by the parts the members are assigned to.
LEMMA LoadByKey ==
  ASSUME NEW I, IsFiniteSet(I), NEW K, NEW key, \A i \in I : key[i] \in K,
         NEW f, \A i \in I : f[i] \in Nat,
         NEW size, \A k \in K : size[k] = LoadOf(Part(I, key, k), f)
  PROVE  LoadOf(K, size) = LoadOf(I, f)
<1> DEFINE C == Cells(I, f)
           keys == [c \in C |-> key[c[1]]]
<1>1. \A c : c \in C <=> \E i, j : i \in I /\ j \in 1..f[i] /\ c = <<i, j>>
  BY DEF Cells
<1>2. IsFiniteSet(C)
  BY CellsFinite
<1>3. \A c \in C : keys[c] \in K
  BY <1>1
<1>4. ASSUME NEW k \in K PROVE size[k] = Cardinality(Part(C, keys, k))
  <2>1. \A c : c \in Cells(Part(I, key, k), f) <=>
                 \E i, j : i \in Part(I, key, k) /\ j \in 1..f[i] /\ c = <<i, j>>
    BY DEF Cells
  <2>2. Part(C, keys, k) = Cells(Part(I, key, k), f)
    BY <1>1, <2>1 DEF Part
  <2>3. QED
    BY <2>2 DEF LoadOf
<1> HIDE DEF C, keys
<1>5. LoadOf(K, size) = Cardinality(C)
  BY <1>2, <1>3, <1>4, CountByKey
<1>6. QED
  BY <1>5 DEF C, LoadOf

\* The cells of a table: the row, the column, the place within the entry.
IsCell(S, T, r, x, y, j) == x \in S /\ y \in T /\ j \in 1..r[<<x, y>>]

Entry(x, y, j) == <<<<x, y>>, j>>
RowOf(c) == c[1][1]
ColumnOf(c) == c[1][2]
PlaceOf(c) == c[2]

LEMMA EntryParts ==
  ASSUME NEW x, NEW y, NEW j
  PROVE  RowOf(Entry(x, y, j)) = x /\ ColumnOf(Entry(x, y, j)) = y /\ PlaceOf(Entry(x, y, j)) = j
BY DEF Entry, RowOf, ColumnOf, PlaceOf

LEMMA TableCell ==
  ASSUME NEW S, NEW T, NEW r, NEW c \in Cells(S \X T, r)
  PROVE  IsCell(S, T, r, RowOf(c), ColumnOf(c), PlaceOf(c)) /\ c = Entry(RowOf(c), ColumnOf(c), PlaceOf(c))
<1>1. PICK p \in S \X T : c \in {p} \X (1..r[p])
  BY DEF Cells
<1>2. p[1] \in S /\ p[2] \in T /\ p = <<p[1], p[2]>>
  OBVIOUS
<1>3. c[1] = p /\ c[2] \in 1..r[p] /\ c = <<p, c[2]>>
  BY <1>1
<1>4. RowOf(c) = p[1] /\ ColumnOf(c) = p[2] /\ PlaceOf(c) = c[2]
  BY <1>3, Zenon DEF RowOf, ColumnOf, PlaceOf
<1>5. PlaceOf(c) \in 1..r[<<p[1], p[2]>>] /\ c = Entry(p[1], p[2], PlaceOf(c))
  BY <1>2, <1>3, <1>4, Zenon DEF Entry
<1>6. QED
  BY <1>2, <1>4, <1>5, Zenon DEF IsCell

LEMMA CellOfTable ==
  ASSUME NEW S, NEW T, NEW r, NEW x, NEW y, NEW j, IsCell(S, T, r, x, y, j)
  PROVE  Entry(x, y, j) \in Cells(S \X T, r)
<1>1. <<x, y>> \in S \X T /\ Entry(x, y, j) \in {<<x, y>>} \X (1..r[<<x, y>>])
  BY DEF IsCell, Entry
<1>2. QED
  BY <1>1 DEF Cells

\* A table summed row by row, and column by column.
RowSum(T, r, x) == LoadOf(T, [y \in T |-> r[<<x, y>>]])
ColumnSum(S, r, y) == LoadOf(S, [x \in S |-> r[<<x, y>>]])

LEMMA TableByRows ==
  ASSUME NEW S, IsFiniteSet(S), NEW T, IsFiniteSet(T), NEW r, \A p \in S \X T : r[p] \in Nat,
         NEW row, \A x \in S : row[x] = RowSum(T, r, x)
  PROVE  LoadOf(S, row) = LoadOf(S \X T, r)
<1> DEFINE I == Cells(S \X T, r)
           key == [c \in I |-> RowOf(c)]
<1>1. IsFiniteSet(S \X T)
  BY FS_Product
<1>2. IsFiniteSet(I)
  BY <1>1, CellsFinite
<1>3. ASSUME NEW c \in I
      PROVE  IsCell(S, T, r, key[c], ColumnOf(c), PlaceOf(c)) /\ c = Entry(key[c], ColumnOf(c), PlaceOf(c))
  <2>1. key[c] = RowOf(c)
    OBVIOUS
  <2>2. IsCell(S, T, r, RowOf(c), ColumnOf(c), PlaceOf(c)) /\ c = Entry(RowOf(c), ColumnOf(c), PlaceOf(c))
    BY TableCell, Zenon
  <2> HIDE DEF key
  <2>3. QED
    BY <2>1, <2>2, Zenon
<1>4. ASSUME NEW x, NEW y, NEW j, IsCell(S, T, r, x, y, j)
      PROVE  Entry(x, y, j) \in I /\ key[Entry(x, y, j)] = x
  <2>1. Entry(x, y, j) \in I
    BY <1>4, CellOfTable, Zenon
  <2>2. key[Entry(x, y, j)] = RowOf(Entry(x, y, j))
    BY <2>1
  <2>3. QED
    BY <2>1, <2>2, EntryParts, Zenon
<1> HIDE DEF I
<1>5. ASSUME NEW x \in S PROVE row[x] = Cardinality(Part(I, key, x))
  <2> DEFINE here == [y \in T |-> r[<<x, y>>]]
             C == Cells(T, here)
             P == Part(I, key, x)
             to == [c \in P |-> <<ColumnOf(c), PlaceOf(c)>>]
  <2>1. ASSUME NEW d \in C PROVE IsCell(S, T, r, x, d[1], d[2]) /\ d = <<d[1], d[2]>>
    <3>1. PICK y \in T : d \in {y} \X (1..here[y])
      BY DEF Cells
    <3>2. d[1] = y /\ d[2] \in 1..r[<<x, y>>] /\ d = <<d[1], d[2]>>
      BY <3>1
    <3>3. QED
      BY <3>1, <3>2, Zenon DEF IsCell
  <2>2. ASSUME NEW y, NEW j, IsCell(S, T, r, x, y, j) PROVE <<y, j>> \in C
    <3>1. y \in T /\ here[y] = r[<<x, y>>] /\ j \in 1..here[y]
      BY <2>2 DEF IsCell
    <3> HIDE DEF here
    <3>2. <<y, j>> \in {y} \X (1..here[y])
      BY <3>1
    <3>3. QED
      BY <3>1, <3>2 DEF Cells
  <2>3. ASSUME NEW c \in P
        PROVE  IsCell(S, T, r, x, ColumnOf(c), PlaceOf(c)) /\ c = Entry(x, ColumnOf(c), PlaceOf(c)) /\ to[c] = <<ColumnOf(c), PlaceOf(c)>>
    <3>1. c \in I /\ key[c] = x /\ to[c] = <<ColumnOf(c), PlaceOf(c)>>
      BY DEF Part
    <3>2. QED
      BY <1>3, <3>1, Zenon
  <2>4. ASSUME NEW y, NEW j, IsCell(S, T, r, x, y, j)
        PROVE  Entry(x, y, j) \in P /\ to[Entry(x, y, j)] = <<y, j>>
    <3>1. Entry(x, y, j) \in P
      BY <1>4, <2>4, Zenon DEF Part
    <3>2. to[Entry(x, y, j)] = <<ColumnOf(Entry(x, y, j)), PlaceOf(Entry(x, y, j))>>
      BY <3>1
    <3>3. QED
      BY <3>1, <3>2, EntryParts, Zenon
  <2>5. to = [c \in P |-> to[c]]
    OBVIOUS
  <2> HIDE DEF C, P, to
  <2>6. to \in [P -> C]
    <3>1. ASSUME NEW c \in P PROVE to[c] \in C
      <4>1. <<ColumnOf(c), PlaceOf(c)>> \in C
        BY <2>2, <2>3, Zenon
      <4>2. QED
        BY <2>3, <4>1, Zenon
    <3>2. QED
      BY <2>5, <3>1, Zenon
  <2>7. ASSUME NEW c \in P, NEW d \in P, to[c] = to[d] PROVE c = d
    <3>1. ColumnOf(c) = ColumnOf(d) /\ PlaceOf(c) = PlaceOf(d)
      BY <2>3, <2>7
    <3>2. QED
      BY <2>3, <3>1, Zenon
  <2>8. ASSUME NEW d \in C PROVE \E c \in P : to[c] = d
    <3>1. IsCell(S, T, r, x, d[1], d[2]) /\ <<d[1], d[2]>> = d
      BY <2>1, Zenon
    <3>2. Entry(x, d[1], d[2]) \in P /\ to[Entry(x, d[1], d[2])] = <<d[1], d[2]>>
      BY <2>4, <3>1, Zenon
    <3>3. QED
      BY <3>1, <3>2, Zenon
  <2>9. to \in Bijection(P, C)
    BY <2>6, <2>7, <2>8, Fun_IsBij
  <2>10. IsFiniteSet(P)
    BY <1>2, FS_Subset DEF P, Part
  <2>11. Cardinality(P) = Cardinality(C)
    BY <2>9, <2>10, FS_Bijection DEF ExistsBijection
  <2>12. QED
    BY <2>11 DEF LoadOf, C, P, RowSum
<1>6. \A c \in I : key[c] \in S
  BY <1>3, Zenon DEF IsCell
<1> HIDE DEF key
<1>7. LoadOf(S, row) = Cardinality(I)
  BY <1>2, <1>5, <1>6, CountByKey
<1>8. QED
  BY <1>7 DEF LoadOf, I

LEMMA TableByColumns ==
  ASSUME NEW S, IsFiniteSet(S), NEW T, IsFiniteSet(T), NEW r, \A p \in S \X T : r[p] \in Nat,
         NEW column, \A y \in T : column[y] = ColumnSum(S, r, y)
  PROVE  LoadOf(T, column) = LoadOf(S \X T, r)
<1> DEFINE turned == [p \in T \X S |-> r[<<p[2], p[1]>>]]
           A == Cells(S \X T, r)
           B == Cells(T \X S, turned)
           to == [c \in A |-> Entry(ColumnOf(c), RowOf(c), PlaceOf(c))]
<1>1. \A x \in S, y \in T : turned[<<y, x>>] = r[<<x, y>>]
  OBVIOUS
<1>2. \A p \in T \X S : turned[p] \in Nat
  OBVIOUS
<1> HIDE DEF turned
<1>3. LoadOf(T, column) = LoadOf(T \X S, turned)
  <2>1. ASSUME NEW y \in T PROVE column[y] = RowSum(S, turned, y)
    <3>1. [x \in S |-> turned[<<y, x>>]] = [x \in S |-> r[<<x, y>>]]
      BY <1>1
    <3>2. QED
      BY <3>1, Zenon DEF RowSum, ColumnSum
  <2>2. QED
    BY <1>2, <2>1, TableByRows
<1>4. ASSUME NEW x, NEW y, NEW j PROVE IsCell(S, T, r, x, y, j) <=> IsCell(T, S, turned, y, x, j)
  BY <1>1, Zenon DEF IsCell
<1>5. ASSUME NEW c \in A
      PROVE  /\ IsCell(S, T, r, RowOf(c), ColumnOf(c), PlaceOf(c)) /\ c = Entry(RowOf(c), ColumnOf(c), PlaceOf(c))
             /\ to[c] = Entry(ColumnOf(c), RowOf(c), PlaceOf(c))
  <2>1. to[c] = Entry(ColumnOf(c), RowOf(c), PlaceOf(c))
    OBVIOUS
  <2>2. IsCell(S, T, r, RowOf(c), ColumnOf(c), PlaceOf(c)) /\ c = Entry(RowOf(c), ColumnOf(c), PlaceOf(c))
    BY TableCell, Zenon
  <2>3. QED
    BY <2>1, <2>2, Zenon
<1>6. ASSUME NEW c \in B
      PROVE  IsCell(S, T, r, ColumnOf(c), RowOf(c), PlaceOf(c)) /\ c = Entry(RowOf(c), ColumnOf(c), PlaceOf(c))
  <2>1. IsCell(T, S, turned, RowOf(c), ColumnOf(c), PlaceOf(c))
    BY TableCell, Zenon
  <2>2. c = Entry(RowOf(c), ColumnOf(c), PlaceOf(c))
    BY TableCell, Zenon
  <2>3. QED
    BY <1>4, <2>1, <2>2, Zenon
<1>7. ASSUME NEW x, NEW y, NEW j, IsCell(S, T, r, x, y, j)
      PROVE  /\ Entry(x, y, j) \in A /\ to[Entry(x, y, j)] = Entry(y, x, j)
             /\ Entry(y, x, j) \in B
  <2>1. Entry(x, y, j) \in A
    BY <1>7, CellOfTable, Zenon
  <2>2. Entry(y, x, j) \in B
    BY <1>4, <1>7, CellOfTable, Zenon
  <2>3. to[Entry(x, y, j)] =
          Entry(ColumnOf(Entry(x, y, j)), RowOf(Entry(x, y, j)), PlaceOf(Entry(x, y, j)))
    BY <2>1
  <2>4. QED
    BY <2>1, <2>2, <2>3, EntryParts, Zenon
<1>8. to = [c \in A |-> to[c]]
  OBVIOUS
<1> HIDE DEF A, B, to
<1>9. to \in [A -> B]
  <2>1. ASSUME NEW c \in A PROVE to[c] \in B
    <3>1. Entry(ColumnOf(c), RowOf(c), PlaceOf(c)) \in B
      BY <1>5, <1>7, Zenon
    <3>2. QED
      BY <1>5, <3>1, Zenon
  <2>2. QED
    BY <1>8, <2>1, Zenon
<1>10. ASSUME NEW c \in A, NEW d \in A, to[c] = to[d] PROVE c = d
  <2>1. RowOf(c) = RowOf(d) /\ ColumnOf(c) = ColumnOf(d) /\ PlaceOf(c) = PlaceOf(d)
    <3>1. Entry(ColumnOf(c), RowOf(c), PlaceOf(c)) = Entry(ColumnOf(d), RowOf(d), PlaceOf(d))
      BY <1>5, <1>10, Zenon
    <3>2. QED
      BY <3>1, EntryParts
  <2>2. QED
    BY <1>5, <2>1, Zenon
<1>11. ASSUME NEW d \in B PROVE \E c \in A : to[c] = d
  <2>1. /\ IsCell(S, T, r, ColumnOf(d), RowOf(d), PlaceOf(d))
        /\ d = Entry(RowOf(d), ColumnOf(d), PlaceOf(d))
    BY <1>6, Zenon
  <2>2. /\ Entry(ColumnOf(d), RowOf(d), PlaceOf(d)) \in A
        /\ to[Entry(ColumnOf(d), RowOf(d), PlaceOf(d))] = Entry(RowOf(d), ColumnOf(d), PlaceOf(d))
    BY <1>7, <2>1, Zenon
  <2>3. QED
    BY <2>1, <2>2, Zenon
<1>12. to \in Bijection(A, B)
  BY <1>9, <1>10, <1>11, Fun_IsBij
<1>13. IsFiniteSet(A)
  <2>1. IsFiniteSet(S \X T)
    BY FS_Product
  <2>2. QED
    BY <2>1, CellsFinite DEF A
<1>14. Cardinality(B) = Cardinality(A)
  BY <1>12, <1>13, FS_Bijection DEF ExistsBijection
<1>15. QED
  BY <1>3, <1>14 DEF LoadOf, A, B
=============================================================================
