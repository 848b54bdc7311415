---------------------------- MODULE TotalsProofs ----------------------------
(***************************************************************************)
(* Lemmas about Total: its type, and how it changes when the function      *)
(* gains or loses an argument.                                             *)
(***************************************************************************)
EXTENDS Totals, Integers, FiniteSetTheorems, TLAPS

\* The units contributed by one argument.
UnitsOf(f, x) == {x} \X (1 .. f[x])

LEMMA SizeOfOne ==
  ASSUME NEW D, NEW f \in [D -> Nat], NEW x \in D
  PROVE  IsFiniteSet(UnitsOf(f, x)) /\ Cardinality(UnitsOf(f, x)) = f[x]
<1>1. f[x] \in Nat
  OBVIOUS
<1>2. IsFiniteSet(1 .. f[x]) /\ Cardinality(1 .. f[x]) = f[x]
  BY <1>1, FS_Interval
<1>3. IsFiniteSet({x}) /\ Cardinality({x}) = 1
  BY FS_Singleton
<1>4. /\ IsFiniteSet({x} \X (1 .. f[x]))
      /\ Cardinality({x} \X (1 .. f[x])) = 1 * f[x]
  BY <1>2, <1>3, FS_Product
<1>5. QED
  BY <1>1, <1>4 DEF UnitsOf

\* The total of a function with finitely many arguments is a number.
LEMMA TotalType ==
  ASSUME NEW D, IsFiniteSet(D), NEW f \in [D -> Nat]
  PROVE  IsFiniteSet(Units(f)) /\ Total(f) \in Nat
<1> DEFINE blocks == {UnitsOf(f, x) : x \in D}
<1>1. [x \in D |-> UnitsOf(f, x)] \in Surjection(D, blocks)
  BY DEF Surjection
<1>2. IsFiniteSet(blocks)
  BY <1>1, FS_Surjection
<1>3. \A b \in blocks : IsFiniteSet(b)
  BY SizeOfOne
<1>4. IsFiniteSet(UNION blocks)
  BY <1>2, <1>3, FS_UNION
<1>5. Units(f) = UNION blocks
  BY DEF Units, UnitsOf
<1>6. QED
  BY <1>4, <1>5, FS_CardinalityType DEF Total

\* The total without one argument.
LEMMA TotalSplit ==
  ASSUME NEW D, IsFiniteSet(D), NEW f \in [D -> Nat], NEW x \in D
  PROVE  Total(f) = f[x] + Total([y \in D \ {x} |-> f[y]])
<1> DEFINE g == [y \in D \ {x} |-> f[y]]
<1>1. IsFiniteSet(D \ {x}) /\ g \in [D \ {x} -> Nat]
  BY FS_RemoveElement
<1>2. IsFiniteSet(Units(g)) /\ Total(g) \in Nat
  BY <1>1, TotalType
<1>3. IsFiniteSet(UnitsOf(f, x)) /\ Cardinality(UnitsOf(f, x)) = f[x]
  BY SizeOfOne
<1>4. Units(f) = UnitsOf(f, x) \cup Units(g)
  BY DEF Units, UnitsOf
<1>5. UnitsOf(f, x) \cap Units(g) = {}
  BY DEF Units, UnitsOf
<1>6. Cardinality(Units(f)) = Cardinality(UnitsOf(f, x)) + Cardinality(Units(g)) - 0
  <2> DEFINE A == UnitsOf(f, x)
  <2> DEFINE B == Units(g)
  <2>1. IsFiniteSet(A) /\ IsFiniteSet(B) /\ A \cap B = {} /\ Units(f) = A \cup B
    BY <1>2, <1>3, <1>4, <1>5
  <2> HIDE DEF A, B
  <2>2. Cardinality(A \cup B) = Cardinality(A) + Cardinality(B) - Cardinality(A \cap B)
    BY <2>1, FS_Union
  <2>3. QED
    BY <2>1, <2>2, FS_EmptySet DEF A, B
<1>7. QED
  BY <1>2, <1>3, <1>6 DEF Total

\* Fewer arguments, or the same.
LEMMA TotalOfFewer ==
  ASSUME NEW D, IsFiniteSet(D), NEW f \in [D -> Nat],
         NEW E \in SUBSET D, NEW g \in [E -> Nat], \A y \in E : g[y] = f[y]
  PROVE  Total(g) <= Total(f)
<1>1. Units(g) \subseteq Units(f)
  BY DEF Units
<1>2. QED
  BY <1>1, TotalType, FS_Subset DEF Total

\* At least one argument less.
LEMMA TotalOfFewerBut ==
  ASSUME NEW D, IsFiniteSet(D), NEW f \in [D -> Nat], NEW x \in D,
         NEW E \in SUBSET (D \ {x}), NEW g \in [E -> Nat], \A y \in E : g[y] = f[y]
  PROVE  Total(g) + f[x] <= Total(f)
<1> DEFINE h == [y \in D \ {x} |-> f[y]]
<1>1. IsFiniteSet(D \ {x}) /\ h \in [D \ {x} -> Nat]
  BY FS_RemoveElement
<1>2. IsFiniteSet(E)
  BY <1>1, FS_Subset
<1>3. Total(g) \in Nat /\ Total(h) \in Nat /\ Total(f) \in Nat /\ f[x] \in Nat
  BY <1>1, <1>2, TotalType
<1>4. Total(g) <= Total(h)
  BY <1>1, TotalOfFewer
<1>5. Total(f) = f[x] + Total(h)
  BY TotalSplit
<1> HIDE DEF h
<1>6. QED
  BY <1>3, <1>4, <1>5

\* At most one argument more.
LEMMA TotalOfOneMore ==
  ASSUME NEW D, IsFiniteSet(D), NEW f \in [D -> Nat], NEW x, x \notin D,
         NEW E \in SUBSET (D \cup {x}), NEW g \in [E -> Nat],
         \A y \in E : y # x => g[y] = f[y],
         NEW v \in Nat, x \in E => g[x] = v
  PROVE  Total(g) <= Total(f) + v
<1>1. IsFiniteSet(D \cup {x})
  BY FS_AddElement
<1>2. IsFiniteSet(E)
  BY <1>1, FS_Subset
<1>3. Total(g) \in Nat /\ Total(f) \in Nat
  BY <1>2, TotalType
<1>4. CASE x \in E
  <2> DEFINE h == [y \in E \ {x} |-> g[y]]
  <2>1. Total(g) = g[x] + Total(h)
    BY <1>2, <1>4, TotalSplit
  <2>2. h \in [E \ {x} -> Nat] /\ E \ {x} \in SUBSET D
    OBVIOUS
  <2>3. Total(h) <= Total(f)
    BY <2>2, TotalOfFewer
  <2>4. IsFiniteSet(E \ {x})
    BY <1>2, FS_RemoveElement
  <2>5. Total(h) \in Nat
    BY <2>2, <2>4, TotalType
  <2> HIDE DEF h
  <2>6. QED
    BY <1>3, <1>4, <2>1, <2>3, <2>5
<1>5. CASE x \notin E
  <2>1. E \in SUBSET D
    BY <1>5
  <2>2. Total(g) <= Total(f)
    BY <2>1, <1>5, TotalOfFewer
  <2>3. QED
    BY <2>2, <1>3
<1>6. QED
  BY <1>4, <1>5

\* Another value for one argument.
LEMMA TotalUpdate ==
  ASSUME NEW D, IsFiniteSet(D), NEW f \in [D -> Nat], NEW x \in D,
         NEW g \in [D -> Nat], \A y \in D : y # x => g[y] = f[y]
  PROVE  /\ Total(g) \in Nat /\ Total(f) \in Nat
         /\ Total(g) + f[x] = Total(f) + g[x]
<1> DEFINE rest == [y \in D \ {x} |-> f[y]]
<1>1. [y \in D \ {x} |-> g[y]] = rest
  OBVIOUS
<1>2. rest \in [D \ {x} -> Nat] /\ IsFiniteSet(D \ {x})
  BY FS_RemoveElement
<1>3. Total(f) = f[x] + Total(rest)
  BY TotalSplit
<1>4. Total(g) = g[x] + Total([y \in D \ {x} |-> g[y]])
  BY TotalSplit
<1> HIDE DEF rest
<1>5. Total(g) = g[x] + Total(rest)
  BY <1>1, <1>4
<1>6. Total(rest) \in Nat /\ Total(f) \in Nat /\ Total(g) \in Nat
  BY <1>2, TotalType
<1>7. QED
  BY <1>3, <1>5, <1>6

\* One more argument.
LEMMA TotalExtend ==
  ASSUME NEW D, IsFiniteSet(D), NEW f \in [D -> Nat], NEW x, x \notin D,
         NEW g \in [D \cup {x} -> Nat], \A y \in D : g[y] = f[y]
  PROVE  /\ Total(g) = Total(f) + g[x]
         /\ Total(g) \in Nat /\ Total(f) \in Nat /\ g[x] \in Nat
<1>1. IsFiniteSet(D \cup {x}) /\ g[x] \in Nat
  BY FS_AddElement
<1>2. [y \in (D \cup {x}) \ {x} |-> g[y]] = f
  <2>1. (D \cup {x}) \ {x} = D
    OBVIOUS
  <2>2. [y \in D |-> g[y]] = f
    OBVIOUS
  <2>3. QED
    BY <2>1, <2>2
<1>3. Total(g) = g[x] + Total(f)
  BY <1>1, <1>2, TotalSplit
<1>4. Total(g) \in Nat /\ Total(f) \in Nat
  BY <1>1, TotalType
<1>5. QED
  BY <1>1, <1>3, <1>4

\* What one argument contributes is a part of the total.
LEMMA TotalMember ==
  ASSUME NEW D, IsFiniteSet(D), NEW f \in [D -> Nat], NEW x \in D
  PROVE  f[x] <= Total(f) /\ f[x] \in Nat /\ Total(f) \in Nat
<1> DEFINE rest == [y \in D \ {x} |-> f[y]]
<1>1. rest \in [D \ {x} -> Nat] /\ IsFiniteSet(D \ {x})
  BY FS_RemoveElement
<1>2. Total(f) = f[x] + Total(rest)
  BY TotalSplit
<1>3. Total(rest) \in Nat /\ f[x] \in Nat /\ Total(f) \in Nat
  BY <1>1, TotalType
<1>4. QED
  BY <1>2, <1>3

\* A total is that of two parts, if there is nothing outside them.
LEMMA TotalParts ==
  ASSUME NEW D, IsFiniteSet(D), NEW f \in [D -> Nat],
         NEW A \in SUBSET D, NEW B \in SUBSET D, A \cap B = {},
         \A x \in D : x \notin A \cup B => f[x] = 0
  PROVE  /\ Total(f) = Total([x \in A |-> f[x]]) + Total([x \in B |-> f[x]])
         /\ Total([x \in A |-> f[x]]) \in Nat /\ Total([x \in B |-> f[x]]) \in Nat
<1> DEFINE g == [x \in A |-> f[x]]
           h == [x \in B |-> f[x]]
<1>1. IsFiniteSet(A) /\ IsFiniteSet(B)
  BY FS_Subset
<1>2. g \in [A -> Nat] /\ h \in [B -> Nat]
  OBVIOUS
<1>3. IsFiniteSet(Units(g)) /\ IsFiniteSet(Units(h)) /\ Total(g) \in Nat /\ Total(h) \in Nat
  BY <1>1, <1>2, TotalType
<1>4. Units(f) = Units(g) \cup Units(h)
  <2>1. \A x \in D : x \notin A \cup B => 1 .. f[x] = {}
    OBVIOUS
  <2>2. Units(f) \subseteq Units(g) \cup Units(h)
    BY <2>1 DEF Units
  <2>3. Units(g) \subseteq Units(f) /\ Units(h) \subseteq Units(f)
    BY DEF Units
  <2>4. QED
    BY <2>2, <2>3
<1>5. Units(g) \cap Units(h) = {}
  BY DEF Units
<1> HIDE DEF g, h
<1>6. Cardinality(Units(g) \cup Units(h)) = Cardinality(Units(g)) + Cardinality(Units(h))
  BY <1>3, <1>5, FS_Union, FS_EmptySet DEF Total
<1>7. QED
  BY <1>3, <1>4, <1>6 DEF g, h, Total

\* The total of a function that is injected into another, value by value.
LEMMA TotalImage ==
  ASSUME NEW D, IsFiniteSet(D), NEW f \in [D -> Nat],
         NEW R, IsFiniteSet(R), NEW g \in [R -> Nat],
         NEW h \in [D -> R], \A x, y \in D : h[x] = h[y] => x = y,
         \A x \in D : f[x] = g[h[x]]
  PROVE  Total(f) <= Total(g)
<1>1. IsFiniteSet(Units(f)) /\ IsFiniteSet(Units(g)) /\ Total(f) \in Nat /\ Total(g) \in Nat
  BY TotalType
<1> DEFINE u == [e \in Units(f) |-> <<h[e[1]], e[2]>>]
<1>2. \A e \in Units(f) : e[1] \in D /\ e[2] \in 1 .. f[e[1]] /\ e = <<e[1], e[2]>>
  BY DEF Units
<1>3. \A e \in Units(f) : <<h[e[1]], e[2]>> \in Units(g)
  <2>1. TAKE e \in Units(f)
  <2>2. e[1] \in D /\ e[2] \in 1 .. g[h[e[1]]] /\ h[e[1]] \in DOMAIN g
    BY <1>2
  <2>3. QED
    BY <2>2 DEF Units
<1>4. \A d, e \in Units(f) : u[d] = u[e] => d = e
  <2>1. SUFFICES ASSUME NEW d \in Units(f), NEW e \in Units(f), u[d] = u[e] PROVE d = e
    OBVIOUS
  <2>2. h[d[1]] = h[e[1]] /\ d[2] = e[2]
    BY <2>1
  <2>3. d[1] = e[1]
    BY <1>2, <2>2
  <2>4. QED
    BY <1>2, <2>2, <2>3
<1>5. u \in Injection(Units(f), Units(g))
  BY <1>3, <1>4 DEF Injection, IsInjective
<1>6. Cardinality(Units(f)) <= Cardinality(Units(g))
  BY <1>1, <1>5, FS_Injection
<1>7. QED
  BY <1>6 DEF Total
=============================================================================
