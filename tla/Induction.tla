------------------------------ MODULE Induction ------------------------------
(***************************************************************************)
(* Induction on natural numbers, stated of a set instead of a predicate, and  *)
(* what it gives of the sums over finite sets that the invariants speak of.   *)
(***************************************************************************)
EXTENDS Integers, Functions, FiniteSetTheorems, WellFoundedInduction, NaturalsInduction, TLAPS

Below == {p \in Nat \X Nat : p[1] < p[2]}

LEMMA BelowWellFounded == IsWellFoundedOn(Below, Nat)
BY NatLessThanWellFounded DEF OpToRel, Below

\* A set of natural numbers has a least element.
LEMMA LeastElement ==
    ASSUME NEW S \in SUBSET Nat, S # {}
    PROVE  \E n \in S : \A m \in S : n =< m
<1>1. PICK n \in S : \A m \in S : ~(<<m, n>> \in Below)
    BY BelowWellFounded, WFMin
<1>2. ASSUME NEW m \in S PROVE n =< m
    <2>1. m \in Nat /\ n \in Nat
        OBVIOUS
    <2>2. ~(m < n)
        BY <1>1, <2>1 DEF Below
    <2> QED
        BY <2>1, <2>2
<1> QED
    BY <1>1, <1>2

\* Induction: a set with 0 and the successor of each of its elements is all of Nat.
THEOREM SetInduction ==
    ASSUME NEW T \in SUBSET Nat, 0 \in T, \A n \in T : n + 1 \in T
    PROVE  T = Nat
<1> SUFFICES ASSUME Nat \ T # {} PROVE FALSE
    OBVIOUS
<1>1. PICK n \in Nat \ T : \A m \in Nat \ T : n =< m
    BY LeastElement
<1>2. n # 0 /\ n - 1 \in Nat
    OBVIOUS
<1>3. n - 1 \in T
    BY <1>1, <1>2
<1> QED
    BY <1>2, <1>3

\* Up to a bound.
THEOREM BoundedInduction ==
    ASSUME NEW N \in Nat, NEW T, 0 \in T, \A n \in 0 .. N - 1 : n \in T => n + 1 \in T
    PROVE  0 .. N \subseteq T
<1> DEFINE U == {n \in Nat : n =< N => n \in T}
<1>1. 0 \in U
    OBVIOUS
<1>2. ASSUME NEW n \in U PROVE n + 1 \in U
    <2>1. n + 1 =< N => n \in 0 .. N - 1 /\ n \in T
        OBVIOUS
    <2> QED
        BY <2>1
<1>3. U \in SUBSET Nat
    OBVIOUS
<1> HIDE DEF U
<1>4. U = Nat
    BY <1>1, <1>2, <1>3, SetInduction
<1> QED
    BY <1>4 DEF U

-----------------------------------------------------------------------------
(* Sums                                                                      *)

\* The partial sums SumFunctionOnSet(f, S) goes through.
IsSum(it, f, S) ==
    it = [s \in SUBSET S |-> IF s = {} THEN 0
                             ELSE LET x == CHOOSE x \in s : TRUE IN f[x] + it[s \ {x}]]

Chooses(any, S) == any = [s \in SUBSET S |-> CHOOSE x \in s : TRUE]
Adds(it, f, S, any) == it = [s \in SUBSET S |-> IF s = {} THEN 0 ELSE f[any[s]] + it[s \ {any[s]}]]

LEMMA SumEquation ==
    ASSUME NEW S, NEW f, NEW it, NEW any, Chooses(any, S)
    PROVE  IsSum(it, f, S) <=> Adds(it, f, S, any)
<1> DEFINE Any(s) == CHOOSE x \in s : TRUE
           F(s) == IF s = {} THEN 0 ELSE f[Any(s)] + it[s \ {Any(s)}]
           G(s) == IF s = {} THEN 0 ELSE f[any[s]] + it[s \ {any[s]}]
<1>1. \A s \in SUBSET S : any[s] = Any(s)
    BY DEF Chooses
<1>2. IsSum(it, f, S) <=> it = [s \in SUBSET S |-> F(s)]
    BY Zenon DEF IsSum
<1>3. \A s \in SUBSET S : F(s) = G(s)
    <2> HIDE DEF Any
    <2> QED
        BY <1>1, Zenon
<1> HIDE DEF F, G
<1> QED
    <2>1. it = [s \in SUBSET S |-> F(s)] <=> it = [s \in SUBSET S |-> G(s)]
        BY <1>3
    <2> QED
        BY <1>2, <2>1 DEF G, Adds

LEMMA SumsExist ==
    ASSUME NEW S, IsFiniteSet(S), NEW f
    PROVE  \E it : IsSum(it, f, S)
<1>1. PICK any : Chooses(any, S)
    BY DEF Chooses
<1> DEFINE Small(n) == {s \in SUBSET S : Cardinality(s) =< n}
           Term(s, it) == IF s = {} THEN 0 ELSE f[any[s]] + it[s \ {any[s]}]
           Upto(n, it) == it = [s \in Small(n) |-> Term(s, it)]
           T == {n \in Nat : \E it : Upto(n, it)}
<1>2. \A s \in SUBSET S : IsFiniteSet(s) /\ Cardinality(s) \in Nat /\ (s = {} <=> Cardinality(s) = 0)
    BY FS_Subset, FS_CardinalityType, FS_EmptySet
<1>3. \A s \in SUBSET S : s # {} =>
          any[s] \in s /\ s \ {any[s]} \in SUBSET S /\ Cardinality(s \ {any[s]}) = Cardinality(s) - 1
    <2>1. ASSUME NEW s \in SUBSET S, s # {} PROVE any[s] \in s
        BY <1>1, <2>1 DEF Chooses
    <2> QED
        BY <1>2, <2>1, FS_RemoveElement
<1>4. 0 \in T
    <2>1. PICK it : it = [s \in Small(0) |-> 0]
        OBVIOUS
    <2>2. \A s \in Small(0) : s = {} /\ Term(s, it) = 0
        BY <1>2
    <2> HIDE DEF Term, Small
    <2>3. Upto(0, it)
        BY <2>1, <2>2
    <2> QED
        BY <2>3
<1>5. ASSUME NEW n \in T PROVE n + 1 \in T
    <2>1. PICK it : Upto(n, it)
        OBVIOUS
    <2>2. PICK jt : jt = [s \in Small(n + 1) |-> Term(s, it)]
        OBVIOUS
    <2>3. \A s \in Small(n) : s \in Small(n + 1)
        BY <1>2
    <2>4. \A s \in Small(n) : jt[s] = it[s]
        <3> HIDE DEF Small, Term
        <3> QED
            BY <2>1, <2>2, <2>3
    <2>5. \A s \in Small(n + 1) : s # {} => s \ {any[s]} \in Small(n)
        BY <1>2, <1>3
    <2>6. \A s \in Small(n + 1) : Term(s, jt) = Term(s, it)
        <3> HIDE DEF Small
        <3> QED
            BY <2>4, <2>5
    <2>7. Upto(n + 1, jt)
        <3> HIDE DEF Small, Term
        <3> QED
            BY <2>2, <2>6
    <2> HIDE DEF Upto
    <2> QED
        BY <2>7
<1>6. Cardinality(S) \in T
    <2>1. T \in SUBSET Nat
        OBVIOUS
    <2> HIDE DEF T
    <2>2. T = Nat
        BY <1>4, <1>5, <2>1, SetInduction
    <2> QED
        BY <1>2, <2>2
<1>7. PICK it : Upto(Cardinality(S), it)
    BY <1>6
<1>8. Small(Cardinality(S)) = SUBSET S
    BY FS_Subset
<1>9. it = [s \in SUBSET S |-> Term(s, it)]
    <2> HIDE DEF Term, Small
    <2> QED
        BY <1>7, <1>8
<1>10. Adds(it, f, S, any)
    BY <1>9 DEF Adds
<1> QED
    BY <1>1, <1>10, SumEquation

Orderless(it, f, S) ==
    \A s \in SUBSET S : it[s] \in Int /\ \A y \in s : it[s] = f[y] + it[s \ {y}]

\* They are the same in whichever order the elements are taken.
LEMMA AnyOrder ==
    ASSUME NEW S, IsFiniteSet(S), NEW f, \A x \in S : f[x] \in Int, NEW it, IsSum(it, f, S)
    PROVE  Orderless(it, f, S)
<1>1. PICK any : Chooses(any, S)
    BY DEF Chooses
<1> DEFINE Good(s) == it[s] \in Int /\ \A y \in s : it[s] = f[y] + it[s \ {y}]
           T == {n \in Nat : \A s \in SUBSET S : Cardinality(s) =< n => Good(s)}
<1>2. \A s \in SUBSET S : IsFiniteSet(s) /\ Cardinality(s) \in Nat /\ (s = {} <=> Cardinality(s) = 0)
    BY FS_Subset, FS_CardinalityType, FS_EmptySet
<1>3. \A s \in SUBSET S : \A y \in s :
          s \ {y} \in SUBSET S /\ Cardinality(s \ {y}) = Cardinality(s) - 1
    BY <1>2, FS_RemoveElement
<1>4. \A s \in SUBSET S : it[s] = IF s = {} THEN 0 ELSE f[any[s]] + it[s \ {any[s]}]
    <2>1. Adds(it, f, S, any)
        BY <1>1, SumEquation
    <2>2. it = [s \in SUBSET S |-> IF s = {} THEN 0 ELSE f[any[s]] + it[s \ {any[s]}]]
        BY <2>1, Zenon DEF Adds
    <2> DEFINE G(s) == IF s = {} THEN 0 ELSE f[any[s]] + it[s \ {any[s]}]
    <2>3. it = [s \in SUBSET S |-> G(s)]
        BY <2>2, Zenon
    <2> HIDE DEF G
    <2>4. \A s \in SUBSET S : it[s] = G(s)
        BY <2>3, Zenon
    <2> QED
        BY <2>4, Zenon DEF G
<1>5. \A s \in SUBSET S : s # {} => any[s] \in s
    BY <1>1 DEF Chooses
<1>empty. it[{}] = 0
    BY DEF IsSum
<1>6. 0 \in T
    <2>1. \A s \in SUBSET S : Cardinality(s) =< 0 => s = {}
        BY <1>2
    <2>2. Good({})
        BY <1>empty
    <2> QED
        BY <2>1, <2>2
<1>7. ASSUME NEW n \in T PROVE n + 1 \in T
    <2>1. ASSUME NEW s \in SUBSET S, Cardinality(s) =< n + 1, s # {} PROVE Good(s)
        <3>1. PICK x \in s : x = any[s]
            BY <1>5, <2>1
        <3>2. \A y \in s : s \ {y} \in SUBSET S /\ Good(s \ {y})
            <4>1. \A y \in s : s \ {y} \in SUBSET S /\ Cardinality(s \ {y}) =< n
                BY <1>2, <1>3, <2>1
            <4> HIDE DEF Good
            <4> QED
                BY <1>7, <4>1
        <3>3. it[s] = f[x] + it[s \ {x}] /\ f[x] \in Int /\ it[s \ {x}] \in Int
            BY <1>4, <2>1, <3>1, <3>2
        <3>4. ASSUME NEW y \in s, y # x PROVE it[s] = f[y] + it[s \ {y}]
            <4>1. it[s \ {x}] = f[y] + it[(s \ {x}) \ {y}]
                BY <3>2, <3>4
            <4>2. it[s \ {y}] = f[x] + it[(s \ {y}) \ {x}]
                BY <3>2, <3>4
            <4>3. (s \ {x}) \ {y} = (s \ {y}) \ {x}
                OBVIOUS
            <4>4. PICK r : r = (s \ {x}) \ {y}
                OBVIOUS
            <4>5. r \in SUBSET S /\ it[r] \in Int
                <5>1. s \ {x} \in SUBSET S /\ y \in s \ {x} /\ Cardinality(s \ {x}) = Cardinality(s) - 1
                    BY <1>3, <3>4
                <5>2. r \in SUBSET S /\ Cardinality(r) = Cardinality(s) - 1 - 1
                    BY <1>3, <4>4, <5>1
                <5>3. Cardinality(r) =< n
                    BY <1>2, <2>1, <5>2
                <5> QED
                    BY <1>7, <5>2, <5>3
            <4>6. f[y] \in Int /\ it[s \ {x}] = f[y] + it[r] /\ it[s \ {y}] = f[x] + it[r]
                BY <4>1, <4>2, <4>3, <4>4
            <4> QED
                BY <3>3, <4>5, <4>6
        <3>5. it[s] \in Int
            BY <3>3
        <3>6. ASSUME NEW y \in s PROVE it[s] = f[y] + it[s \ {y}]
            BY <3>3, <3>4
        <3> QED
            BY <3>5, <3>6, Zenon
    <2>2. ASSUME NEW s \in SUBSET S, s = {} PROVE Good(s)
        BY <1>empty, <2>2
    <2> HIDE DEF Good
    <2> QED
        BY <2>1, <2>2
<1>8. T \in SUBSET Nat
    OBVIOUS
<1>9. T = Nat
    <2> HIDE DEF T
    <2> QED
        BY <1>6, <1>7, <1>8, SetInduction
<1>10. ASSUME NEW s \in SUBSET S PROVE Good(s)
    <2>1. Cardinality(s) \in T
        BY <1>2, <1>9
    <2>2. Cardinality(s) =< Cardinality(s)
        BY <1>2
    <2> HIDE DEF Good
    <2> QED
        BY <2>1, <2>2
<1> QED
    BY <1>10 DEF Orderless

\* Sums of functions that agree agree, whatever sets they are part of.
LEMMA SameSums ==
    ASSUME NEW S, IsFiniteSet(S), NEW f, \A x \in S : f[x] \in Int, NEW it, IsSum(it, f, S),
           NEW D \in SUBSET S, NEW g, \A x \in D : g[x] = f[x], NEW jt, IsSum(jt, g, D)
    PROVE  jt[D] = it[D]
<1> DEFINE T == {n \in Nat : \A s \in SUBSET D : Cardinality(s) =< n => jt[s] = it[s]}
<1>1. \A s \in SUBSET D : /\ IsFiniteSet(s) /\ Cardinality(s) \in Nat /\ (s = {} <=> Cardinality(s) = 0)
                          /\ s \in SUBSET S
    BY FS_Subset, FS_CardinalityType, FS_EmptySet
<1>2. \A s \in SUBSET D : \A y \in s : s \ {y} \in SUBSET D /\ Cardinality(s \ {y}) = Cardinality(s) - 1
    BY <1>1, FS_RemoveElement
<1>3. \A s \in SUBSET D : \A y \in s : it[s] = f[y] + it[s \ {y}] /\ jt[s] = g[y] + jt[s \ {y}]
    <2>1. IsFiniteSet(D) /\ \A x \in D : g[x] \in Int
        BY <1>1
    <2>2. \A s \in SUBSET D : jt[s] \in Int /\ \A y \in s : jt[s] = g[y] + jt[s \ {y}]
        BY <2>1, AnyOrder DEF Orderless
    <2>3. \A s \in SUBSET S : it[s] \in Int /\ \A y \in s : it[s] = f[y] + it[s \ {y}]
        BY AnyOrder DEF Orderless
    <2> QED
        BY <1>1, <2>2, <2>3
<1>4. it[{}] = 0 /\ jt[{}] = 0
    BY DEF IsSum
<1>5. 0 \in T
    <2>1. \A s \in SUBSET D : Cardinality(s) =< 0 => s = {}
        BY <1>1
    <2> QED
        BY <1>4, <2>1
<1>6. ASSUME NEW n \in T PROVE n + 1 \in T
    <2>1. ASSUME NEW s \in SUBSET D, Cardinality(s) =< n + 1, s # {} PROVE jt[s] = it[s]
        <3>1. PICK y \in s : TRUE
            BY <2>1
        <3>2. s \ {y} \in SUBSET D /\ Cardinality(s \ {y}) =< n
            BY <1>1, <1>2, <2>1
        <3>3. jt[s \ {y}] = it[s \ {y}]
            BY <1>6, <3>2
        <3> QED
            BY <1>3, <3>3
    <2> QED
        BY <1>4, <2>1
<1>7. T \in SUBSET Nat
    OBVIOUS
<1>8. T = Nat
    <2> HIDE DEF T
    <2> QED
        BY <1>5, <1>6, <1>7, SetInduction
<1>9. Cardinality(D) \in T
    BY <1>1, <1>8
<1>10. Cardinality(D) =< Cardinality(D)
    BY <1>1
<1> QED
    BY <1>9, <1>10

LEMMA SumIs ==
    ASSUME NEW f, NEW S, IsFiniteSet(S)
    PROVE  \E it : IsSum(it, f, S) /\ SumFunctionOnSet(f, S) = it[S]
<1> DEFINE it == CHOOSE it : IsSum(it, f, S)
<1>1. IsSum(it, f, S)
    BY SumsExist
<1>2. SumFunctionOnSet(f, S) = it[S]
    BY DEF SumFunctionOnSet, FoldFunctionOnSet, MapThenFoldSet, IsSum
<1> QED
    BY <1>1, <1>2

\* The sum over a finite set, one element apart.
THEOREM SumOfSet ==
    ASSUME NEW S, IsFiniteSet(S), NEW f, \A x \in S : f[x] \in Int
    PROVE  /\ SumFunctionOnSet(f, S) \in Int
           /\ S = {} => SumFunctionOnSet(f, S) = 0
           /\ \A y \in S : SumFunctionOnSet(f, S) = f[y] + SumFunctionOnSet(f, S \ {y})
<1>1. PICK it : IsSum(it, f, S) /\ SumFunctionOnSet(f, S) = it[S]
    BY SumIs
<1>2. it[S] \in Int /\ \A y \in S : it[S] = f[y] + it[S \ {y}]
    BY <1>1, AnyOrder DEF Orderless
<1>3. S = {} => it[S] = 0
    BY <1>1 DEF IsSum
<1>4. ASSUME NEW y \in S PROVE SumFunctionOnSet(f, S \ {y}) = it[S \ {y}]
    <2>1. S \ {y} \in SUBSET S /\ IsFiniteSet(S \ {y})
        BY FS_Subset
    <2>2. PICK jt : IsSum(jt, f, S \ {y}) /\ SumFunctionOnSet(f, S \ {y}) = jt[S \ {y}]
        BY <2>1, SumIs
    <2> QED
        BY <1>1, <2>1, <2>2, SameSums
<1> QED
    BY <1>1, <1>2, <1>3, <1>4

\* It depends on the values there only.
THEOREM SumsAgree ==
    ASSUME NEW S, IsFiniteSet(S), NEW f, NEW g, \A x \in S : f[x] \in Int /\ g[x] = f[x]
    PROVE  SumFunctionOnSet(g, S) = SumFunctionOnSet(f, S)
<1>1. PICK it : IsSum(it, f, S) /\ SumFunctionOnSet(f, S) = it[S]
    BY SumIs
<1>2. PICK jt : IsSum(jt, g, S) /\ SumFunctionOnSet(g, S) = jt[S]
    BY SumIs
<1> QED
    BY <1>1, <1>2, SameSums

\* The sum of a function, changed in one place or defined in one place more.
SumMoves(f, g, d) ==
    /\ SumFunction(f) \in Int
    /\ SumFunction(g) = SumFunction(f) + g[d] - (IF d \in DOMAIN f THEN f[d] ELSE 0)

THEOREM SumChanged ==
    ASSUME NEW f, IsFiniteSet(DOMAIN f), \A x \in DOMAIN f : f[x] \in Int,
           NEW g, NEW d, DOMAIN g = DOMAIN f \cup {d}, g[d] \in Int,
           \A x \in DOMAIN f \ {d} : g[x] = f[x]
    PROVE  SumMoves(f, g, d)
<1> DEFINE D == DOMAIN f \ {d}
<1>1. IsFiniteSet(D) /\ IsFiniteSet(DOMAIN g)
    BY FS_Subset, FS_AddElement
<1>2. SumFunctionOnSet(g, D) = SumFunctionOnSet(f, D) /\ SumFunctionOnSet(f, D) \in Int
    BY <1>1, SumsAgree, SumOfSet
<1>3. SumFunctionOnSet(g, DOMAIN g) = g[d] + SumFunctionOnSet(g, D)
    <2>1. \A x \in DOMAIN g : g[x] \in Int
        OBVIOUS
    <2>2. DOMAIN g \ {d} = D /\ d \in DOMAIN g
        OBVIOUS
    <2> HIDE DEF D
    <2> QED
        BY <1>1, <2>1, <2>2, SumOfSet
<1>4. d \in DOMAIN f => SumFunctionOnSet(f, DOMAIN f) = f[d] + SumFunctionOnSet(f, D)
    BY SumOfSet
<1>5. d \notin DOMAIN f => D = DOMAIN f
    OBVIOUS
<1>6. SumFunctionOnSet(f, DOMAIN f) \in Int
    BY SumOfSet
<1> HIDE DEF D
<1>7. SumFunction(g) = SumFunction(f) + g[d] - (IF d \in DOMAIN f THEN f[d] ELSE 0)
    <2>1. CASE d \in DOMAIN f
        BY <1>2, <1>3, <1>4, <1>6, <2>1 DEF SumFunction
    <2>2. CASE d \notin DOMAIN f
        BY <1>2, <1>3, <1>5, <1>6, <2>2 DEF SumFunction
    <2> QED
        BY <2>1, <2>2
<1> QED
    BY <1>6, <1>7 DEF SumFunction, SumMoves
=============================================================================
