------------------------------ MODULE Recursion ------------------------------
(***************************************************************************)
(* Induction and recursive definition over the natural numbers, and sums   *)
(* over finite sets, stated with sets and functions, so that the facts can *)
(* be cited where an operator parameter could not be instantiated.         *)
(***************************************************************************)
EXTENDS Naturals, FiniteSetTheorems, WellFoundedInduction, TLAPS

\* Every set of natural numbers but the empty one has a least element.
LEMMA LeastNat ==
  ASSUME NEW T, T \subseteq Nat, T # {}
  PROVE  \E m \in T : \A k \in T : m <= k
<1>1. PICK m \in T : \A y \in T : <<y, m>> \notin OpToRel(<, Nat)
  BY NatLessThanWellFounded, WFMin
<1>2. ASSUME NEW k \in T PROVE m <= k
  <2>1. <<k, m>> \notin OpToRel(<, Nat)
    BY <1>1
  <2>2. ~(k < m)
    BY <2>1 DEF OpToRel
  <2> QED
    BY <2>2
<1> QED
  BY <1>2

\* Induction: a set with 0 in it and with the successors of its numbers has them
\* all.
LEMMA SetInduction ==
  ASSUME NEW T, 0 \in T, \A n \in Nat : n \in T => n + 1 \in T
  PROVE  \A n \in Nat : n \in T
<1> DEFINE Out == {n \in Nat : n \notin T}
<1> SUFFICES ASSUME Out # {} PROVE FALSE
  OBVIOUS
<1>1. PICK m \in Out : \A k \in Out : m <= k
  BY LeastNat
<1>2. m \in Nat /\ m # 0 /\ m - 1 \in Nat /\ m - 1 \notin Out
  BY <1>1
<1>3. (m - 1) + 1 \in T
  BY <1>2
<1> QED
  BY <1>2, <1>3

\* There is a function that starts with a given value and steps by a given
\* function.
LEMMA RecursionTheorem ==
  ASSUME NEW S, NEW base \in S, NEW step \in [S -> S]
  PROVE  \E f \in [Nat -> S] : f[0] = base /\ \A n \in Nat \ {0} : f[n] = step[f[n - 1]]
<1> DEFINE Start(g, n) == /\ g \in [0..n -> S] /\ g[0] = base
                          /\ \A k \in 1..n : g[k] = step[g[k - 1]]
           Has == {n \in Nat : \E g : Start(g, n)}
<1>1. \A n \in Nat : n \in Has
  <2>1. 0 \in Has
    <3>1. Start([k \in 0..0 |-> base], 0)
      OBVIOUS
    <3> QED
      BY <3>1
  <2>2. ASSUME NEW n \in Nat, n \in Has PROVE n + 1 \in Has
    <3>1. PICK g : Start(g, n)
      BY <2>2
    <3> DEFINE h == [k \in 0..(n + 1) |-> IF k = n + 1 THEN step[g[n]] ELSE g[k]]
    <3>2. h \in [0..(n + 1) -> S] /\ h[0] = base
      BY <3>1
    <3>3. ASSUME NEW k \in 1..(n + 1) PROVE h[k] = step[h[k - 1]]
      BY <3>1
    <3>4. Start(h, n + 1)
      BY <3>2, <3>3
    <3> QED
      BY <3>4
  <2> HIDE DEF Has
  <2> QED
    BY <2>1, <2>2, SetInduction
<1>2. ASSUME NEW m \in Nat, NEW n \in Nat, m <= n, NEW g, NEW h, Start(g, m), Start(h, n)
      PROVE  g[m] = h[m]
  <2> DEFINE Same == {k \in Nat : k <= m => g[k] = h[k]}
  <2>1. 0 \in Same
    BY <1>2
  <2>2. ASSUME NEW k \in Nat, k \in Same PROVE k + 1 \in Same
    <3>1. SUFFICES ASSUME k + 1 <= m PROVE g[k + 1] = h[k + 1]
      OBVIOUS
    <3>2. g[k] = h[k]
      BY <2>2, <3>1
    <3>3. k + 1 \in 1..m /\ k + 1 \in 1..n /\ (k + 1) - 1 = k
      BY <1>2, <3>1
    <3> QED
      BY <1>2, <3>2, <3>3
  <2>3. m \in Same
    <3> HIDE DEF Same
    <3> QED
      BY <2>1, <2>2, SetInduction
  <2> QED
    BY <2>3
<1> DEFINE G == [n \in Nat |-> CHOOSE g : Start(g, n)]
           f == [n \in Nat |-> G[n][n]]
<1>3. ASSUME NEW n \in Nat PROVE Start(G[n], n)
  BY <1>1
<1> HIDE DEF G
<1>4. f \in [Nat -> S]
  BY <1>3
<1>5. ASSUME NEW n \in Nat
      PROVE  f[n] = IF n = 0 THEN base ELSE step[f[n - 1]]
  <2>1. CASE n = 0
    BY <2>1, <1>3
  <2>2. CASE n # 0
    <3>1. n - 1 \in Nat /\ n \in 1..n
      BY <2>2
    <3>2. G[n - 1][n - 1] = G[n][n - 1]
      <4> HIDE DEF Start
      <4> QED
        BY <1>2, <1>3, <3>1
    <3>3. G[n][n] = step[G[n][n - 1]]
      BY <1>3, <3>1
    <3> QED
      BY <2>2, <3>1, <3>2, <3>3
  <2> QED
    BY <2>1, <2>2
<1> QED
  BY <1>4, <1>5

-------------------------------------------------------------------------------
(* Sums over finite sets, in the way the folds of the libraries compute    *)
(* them: one element after the other is picked and added.                  *)

Pick(s) == CHOOSE x \in s : TRUE

IsSum(f, g, S) ==
  f = [s \in SUBSET S |-> IF s = {} THEN 0 ELSE g[Pick(s)] + f[s \ {Pick(s)}]]

Sum(g, S) == (CHOOSE f : IsSum(f, g, S))[S]

\* What is picked is an element, and one element fewer is left.
LEMMA Picked ==
  ASSUME NEW s, IsFiniteSet(s), s # {}
  PROVE  /\ Pick(s) \in s /\ IsFiniteSet(s \ {Pick(s)})
         /\ Cardinality(s) \in Nat /\ Cardinality(s) # 0
         /\ Cardinality(s \ {Pick(s)}) = Cardinality(s) - 1
<1>1. Pick(s) \in s
  BY DEF Pick
<1>2. Cardinality(s) \in Nat /\ Cardinality(s) # 0
  BY FS_CardinalityType, FS_EmptySet
<1> QED
  BY <1>1, <1>2, FS_RemoveElement

\* The sums of all subsets of a finite set exist.
LEMMA SumsExist ==
  ASSUME NEW S, IsFiniteSet(S), NEW g, \A x \in S : g[x] \in Nat
  PROVE  \E f \in [SUBSET S -> Nat] : IsSum(f, g, S)
<1> DEFINE F == [SUBSET S -> Nat]
           base == [s \in SUBSET S |-> 0]
           step == [f \in F |->
                     [s \in SUBSET S |-> IF s = {} THEN 0 ELSE g[Pick(s)] + f[s \ {Pick(s)}]]]
<1>1. base \in F /\ step \in [F -> F]
  <2>1. ASSUME NEW f \in F, NEW s \in SUBSET S, s # {}
        PROVE  g[Pick(s)] + f[s \ {Pick(s)}] \in Nat
    <3>1. Pick(s) \in S /\ s \ {Pick(s)} \in SUBSET S
      BY <2>1 DEF Pick
    <3> QED
      BY <3>1
  <2> QED
    BY <2>1
<1>2. PICK h \in [Nat -> F] : h[0] = base /\ \A n \in Nat \ {0} : h[n] = step[h[n - 1]]
  <2> HIDE DEF F, base, step
  <2> QED
    BY <1>1, RecursionTheorem
<1> DEFINE f == [s \in SUBSET S |-> h[Cardinality(s)][s]]
<1>3. \A s \in SUBSET S : IsFiniteSet(s) /\ Cardinality(s) \in Nat
  BY FS_Subset, FS_CardinalityType
<1>4. f \in [SUBSET S -> Nat]
  BY <1>2, <1>3
<1>5. ASSUME NEW s \in SUBSET S
      PROVE  f[s] = IF s = {} THEN 0 ELSE g[Pick(s)] + f[s \ {Pick(s)}]
  <2>1. CASE s = {}
    BY <1>2, <2>1, FS_EmptySet
  <2>2. CASE s # {}
    <3>1. /\ Cardinality(s) \in Nat \ {0} /\ s \ {Pick(s)} \in SUBSET S
          /\ Cardinality(s \ {Pick(s)}) = Cardinality(s) - 1
      BY <1>3, <2>2, Picked
    <3>2. h[Cardinality(s)] = step[h[Cardinality(s) - 1]] /\ h[Cardinality(s) - 1] \in F
      <4> HIDE DEF F, step
      <4>1. Cardinality(s) - 1 \in Nat
        BY <3>1
      <4> QED
        BY <1>2, <3>1, <4>1
    <3>3. h[Cardinality(s)][s] = g[Pick(s)] + h[Cardinality(s) - 1][s \ {Pick(s)}]
      BY <2>2, <3>2
    <3> QED
      BY <2>2, <3>1, <3>3
  <2> QED
    BY <2>1, <2>2
<1> HIDE DEF f
<1>6. IsSum(f, g, S)
  BY <1>4, <1>5 DEF IsSum
<1> QED
  BY <1>4, <1>6

\* A sum depends on the summands alone.
LEMMA SumsAgree ==
  ASSUME NEW S, NEW T, IsFiniteSet(S), IsFiniteSet(T), NEW g, NEW h, NEW e, NEW f,
         IsSum(e, g, S), IsSum(f, h, T),
         NEW s, s \in SUBSET S, s \in SUBSET T, \A x \in s : g[x] = h[x]
  PROVE  e[s] = f[s]
<1> DEFINE Same == {n \in Nat : \A t \in SUBSET s : Cardinality(t) = n => e[t] = f[t]}
<1>0. ASSUME NEW t \in SUBSET s
      PROVE  /\ IsFiniteSet(t) /\ t \in SUBSET S /\ t \in SUBSET T
             /\ e[t] = IF t = {} THEN 0 ELSE g[Pick(t)] + e[t \ {Pick(t)}]
             /\ f[t] = IF t = {} THEN 0 ELSE h[Pick(t)] + f[t \ {Pick(t)}]
  BY FS_Subset DEF IsSum
<1>1. 0 \in Same
  BY <1>0, FS_EmptySet
<1>2. ASSUME NEW n \in Nat, n \in Same PROVE n + 1 \in Same
  <2>1. SUFFICES ASSUME NEW t \in SUBSET s, Cardinality(t) = n + 1 PROVE e[t] = f[t]
    OBVIOUS
  <2>2. t # {}
    BY <2>1, FS_EmptySet
  <2>3. Pick(t) \in s /\ t \ {Pick(t)} \in SUBSET s /\ Cardinality(t \ {Pick(t)}) = n
    <3>1. IsFiniteSet(t)
      BY <1>0
    <3>2. Pick(t) \in t /\ Cardinality(t \ {Pick(t)}) = (n + 1) - 1
      BY <2>1, <2>2, <3>1, Picked
    <3> QED
      BY <3>2
  <2>4. e[t \ {Pick(t)}] = f[t \ {Pick(t)}] /\ g[Pick(t)] = h[Pick(t)]
    BY <1>2, <2>3
  <2> QED
    BY <1>0, <2>2, <2>4
<1> HIDE DEF Same
<1>3. Cardinality(s) \in Same
  BY <1>0, <1>1, <1>2, SetInduction, FS_CardinalityType
<1> QED
  BY <1>3 DEF Same

\* Whichever element is taken out, the sum is less by its summand.
LEMMA SumRemoves ==
  ASSUME NEW S, IsFiniteSet(S), NEW g, \A x \in S : g[x] \in Nat,
         NEW f, f \in [SUBSET S -> Nat], IsSum(f, g, S)
  PROVE  \A y \in S : f[S] = g[y] + f[S \ {y}]
<1> DEFINE Right == {n \in Nat : \A t \in SUBSET S : \A x \in t :
                       Cardinality(t) = n => f[t] = g[x] + f[t \ {x}]}
<1>0. \A t \in SUBSET S : /\ IsFiniteSet(t) /\ Cardinality(t) \in Nat
                          /\ f[t] = IF t = {} THEN 0 ELSE g[Pick(t)] + f[t \ {Pick(t)}]
  BY FS_Subset, FS_CardinalityType DEF IsSum
<1>1. 0 \in Right
  BY <1>0, FS_EmptySet
<1>2. ASSUME NEW n \in Nat, n \in Right PROVE n + 1 \in Right
  <2>1. SUFFICES ASSUME NEW t \in SUBSET S, NEW x \in t, Cardinality(t) = n + 1
                 PROVE  f[t] = g[x] + f[t \ {x}]
    OBVIOUS
  <2> DEFINE p == Pick(t)
  <2>2. /\ p \in t /\ f[t] = g[p] + f[t \ {p}]
        /\ Cardinality(t \ {p}) = n /\ t \ {p} \in SUBSET S
    <3>1. IsFiniteSet(t) /\ t # {}
      BY <1>0
    <3>2. p \in t /\ Cardinality(t \ {p}) = (n + 1) - 1
      BY <2>1, <3>1, Picked
    <3> QED
      BY <1>0, <3>1, <3>2
  <2>3. CASE p = x
    BY <2>2, <2>3
  <2>4. CASE p # x
    <3> DEFINE u == t \ {x}
               v == t \ {p}
               w == u \ {p}
    <3>1. x \in v /\ v \ {x} = w /\ w \in SUBSET S /\ u \in SUBSET S
      BY <2>4
    <3>2. f[v] = g[x] + f[w]
      BY <1>2, <2>2, <3>1
    <3>3. f[u] = g[p] + f[w]
      <4>1. Cardinality(u) = n /\ p \in u
        BY <1>0, <2>1, <2>2, <2>4, FS_RemoveElement
      <4> HIDE DEF u, p, w
      <4> QED
        BY <1>2, <3>1, <4>1 DEF w
    <3>4. g[x] \in Nat /\ g[p] \in Nat /\ f[w] \in Nat
      BY <2>2, <3>1
    <3> HIDE DEF u, v, w, p
    <3> QED
      BY <2>2, <3>2, <3>3, <3>4 DEF u, v
  <2> QED
    BY <2>3, <2>4
<1> HIDE DEF Right
<1>3. Cardinality(S) \in Right
  BY <1>0, <1>1, <1>2, SetInduction, FS_CardinalityType
<1> QED
  BY <1>0, <1>3 DEF Right

\* A function that is the sums of a set's subsets gives the sum of the set.
LEMMA SumIs ==
  ASSUME NEW S, IsFiniteSet(S), NEW g, \A x \in S : g[x] \in Nat, NEW f, IsSum(f, g, S)
  PROVE  f[S] = Sum(g, S)
<1> DEFINE e == CHOOSE f_1 : IsSum(f_1, g, S)
<1>1. IsSum(e, g, S)
  BY SumsExist
<1> HIDE DEF e
<1>2. f[S] = e[S]
  BY <1>1, SumsAgree
<1> QED
  BY <1>2 DEF e, Sum

\* What a sum is: the laws that determine it.
LEMMA SumLaws ==
  ASSUME NEW S, IsFiniteSet(S), NEW g, \A x \in S : g[x] \in Nat
  PROVE  /\ Sum(g, S) \in Nat
         /\ Sum(g, {}) = 0
         /\ \A y \in S : Sum(g, S) = g[y] + Sum(g, S \ {y})
         /\ \A h : (\A x \in S : g[x] = h[x]) => Sum(g, S) = Sum(h, S)
<1>1. PICK f \in [SUBSET S -> Nat] : IsSum(f, g, S)
  BY SumsExist
<1>2. f[S] = Sum(g, S)
  BY <1>1, SumIs
<1>3. Sum(g, {}) = 0
  <2>1. PICK e \in [SUBSET {} -> Nat] : IsSum(e, g, {})
    BY SumsExist, FS_EmptySet
  <2>2. e[{}] = Sum(g, {})
    BY <2>1, SumIs, FS_EmptySet
  <2>3. e[{}] = 0
    BY <2>1 DEF IsSum
  <2> QED
    BY <2>2, <2>3
<1>4. \A y \in S : f[S] = g[y] + f[S \ {y}]
  BY <1>1, SumRemoves
<1>5. ASSUME NEW y \in S PROVE Sum(g, S) = g[y] + Sum(g, S \ {y})
  <2>1. IsFiniteSet(S \ {y})
    BY FS_Subset
  <2>2. PICK e \in [SUBSET (S \ {y}) -> Nat] : IsSum(e, g, S \ {y})
    BY <2>1, SumsExist
  <2>3. e[S \ {y}] = Sum(g, S \ {y})
    BY <2>1, <2>2, SumIs
  <2>4. e[S \ {y}] = f[S \ {y}]
    BY <1>1, <2>1, <2>2, SumsAgree
  <2>5. f[S] = g[y] + f[S \ {y}]
    BY <1>4
  <2> QED
    BY <1>2, <2>3, <2>4, <2>5
<1>6. ASSUME NEW h, \A x \in S : g[x] = h[x] PROVE Sum(g, S) = Sum(h, S)
  <2>1. PICK e \in [SUBSET S -> Nat] : IsSum(e, h, S)
    BY <1>6, SumsExist
  <2>2. e[S] = Sum(h, S)
    BY <1>6, <2>1, SumIs
  <2>3. f[S] = e[S]
    BY <1>1, <1>6, <2>1, SumsAgree
  <2> QED
    BY <1>2, <2>2, <2>3
<1> QED
  BY <1>1, <1>2, <1>3, <1>5, <1>6

\* A part of the summands has no larger sum.
LEMMA SumMonotone ==
  ASSUME NEW S, IsFiniteSet(S), NEW g, \A x \in S : g[x] \in Nat, NEW T \in SUBSET S
  PROVE  Sum(g, T) <= Sum(g, S)
<1> DEFINE Below == {n \in Nat : \A U \in SUBSET S :
                       T \subseteq U /\ Cardinality(U \ T) = n => Sum(g, T) <= Sum(g, U)}
<1>0. ASSUME NEW U \in SUBSET S
      PROVE  /\ Sum(g, U) \in Nat /\ IsFiniteSet(U \ T) /\ Cardinality(U \ T) \in Nat
             /\ \A y \in U : Sum(g, U) = g[y] + Sum(g, U \ {y})
  BY FS_Subset, FS_CardinalityType, SumLaws
<1>1. 0 \in Below
  <2>1. ASSUME NEW U \in SUBSET S, T \subseteq U, Cardinality(U \ T) = 0 PROVE U = T
    BY <1>0, <2>1, FS_EmptySet
  <2>2. Sum(g, T) <= Sum(g, T)
    <3>1. Sum(g, T) \in Nat
      BY <1>0
    <3> QED
      BY <3>1
  <2> QED
    BY <2>1, <2>2
<1>2. ASSUME NEW n \in Nat, n \in Below PROVE n + 1 \in Below
  <2>1. SUFFICES ASSUME NEW U \in SUBSET S, T \subseteq U, Cardinality(U \ T) = n + 1
                 PROVE  Sum(g, T) <= Sum(g, U)
    OBVIOUS
  <2>2. U \ T # {}
    BY <2>1, FS_EmptySet
  <2>3. PICK y \in U \ T : TRUE
    BY <2>2
  <2>4. U \ {y} \in SUBSET S /\ T \subseteq U \ {y}
    BY <2>1
  <2>5. Cardinality((U \ {y}) \ T) = n
    <3>1. (U \ {y}) \ T = (U \ T) \ {y}
      OBVIOUS
    <3>2. IsFiniteSet(U \ T)
      BY <1>0
    <3>3. Cardinality((U \ T) \ {y}) = Cardinality(U \ T) - 1
      BY <2>3, <3>2, FS_RemoveElement
    <3> QED
      BY <2>1, <3>1, <3>3
  <2>6. Sum(g, T) <= Sum(g, U \ {y})
    BY <1>2, <2>4, <2>5
  <2>7. Sum(g, U) = g[y] + Sum(g, U \ {y}) /\ g[y] \in Nat
    BY <1>0, <2>3
  <2>8. Sum(g, T) \in Nat /\ Sum(g, U \ {y}) \in Nat
    BY <1>0, <2>4
  <2> QED
    BY <2>6, <2>7, <2>8
<1> HIDE DEF Below
<1>3. Cardinality(S \ T) \in Below
  BY <1>0, <1>1, <1>2, SetInduction
<1> QED
  BY <1>3 DEF Below

\* A sum is the sum over a part and the sum over the rest.
LEMMA SumSplits ==
  ASSUME NEW S, IsFiniteSet(S), NEW g, \A x \in S : g[x] \in Nat, NEW T \in SUBSET S
  PROVE  Sum(g, S) = Sum(g, T) + Sum(g, S \ T)
<1> DEFINE Right == {n \in Nat : \A U \in SUBSET S :
                       Cardinality(U) = n => Sum(g, S) = Sum(g, U) + Sum(g, S \ U)}
<1>0. ASSUME NEW U \in SUBSET S
      PROVE  /\ Sum(g, U) \in Nat /\ IsFiniteSet(U) /\ Cardinality(U) \in Nat
             /\ \A y \in U : Sum(g, U) = g[y] + Sum(g, U \ {y})
  BY FS_Subset, FS_CardinalityType, SumLaws
<1>1. 0 \in Right
  <2>1. ASSUME NEW U \in SUBSET S, Cardinality(U) = 0
        PROVE  Sum(g, S) = Sum(g, U) + Sum(g, S \ U)
    <3>1. U = {} /\ S \ U = S
      BY <1>0, <2>1, FS_EmptySet
    <3>2. Sum(g, {}) = 0 /\ Sum(g, S) \in Nat
      BY SumLaws
    <3> QED
      BY <3>1, <3>2
  <2> QED
    BY <2>1
<1>2. ASSUME NEW n \in Nat, n \in Right PROVE n + 1 \in Right
  <2>1. SUFFICES ASSUME NEW U \in SUBSET S, Cardinality(U) = n + 1
                 PROVE  Sum(g, S) = Sum(g, U) + Sum(g, S \ U)
    OBVIOUS
  <2>2. PICK y \in U : TRUE
    BY <2>1, FS_EmptySet
  <2>3. Cardinality(U \ {y}) = n
    <3>1. Cardinality(U \ {y}) = Cardinality(U) - 1
      BY <1>0, <2>2, FS_RemoveElement
    <3> QED
      BY <2>1, <3>1
  <2>4. Sum(g, S) = Sum(g, U \ {y}) + Sum(g, S \ (U \ {y}))
    BY <1>2, <2>3
  <2>5. Sum(g, U) = g[y] + Sum(g, U \ {y})
    BY <1>0, <2>2
  <2>6. Sum(g, S \ (U \ {y})) = g[y] + Sum(g, S \ U)
    <3>1. (S \ (U \ {y})) \ {y} = S \ U /\ y \in S \ (U \ {y})
      BY <2>2
    <3>2. S \ (U \ {y}) \in SUBSET S
      OBVIOUS
    <3> QED
      BY <1>0, <3>1, <3>2
  <2>7. /\ g[y] \in Nat /\ Sum(g, U \ {y}) \in Nat /\ Sum(g, S \ U) \in Nat
    <3>1. y \in S /\ U \ {y} \in SUBSET S /\ S \ U \in SUBSET S
      BY <2>2
    <3> QED
      BY <1>0, <3>1
  <2> QED
    BY <2>4, <2>5, <2>6, <2>7
<1> HIDE DEF Right
<1>3. Cardinality(T) \in Right
  BY <1>0, <1>1, <1>2, SetInduction
<1> QED
  BY <1>3 DEF Right

\* A sum is zero exactly if every summand is.
LEMMA SumZero ==
  ASSUME NEW S, IsFiniteSet(S), NEW g, \A x \in S : g[x] \in Nat
  PROVE  Sum(g, S) = 0 <=> \A x \in S : g[x] = 0
<1> DEFINE Right == {n \in Nat : \A U \in SUBSET S :
                       Cardinality(U) = n /\ (\A x \in U : g[x] = 0) => Sum(g, U) = 0}
<1>0. ASSUME NEW U \in SUBSET S
      PROVE  /\ Sum(g, U) \in Nat /\ IsFiniteSet(U) /\ Cardinality(U) \in Nat
             /\ \A y \in U : Sum(g, U) = g[y] + Sum(g, U \ {y})
  BY FS_Subset, FS_CardinalityType, SumLaws
<1>1. 0 \in Right
  <2>1. ASSUME NEW U \in SUBSET S, Cardinality(U) = 0 PROVE Sum(g, U) = 0
    <3>1. U = {}
      BY <1>0, <2>1, FS_EmptySet
    <3> QED
      BY <3>1, SumLaws
  <2> QED
    BY <2>1
<1>2. ASSUME NEW n \in Nat, n \in Right PROVE n + 1 \in Right
  <2>1. SUFFICES ASSUME NEW U \in SUBSET S, Cardinality(U) = n + 1, \A x \in U : g[x] = 0
                 PROVE  Sum(g, U) = 0
    OBVIOUS
  <2>2. PICK y \in U : TRUE
    BY <2>1, FS_EmptySet
  <2>3. Cardinality(U \ {y}) = n
    <3>1. Cardinality(U \ {y}) = Cardinality(U) - 1
      BY <1>0, <2>2, FS_RemoveElement
    <3> QED
      BY <2>1, <3>1
  <2>4. Sum(g, U \ {y}) = 0
    BY <1>2, <2>1, <2>3
  <2> QED
    BY <1>0, <2>1, <2>2, <2>4
<1> HIDE DEF Right
<1>3. Cardinality(S) \in Right
  BY <1>0, <1>1, <1>2, SetInduction
<1>4. ASSUME Sum(g, S) = 0, NEW y \in S PROVE g[y] = 0
  <2>1. Sum(g, S) = g[y] + Sum(g, S \ {y}) /\ Sum(g, S \ {y}) \in Nat
    BY <1>0
  <2> QED
    BY <1>4, <2>1
<1> QED
  BY <1>3, <1>4 DEF Right
-------------------------------------------------------------------------------
(* Recursive functions over a segment                                      *)

IsRun(f, base, step, m) ==
  f = [k \in 0..m |-> IF k = 0 THEN base ELSE step[<<k, f[k - 1]>>]]

\* A recursive function that goes through a sequence exists.
LEMMA RunsExist ==
  ASSUME NEW m \in Nat, NEW S, \A k \in 1..m : k \in S, NEW A, NEW base \in A,
         NEW step \in [S \X A -> A]
  PROVE  \E f \in [0..m -> A] : IsRun(f, base, step, m)
<1> DEFINE B == (0..m) \X A
           next == [b \in B |-> IF b[1] = m THEN b ELSE <<b[1] + 1, step[<<b[1] + 1, b[2]>>]>>]
<1>1. ASSUME NEW b \in B PROVE next[b] \in B
  <2>1. b[1] \in 0..m /\ b[2] \in A
    OBVIOUS
  <2>2. CASE b[1] # m
    <3>1. b[1] + 1 \in S /\ b[1] + 1 \in 0..m
      BY <2>1, <2>2
    <3>2. step[<<b[1] + 1, b[2]>>] \in A
      BY <2>1, <3>1
    <3> QED
      BY <2>2, <3>1, <3>2
  <2> QED
    BY <2>2
<1>2. <<0, base>> \in B
  OBVIOUS
<1>3. PICK h \in [Nat -> B] : h[0] = <<0, base>> /\ \A n \in Nat \ {0} : h[n] = next[h[n - 1]]
  <2> HIDE DEF B
  <2>1. next \in [B -> B]
    BY <1>1
  <2>2. \A D : \A d \in D : \A t \in [D -> D] :
          \E h \in [Nat -> D] : h[0] = d /\ \A n \in Nat \ {0} : h[n] = t[h[n - 1]]
    BY RecursionTheorem
  <2> HIDE DEF next
  <2> DEFINE first == <<0, base>>
  <2>3. first \in B
    BY <1>2
  <2> HIDE DEF first
  <2>4. \E h \in [Nat -> B] : h[0] = first /\ \A n \in Nat \ {0} : h[n] = next[h[n - 1]]
    <3>1. \A d \in B : \A t \in [B -> B] :
            \E h \in [Nat -> B] : h[0] = d /\ \A n \in Nat \ {0} : h[n] = t[h[n - 1]]
      BY <2>2
    <3>2. \A t \in [B -> B] :
            \E h \in [Nat -> B] : h[0] = first /\ \A n \in Nat \ {0} : h[n] = t[h[n - 1]]
      BY <2>3, <3>1
    <3> QED
      BY <2>1, <3>2
  <2> QED
    BY <2>4 DEF first
<1> DEFINE T == {n \in Nat : n <= m => h[n][1] = n}
<1>4. 0 \in T
  BY <1>3
<1>5. ASSUME NEW n \in Nat, n + 1 <= m, h[n][1] = n
      PROVE  h[n + 1] = <<n + 1, step[<<n + 1, h[n][2]>>]>>
  <2>1. h[n] \in B /\ n + 1 \in Nat \ {0} /\ (n + 1) - 1 = n /\ n # m
    BY <1>3, <1>5
  <2>2. h[n + 1] = next[h[n]]
    <3> HIDE DEF next, B
    <3> QED
      BY <1>3, <2>1
  <2>3. next[h[n]] = <<h[n][1] + 1, step[<<h[n][1] + 1, h[n][2]>>]>>
    <3>1. \A b \in B : b[1] # m => next[b] = <<b[1] + 1, step[<<b[1] + 1, b[2]>>]>>
      OBVIOUS
    <3> HIDE DEF next, B
    <3> QED
      BY <1>5, <2>1, <3>1
  <2> HIDE DEF next
  <2> QED
    BY <1>5, <2>2, <2>3
<1>6. ASSUME NEW n \in Nat, n \in T PROVE n + 1 \in T
  <2> SUFFICES ASSUME n + 1 <= m PROVE h[n + 1][1] = n + 1
    OBVIOUS
  <2>1. h[n][1] = n
    BY <1>6
  <2>2. h[n + 1] = <<n + 1, step[<<n + 1, h[n][2]>>]>>
    BY <1>5, <2>1
  <2> HIDE DEF B, next, T
  <2> QED
    BY <2>2
<1> HIDE DEF T, next
<1>7. \A n \in Nat : n \in T
  BY <1>4, <1>6, SetInduction
<1> DEFINE f == [k \in 0..m |-> h[k][2]]
<1>8. f \in [0..m -> A]
  BY <1>3
<1>9. ASSUME NEW k \in 0..m
      PROVE  f[k] = IF k = 0 THEN base ELSE step[<<k, f[k - 1]>>]
  <2>1. CASE k = 0
    BY <1>3, <2>1
  <2>2. CASE k # 0
    <3>1. k - 1 \in Nat /\ (k - 1) + 1 = k /\ k <= m /\ k - 1 <= m /\ k - 1 \in 0..m
      BY <2>2
    <3>2. h[k - 1][1] = k - 1
      BY <1>7, <3>1 DEF T
    <3>3. h[k] = <<k, step[<<k, h[k - 1][2]>>]>>
      BY <1>5, <3>1, <3>2
    <3> QED
      BY <2>2, <3>1, <3>3
  <2> QED
    BY <2>1, <2>2
<1> HIDE DEF f
<1>10. IsRun(f, base, step, m)
  BY <1>8, <1>9 DEF IsRun
<1> QED
  BY <1>8, <1>10

-------------------------------------------------------------------------------
(* Orders: the last of some numbers, and the first ones                    *)

\* Of some numbers up to n one is the last in an order.
LEMMA LastInOrder ==
  ASSUME NEW n \in Nat, NEW o, \A k \in 1..n : o[k] \in Nat
  PROVE  \A S \in SUBSET (1..n) : S # {} => \E m \in S : \A k \in S : o[k] <= o[m]
<1> DEFINE Has(S) == \E m \in S : \A k \in S : o[k] <= o[m]
           T == {i \in Nat : i <= n => \A S \in SUBSET (1..i) : S # {} => Has(S)}
<1>1. 0 \in T
  <2>1. \A S \in SUBSET (1..0) : S = {}
    OBVIOUS
  <2> HIDE DEF Has
  <2> QED
    BY <2>1
<1>2. ASSUME NEW i \in Nat, i \in T PROVE i + 1 \in T
  <2> SUFFICES ASSUME i + 1 <= n, NEW S \in SUBSET (1..(i + 1)), S # {} PROVE Has(S)
    OBVIOUS
  <2>1. \A U \in SUBSET (1..i) : U # {} => Has(U)
    BY <1>2
  <2>2. \A k \in S : o[k] \in Nat
    OBVIOUS
  <2>3. S \ {i + 1} \in SUBSET (1..i)
    OBVIOUS
  <2>4. CASE S \ {i + 1} = {}
    <3>1. S = {i + 1}
      BY <2>4
    <3> QED
      BY <2>2, <3>1
  <2>5. CASE S \ {i + 1} # {}
    <3>1. PICK m \in S \ {i + 1} : \A k \in S \ {i + 1} : o[k] <= o[m]
      <4>1. Has(S \ {i + 1})
        BY <2>1, <2>3, <2>5
      <4> QED
        BY <4>1
    <3>2. CASE i + 1 \in S /\ o[m] <= o[i + 1]
      <4>1. \A k \in S : o[k] <= o[i + 1]
        <5> TAKE k \in S
        <5>1. o[m] \in Nat /\ o[k] \in Nat /\ o[i + 1] \in Nat
          BY <2>2, <3>2
        <5>2. CASE k = i + 1
          BY <5>1, <5>2
        <5>3. CASE k # i + 1
          <6>1. o[k] <= o[m]
            BY <3>1, <5>3
          <6> QED
            BY <3>2, <5>1, <6>1
        <5> QED
          BY <5>2, <5>3
      <4> QED
        BY <3>2, <4>1
    <3>3. CASE ~(i + 1 \in S /\ o[m] <= o[i + 1])
      <4>1. \A k \in S : o[k] <= o[m]
        <5> TAKE k \in S
        <5>1. o[m] \in Nat /\ o[k] \in Nat
          BY <2>2
        <5>2. CASE k = i + 1
          BY <3>3, <5>1, <5>2
        <5>3. CASE k # i + 1
          BY <3>1, <5>3
        <5> QED
          BY <5>2, <5>3
      <4> QED
        BY <4>1
    <3> QED
      BY <3>2, <3>3
  <2> QED
    BY <2>4, <2>5
<1>3. n \in T
  <2> HIDE DEF T
  <2> QED
    BY <1>1, <1>2, SetInduction
<1> QED
  BY <1>3

\* A page: of the keys R up to n in the order o, those that fewer than size others
\* come before.
IsPage(n, R, o, before, size, P) ==
  /\ n \in Nat /\ R \in SUBSET (1..n) /\ R # {} /\ o \in [1..n -> Nat]
  /\ before \in [R -> SUBSET R] /\ \A k, j \in R : j \in before[k] <=> o[j] < o[k]
  /\ size \in Nat \ {0}
  /\ P \in SUBSET R /\ \A k \in R : k \in P <=> Cardinality(before[k]) < size

LEMMA PageIs ==
  ASSUME NEW n, NEW R, NEW o, NEW before, NEW size, NEW P, IsPage(n, R, o, before, size, P)
  PROVE  /\ P # {} /\ Cardinality(P) \in Nat
         /\ \A k \in R, m \in P : o[k] <= o[m] => k \in P
         /\ Cardinality(P) < size => P = R
         /\ \E m \in P : \A k \in P : o[k] <= o[m]
<1> USE DEF IsPage
<1> DEFINE Before(k) == before[k]
<1>1. \A k \in R : k \in 1..n /\ o[k] \in Nat
  OBVIOUS
<1>2. IsFiniteSet(R) /\ \A S \in SUBSET R : IsFiniteSet(S) /\ Cardinality(S) \in Nat
  <2>1. IsFiniteSet(1..n)
    BY FS_Interval
  <2>2. \A S \in SUBSET (1..n) : IsFiniteSet(S)
    BY <2>1, FS_Subset
  <2>3. \A S \in SUBSET R : S \in SUBSET (1..n)
    OBVIOUS
  <2> QED
    BY <2>2, <2>3, FS_CardinalityType
<1>3. \A k \in R : Before(k) \in SUBSET R
  OBVIOUS
<1>4. P \in SUBSET R
  OBVIOUS
<1>5. ASSUME NEW k \in R, NEW m \in P, o[k] <= o[m] PROVE k \in P
  <2>1. m \in R /\ Cardinality(Before(m)) < size
    OBVIOUS
  <2>2. Before(k) \in SUBSET Before(m)
    <3>1. \A j \in R : o[j] < o[k] => o[j] < o[m]
      BY <1>1, <1>5, <2>1
    <3> QED
      BY <3>1
  <2>3. Cardinality(Before(k)) <= Cardinality(Before(m))
    <3>1. IsFiniteSet(Before(m))
      BY <1>2, <1>3, <2>1
    <3> HIDE DEF Before
    <3> QED
      BY <2>2, <3>1, FS_Subset
  <2>4. Cardinality(Before(k)) \in Nat /\ Cardinality(Before(m)) \in Nat
    <3> HIDE DEF Before
    <3> QED
      BY <1>2, <1>3, <2>1
  <2>5. Cardinality(Before(k)) < size
    <3> HIDE DEF Before
    <3> QED
      BY <2>1, <2>3, <2>4
  <2> QED
    BY <2>5
\* The least that is not on the page has the whole page before it.
<1>6. ASSUME NEW k \in R, k \notin P,
             \A j \in R : j \notin P => o[k] <= o[j]
      PROVE  ~(Cardinality(P) < size)
  <2>1. Before(k) \in SUBSET P
    <3>1. \A j \in R : o[j] < o[k] => j \in P
      BY <1>1, <1>6
    <3> QED
      BY <3>1
  <2>2. Cardinality(Before(k)) <= Cardinality(P)
    <3>1. IsFiniteSet(P)
      BY <1>2, <1>4
    <3> HIDE DEF Before
    <3> QED
      BY <2>1, <3>1, FS_Subset
  <2>3. ~(Cardinality(Before(k)) < size)
    BY <1>6
  <2>4. Cardinality(Before(k)) \in Nat /\ Cardinality(P) \in Nat
    <3> HIDE DEF Before
    <3> QED
      BY <1>2, <1>3, <1>4
  <2> HIDE DEF Before
  <2> QED
    BY <2>2, <2>3, <2>4
<1>7. ASSUME NEW S \in SUBSET R, S # {} PROVE \E k \in S : \A j \in S : o[k] <= o[j]
  <2> DEFINE V == {o[k] : k \in S}
  <2>1. V \subseteq Nat /\ V # {}
    BY <1>1, <1>7
  <2>2. PICK v \in V : \A w \in V : v <= w
    <3> HIDE DEF V
    <3> QED
      BY <2>1, LeastNat
  <2>3. PICK k \in S : o[k] = v
    OBVIOUS
  <2>4. \A j \in S : o[j] \in V
    OBVIOUS
  <2> HIDE DEF V
  <2> QED
    BY <2>2, <2>3, <2>4
<1>8. Cardinality(P) < size => P = R
  <2> SUFFICES ASSUME Cardinality(P) < size, P # R PROVE FALSE
    OBVIOUS
  <2>1. R \ P \in SUBSET R /\ R \ P # {}
    BY <1>4
  <2>2. PICK k \in R \ P : \A j \in R \ P : o[k] <= o[j]
    BY <1>7, <2>1
  <2> QED
    BY <1>6, <2>2
<1>9. P # {}
  <2>1. SUFFICES ASSUME P = {} PROVE FALSE
    OBVIOUS
  <2>2. Cardinality(P) = 0 /\ 0 < size
    <3>1. Cardinality({}) = 0
      BY FS_EmptySet
    <3>2. 0 < size
      OBVIOUS
    <3> QED
      BY <2>1, <3>1, <3>2
  <2>3. P = R
    <3>1. Cardinality(P) < size
      BY <2>2
    <3> QED
      BY <1>8, <3>1
  <2> QED
    BY <2>1, <2>3
<1>10. \E m \in P : \A k \in P : o[k] <= o[m]
  <2>1. P \in SUBSET (1..n)
    BY <1>4
  <2> QED
    BY <1>9, <2>1, LastInOrder
<1>11. Cardinality(P) \in Nat
  BY <1>2, <1>4
<1> QED
  BY <1>4, <1>5, <1>8, <1>9, <1>10, <1>11
===============================================================================
