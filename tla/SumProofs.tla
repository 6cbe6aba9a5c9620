----------------------------- MODULE SumProofs -----------------------------
(***************************************************************************)
(* Sums over finite sets.  MapThenSumSet takes the elements of a set one   *)
(* by one, in an order of CHOOSE's making; what the other proofs need is   *)
(* that the order does not matter: any element can be set apart, and two   *)
(* sets whose elements correspond one to one have the same sum.            *)
(*                                                                         *)
(* The weight of an element is a function here, so that every statement is *)
(* first order.  Each induction is over the subsets of a finite set: of    *)
(* those that break the claim, a least one is taken.                       *)
(***************************************************************************)
EXTENDS Integers, FiniteSets, FiniteSetTheorems, WellFoundedInduction, TLAPS

\* The element of a set that MapThenSumSet takes first.
First(s) == CHOOSE x \in s : TRUE

\* The function that MapThenSumSet defines on the subsets of a set.
IsSum(g, w, S) ==
    g = [s \in SUBSET S |->
            IF s = {} THEN 0
            ELSE w[First(s)] + g[s \ {First(s)}]]

\* A set of subsets of a finite set has a least member.
LEMMA LeastSubset ==
    ASSUME NEW S, IsFiniteSet(S), NEW Bad \in SUBSET (SUBSET S), Bad # {}
    PROVE  \E T \in Bad : \A U \in SUBSET T : U # T => U \notin Bad
<1>1. IsWellFoundedOn(StrictSubsetOrdering(S), SUBSET S)
  BY FS_StrictSubsetOrderingWellFounded, FS_FiniteSubsetsOfFinite
<1>2. PICK T \in Bad : \A U \in Bad : << U, T >> \notin StrictSubsetOrdering(S)
  BY <1>1, WFMin, Zenon
<1>3. ASSUME NEW U \in SUBSET T, U # T, U \in Bad
      PROVE  FALSE
  <2>1. << U, T >> \in StrictSubsetOrdering(S)
    BY <1>3 DEF StrictSubsetOrdering
  <2> QED
    BY <1>2, <1>3, <2>1
<1> QED
  BY <1>2, <1>3

\* What is chosen from a set is in it, and less remains.
LEMMA ChosenIn ==
    ASSUME NEW s, s # {}
    PROVE  /\ First(s) \in s
           /\ s \ {First(s)} # s
  BY DEF First

\* What the function is at one subset.
SumStep(g, w, s) ==
    g[s] = IF s = {} THEN 0 ELSE w[First(s)] + g[s \ {First(s)}]

LEMMA SumUnfolds ==
    ASSUME NEW S, NEW w, NEW g, IsSum(g, w, S), NEW s \in SUBSET S
    PROVE  SumStep(g, w, s)
<1> DEFINE body(t) ==
      IF t = {} THEN 0
      ELSE w[First(t)] + g[t \ {First(t)}]
<1>1. g = [t \in SUBSET S |-> body(t)]
  BY DEF IsSum
<1> HIDE DEF body
<1>2. g[s] = body(s)
  BY <1>1
<1> QED
  BY <1>2 DEF body, SumStep

\* Sums over two sets agree where both are defined.
LEMMA SumsAgree ==
    ASSUME NEW S, IsFiniteSet(S), NEW w, NEW g, IsSum(g, w, S),
           NEW R, NEW h, IsSum(h, w, R), S \subseteq R
    PROVE  \A s \in SUBSET S : g[s] = h[s]
<1> DEFINE Bad == { s \in SUBSET S : g[s] # h[s] }
<1>1. CASE Bad # {}
  <2>1. PICK T \in Bad : \A U \in SUBSET T : U # T => U \notin Bad
    <3>1. Bad \in SUBSET (SUBSET S)
      OBVIOUS
    <3> HIDE DEF Bad
    <3> QED
      BY <1>1, <3>1, LeastSubset
  <2> DEFINE y == First(T)
  <2>2. /\ g[T] = IF T = {} THEN 0 ELSE w[y] + g[T \ {y}]
        /\ h[T] = IF T = {} THEN 0 ELSE w[y] + h[T \ {y}]
    <3>1. T \in SUBSET S /\ T \in SUBSET R
      OBVIOUS
    <3>2. SumStep(g, w, T)
      BY <3>1, SumUnfolds
    <3>3. SumStep(h, w, T)
      BY <3>1, SumUnfolds
    <3> QED
      BY <3>2, <3>3 DEF SumStep
  <2>3. T # {}
    BY <2>2
  <2>4. T \ {y} # T
    BY <2>3, ChosenIn
  <2>5. g[T \ {y}] = h[T \ {y}]
    BY <2>1, <2>4
  <2> QED
    BY <2>1, <2>2, <2>5
<1> QED
  BY <1>1

\* The sum exists on every finite set.
LEMMA SumExists ==
    ASSUME NEW S, IsFiniteSet(S), NEW w
    PROVE  \E g : IsSum(g, w, S)
<1> DEFINE Bad == { s \in SUBSET S : ~ \E g : IsSum(g, w, s) }
           fn(s) == CHOOSE g : IsSum(g, w, s)
           G(T) == [s \in SUBSET T |->
                      IF s = {} THEN 0
                      ELSE w[First(s)]
                             + fn(s \ {First(s)})[s \ {First(s)}]]
<1>1. CASE Bad # {}
  <2>1. PICK T \in Bad : \A U \in SUBSET T : U # T => U \notin Bad
    <3>1. Bad \in SUBSET (SUBSET S)
      OBVIOUS
    <3> HIDE DEF Bad
    <3> QED
      BY <1>1, <3>1, LeastSubset
  <2>2. ASSUME NEW U \in SUBSET T, U # T
        PROVE  IsSum(fn(U), w, U) /\ IsFiniteSet(U)
    <3>1. \E g : IsSum(g, w, U)
      BY <2>1, <2>2
    <3>2. IsSum(fn(U), w, U)
      BY <3>1
    <3> QED
      BY <3>2, FS_Subset
  <2>3. ASSUME NEW U \in SUBSET T, U # T
        PROVE  G(T)[U] = fn(U)[U]
    <3> DEFINE y == First(U)
               V == U \ {y}
    <3>1. fn(U)[U] = IF U = {} THEN 0 ELSE w[y] + fn(U)[V]
      BY <2>2, <2>3, SumUnfolds DEF SumStep
    <3>2. G(T)[U] = IF U = {} THEN 0 ELSE w[y] + fn(V)[V]
      OBVIOUS
    <3>3. ASSUME U # {} PROVE fn(V)[V] = fn(U)[V]
      <4>1. V \in SUBSET T /\ V # T /\ V \subseteq U
        BY <2>3
      <4>2. IsSum(fn(V), w, V) /\ IsFiniteSet(V) /\ IsSum(fn(U), w, U)
        BY <2>2, <2>3, <4>1
      <4> HIDE DEF fn, V
      <4> QED
        BY <4>1, <4>2, SumsAgree
    <3> QED
      BY <3>1, <3>2, <3>3
  <2>4. IsSum(G(T), w, T)
    <3> DEFINE body(s) == IF s = {} THEN 0
                          ELSE w[First(s)]
                                 + G(T)[s \ {First(s)}]
    <3>1. ASSUME NEW s \in SUBSET T PROVE G(T)[s] = body(s)
      <4> DEFINE y == First(s)
                 V == s \ {y}
      <4>1. G(T)[s] = IF s = {} THEN 0 ELSE w[y] + fn(V)[V]
        OBVIOUS
      <4>2. s # {} => V \in SUBSET T /\ V # T
        BY ChosenIn
      <4>3. s # {} => G(T)[V] = fn(V)[V]
        BY <2>3, <4>2
      <4> QED
        BY <4>1, <4>3
    <3>2. G(T) = [s \in SUBSET T |-> body(s)]
      <4> DEFINE gt == G(T)
      <4>1. gt = [s \in SUBSET T |-> gt[s]]
        OBVIOUS
      <4> HIDE DEF G
      <4> QED
        BY <3>1, <4>1
    <3> QED
      BY <3>2 DEF IsSum
  <2> QED
    BY <2>1, <2>4
<1>2. CASE Bad = {}
  <2>1. S \in SUBSET S
    OBVIOUS
  <2> QED
    BY <1>2, <2>1
<1> QED
  BY <1>1, <1>2

\* The sum of the weights of a finite set.
SumOver(w, S) == (CHOOSE g : IsSum(g, w, S))[S]

LEMMA SumIsAny ==
    ASSUME NEW S, IsFiniteSet(S), NEW w, NEW g, NEW R, IsSum(g, w, R), S \subseteq R
    PROVE  g[S] = SumOver(w, S)
<1> DEFINE h == CHOOSE f : IsSum(f, w, S)
<1>1. IsSum(h, w, S)
  BY SumExists
<1> HIDE DEF h
<1>2. h[S] = g[S]
  BY <1>1, SumsAgree
<1> QED
  BY <1>2 DEF SumOver, h

\* Weights that agree on a set have the same sum.
LEMMA SumSameWeights ==
    ASSUME NEW S, IsFiniteSet(S), NEW v, NEW w, \A x \in S : v[x] = w[x]
    PROVE  SumOver(v, S) = SumOver(w, S)
<1>1. PICK g : IsSum(g, w, S)
  BY SumExists
<1>2. IsSum(g, v, S)
  <2> DEFINE body(u, s) == IF s = {} THEN 0
                           ELSE u[First(s)]
                                  + g[s \ {First(s)}]
  <2>1. \A s \in SUBSET S : body(v, s) = body(w, s)
    BY ChosenIn
  <2>2. g = [s \in SUBSET S |-> body(w, s)]
    BY <1>1 DEF IsSum
  <2>3. g = [s \in SUBSET S |-> body(v, s)]
    <3> HIDE DEF body
    <3> QED
      BY <2>1, <2>2
  <2> QED
    BY <2>3 DEF IsSum
<1> QED
  BY <1>1, <1>2, SumIsAny

LEMMA SumEmpty ==
    ASSUME NEW w
    PROVE  SumOver(w, {}) = 0
<1>1. PICK g : IsSum(g, w, {})
  BY SumExists, FS_EmptySet
<1>2. g[{}] = 0
  BY <1>1, SumUnfolds DEF SumStep
<1> QED
  BY <1>1, <1>2, SumIsAny, FS_EmptySet

\* The element that is taken first.
LEMMA SumChosen ==
    ASSUME NEW S, IsFiniteSet(S), S # {}, NEW w
    PROVE  SumOver(w, S) = w[First(S)]
                             + SumOver(w, S \ {First(S)})
<1> DEFINE y == First(S)
           V == S \ {y}
<1>1. PICK g : IsSum(g, w, S)
  BY SumExists
<1>2. g[S] = w[y] + g[V]
  BY <1>1, SumUnfolds DEF SumStep
<1>3. V \subseteq S /\ IsFiniteSet(V)
  BY FS_Subset
<1>4. g[V] = SumOver(w, V) /\ g[S] = SumOver(w, S)
  <2> HIDE DEF V
  <2> QED
    BY <1>1, <1>3, SumIsAny
<1> QED
  BY <1>2, <1>4

LEMMA SumTyped ==
    ASSUME NEW S, IsFiniteSet(S), NEW w, \A x \in S : w[x] \in Nat
    PROVE  SumOver(w, S) \in Nat
<1> DEFINE Bad == { s \in SUBSET S : SumOver(w, s) \notin Nat }
<1>1. CASE Bad # {}
  <2>1. PICK T \in Bad : \A U \in SUBSET T : U # T => U \notin Bad
    <3>1. Bad \in SUBSET (SUBSET S)
      OBVIOUS
    <3> HIDE DEF Bad
    <3> QED
      BY <1>1, <3>1, LeastSubset
  <2> DEFINE y == First(T)
  <2>2. T # {}
    <3>1. SumOver(w, T) \notin Nat
      OBVIOUS
    <3>2. SumOver(w, {}) \in Nat
      BY SumEmpty
    <3> QED
      BY <3>1, <3>2
  <2>3. T \ {y} \notin Bad /\ y \in T /\ T \in SUBSET S
    BY <2>1, <2>2, ChosenIn
  <2>4. SumOver(w, T \ {y}) \in Nat /\ w[y] \in Nat
    BY <2>3
  <2>5. SumOver(w, T) = w[y] + SumOver(w, T \ {y})
    BY <2>2, <2>3, FS_Subset, SumChosen
  <2> QED
    BY <2>1, <2>4, <2>5
<1>2. CASE Bad = {}
  BY <1>2
<1> QED
  BY <1>1, <1>2

\* Any element can be set apart.
LEMMA SumApart ==
    ASSUME NEW S, IsFiniteSet(S), NEW w, \A x \in S : w[x] \in Nat
    PROVE  \A x \in S : SumOver(w, S) = w[x] + SumOver(w, S \ {x})
<1> DEFINE Apart(s) == \A x \in s : SumOver(w, s) = w[x] + SumOver(w, s \ {x})
           Bad == { s \in SUBSET S : ~ Apart(s) }
<1>1. CASE Bad # {}
  <2>1. PICK T \in Bad : \A U \in SUBSET T : U # T => U \notin Bad
    <3>1. Bad \in SUBSET (SUBSET S)
      OBVIOUS
    <3> HIDE DEF Bad
    <3> QED
      BY <1>1, <3>1, LeastSubset
  <2>2. T \in SUBSET S /\ IsFiniteSet(T)
    BY FS_Subset
  <2>3. PICK x \in T : SumOver(w, T) # w[x] + SumOver(w, T \ {x})
    OBVIOUS
  <2> DEFINE y == First(T)
  <2>4. y \in T /\ SumOver(w, T) = w[y] + SumOver(w, T \ {y})
    BY <2>2, <2>3, ChosenIn, SumChosen
  <2> HIDE DEF y
  <2>5. x # y
    BY <2>3, <2>4
  <2>6. Apart(T \ {x}) /\ Apart(T \ {y})
    BY <2>1, <2>2, <2>4
  <2> DEFINE V == (T \ {x}) \ {y}
  <2>7. V = (T \ {y}) \ {x} /\ V \in SUBSET S /\ IsFiniteSet(V)
    BY <2>2, FS_Subset
  <2>8. /\ SumOver(w, T \ {x}) = w[y] + SumOver(w, V)
        /\ SumOver(w, T \ {y}) = w[x] + SumOver(w, V)
    <3>1. y \in T \ {x} /\ x \in T \ {y}
      BY <2>4, <2>5
    <3> QED
      BY <2>6, <2>7, <3>1
  <2>9. w[x] \in Nat /\ w[y] \in Nat /\ SumOver(w, V) \in Nat
    BY <2>2, <2>4, <2>7, SumTyped
  <2> QED
    BY <2>3, <2>4, <2>8, <2>9
<1>2. CASE Bad = {}
  <2>1. S \in SUBSET S
    OBVIOUS
  <2> QED
    BY <1>2, <2>1
<1> QED
  BY <1>1, <1>2

LEMMA SumSingleton ==
    ASSUME NEW x, NEW w, w[x] \in Nat
    PROVE  SumOver(w, {x}) = w[x]
<1>1. IsFiniteSet({x}) /\ {x} \ {x} = {}
  BY FS_Singleton
<1>2. SumOver(w, {x}) = w[x] + SumOver(w, {x} \ {x})
  BY <1>1, SumApart
<1> QED
  BY <1>1, <1>2, SumEmpty

\* One element more.
LEMMA SumAdd ==
    ASSUME NEW S, IsFiniteSet(S), NEW x, x \notin S,
           NEW w, \A y \in S \cup {x} : w[y] \in Nat
    PROVE  SumOver(w, S \cup {x}) = SumOver(w, S) + w[x]
<1>1. IsFiniteSet(S \cup {x}) /\ (S \cup {x}) \ {x} = S
  BY FS_AddElement
<1>2. SumOver(w, S \cup {x}) = w[x] + SumOver(w, S)
  BY <1>1, SumApart
<1>3. SumOver(w, S) \in Nat /\ w[x] \in Nat
  BY SumTyped
<1> QED
  BY <1>2, <1>3

\* A set whose elements have partners of the same weight in another set, each
\* its own, does not outweigh it.
LEMMA SumInjects ==
    ASSUME NEW S, IsFiniteSet(S), NEW w, \A x \in S : w[x] \in Nat,
           NEW f, NEW v, NEW R, IsFiniteSet(R), \A x \in R : v[x] \in Nat,
           \A x \in S : f[x] \in R /\ v[f[x]] = w[x],
           \A x, y \in S : f[x] = f[y] => x = y
    PROVE  SumOver(w, S) <= SumOver(v, R)
<1> DEFINE Rest(s) == { z \in R : \A x \in s : f[x] # z }
           Good(s) == SumOver(w, s) + SumOver(v, Rest(s)) = SumOver(v, R)
           Bad == { s \in SUBSET S : ~ Good(s) }
<1>0. \A s \in SUBSET S : /\ IsFiniteSet(s) /\ IsFiniteSet(Rest(s))
                          /\ SumOver(w, s) \in Nat
                          /\ SumOver(v, Rest(s)) \in Nat
  <2>1. ASSUME NEW s \in SUBSET S
        PROVE  /\ IsFiniteSet(s) /\ IsFiniteSet(Rest(s))
               /\ SumOver(w, s) \in Nat /\ SumOver(v, Rest(s)) \in Nat
    <3>1. Rest(s) \subseteq R /\ IsFiniteSet(s) /\ IsFiniteSet(Rest(s))
      BY FS_Subset
    <3> HIDE DEF Rest
    <3> QED
      BY <3>1, SumTyped
  <2> QED
    BY <2>1
<1>1. CASE Bad # {}
  <2>1. PICK T \in Bad : \A U \in SUBSET T : U # T => U \notin Bad
    <3>1. Bad \in SUBSET (SUBSET S)
      OBVIOUS
    <3> HIDE DEF Bad
    <3> QED
      BY <1>1, <3>1, LeastSubset
  <2>2. T \in SUBSET S /\ ~ Good(T)
    OBVIOUS
  <2>3. CASE T = {}
    <3>1. Rest({}) = R
      OBVIOUS
    <3>2. SumOver(w, {}) = 0 /\ SumOver(v, R) \in Nat
      BY SumEmpty, SumTyped
    <3> QED
      BY <2>2, <2>3, <3>1, <3>2
  <2>4. CASE T # {}
    <3>1. PICK x \in T : TRUE
      BY <2>4
    <3> DEFINE U == T \ {x}
               z == f[x]
    <3>2. U \in SUBSET T /\ U # T /\ U \in SUBSET S
      BY <3>1, <2>2
    <3>3. Good(U)
      BY <2>1, <3>2
    <3>4. z \in Rest(U) /\ Rest(T) = Rest(U) \ {z} /\ v[z] = w[x] /\ x \in S
      BY <2>2, <3>1
    <3>5. SumOver(w, T) = w[x] + SumOver(w, U)
      BY <1>0, <2>2, <3>1, SumApart
    <3>6. SumOver(v, Rest(U)) = v[z] + SumOver(v, Rest(T))
      <4>1. IsFiniteSet(Rest(U)) /\ \A y \in Rest(U) : v[y] \in Nat
        BY <1>0, <3>2
      <4> HIDE DEF Rest, z, U
      <4>2. \A y \in Rest(U) :
               SumOver(v, Rest(U)) = v[y] + SumOver(v, Rest(U) \ {y})
        BY <4>1, SumApart
      <4> QED
        BY <3>4, <4>2
    <3>7. /\ SumOver(w, U) \in Nat /\ SumOver(v, Rest(T)) \in Nat
          /\ w[x] \in Nat
      BY <1>0, <2>2, <3>2, <3>4
    <3> HIDE DEF U, z, Rest, Bad
    <3> QED
      BY <2>2, <3>3, <3>4, <3>5, <3>6, <3>7
  <2> QED
    BY <2>3, <2>4
<1>2. CASE Bad = {}
  <2>1. Good(S) /\ S \in SUBSET S
    BY <1>2
  <2>2. SumOver(w, S) \in Nat /\ SumOver(v, Rest(S)) \in Nat
    BY <1>0, <2>1
  <2> HIDE DEF Rest
  <2> QED
    BY <2>1, <2>2
<1> QED
  BY <1>1, <1>2

=============================================================================
