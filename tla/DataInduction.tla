--------------------------- MODULE DataInduction ---------------------------
(***************************************************************************)
(* Induction over numbers and over finite sets.  What is to be proved is   *)
(* given as the set of the numbers, or of the sets, that it holds of: so a *)
(* lemma of this module is used with no more than an instance of a bound   *)
(* variable, also where a definition is recursive and its value has to be  *)
(* followed from one argument to the next, as that of SumFunction here.    *)
(***************************************************************************)
EXTENDS Integers, FiniteSets, FiniteSetTheorems, Functions, TLAPS

(* A set of natural numbers that is not empty has a least element. *)
LEMMA LeastNumber ==
  ASSUME NEW T \in SUBSET Nat, T # {}
  PROVE  \E x \in T : \A y \in T : x <= y
<1> DEFINE R == OpToRel(<, Nat)
<1>1. IsWellFoundedOn(R, Nat)
  BY NatLessThanWellFounded
<1>2. PICK x \in T : \A y \in T : <<y, x>> \notin R
  <2> HIDE DEF R
  <2> QED
    BY <1>1, WFMin
<1>3. \A y \in T : ~(y < x)
  BY <1>2 DEF OpToRel
<1> QED
  BY <1>3

(* A set of natural numbers up to n that is not empty has a greatest one. *)
LEMMA GreatestNumber ==
  ASSUME NEW n \in Nat, NEW S \in SUBSET (0 .. n), S # {}
  PROVE  \E x \in S : \A y \in S : y <= x
<1> DEFINE T == {n - y : y \in S}
<1>1. T \in SUBSET Nat /\ T # {}
  <2>1. \A y \in S : n - y \in Nat
    OBVIOUS
  <2> QED
    BY <2>1
<1>2. PICK z \in T : \A y \in T : z <= y
  <2> HIDE DEF T
  <2> QED
    BY <1>1, LeastNumber
<1>3. PICK x \in S : z = n - x
  BY <1>2
<1>4. \A y \in S : z <= n - y
  BY <1>2
<1>5. \A y \in S : y <= x
  BY <1>3, <1>4
<1> QED
  BY <1>5

(* Induction over the natural numbers. *)
LEMMA NumberInduction ==
  ASSUME NEW T, 0 \in T, \A n \in Nat : n \in T => n + 1 \in T
  PROVE  Nat \subseteq T
<1> SUFFICES ASSUME ~(Nat \subseteq T) PROVE FALSE
  OBVIOUS
<1> DEFINE B == Nat \ T
<1>1. PICK x \in B : \A y \in B : x <= y
  <2>1. B \in SUBSET Nat /\ B # {}
    OBVIOUS
  <2> HIDE DEF B
  <2> QED
    BY <2>1, LeastNumber
<1>2. x # 0 /\ x - 1 \in Nat /\ x - 1 \notin B
  BY <1>1
<1> QED
  BY <1>2

(* Values of D on 0 .. n, each made of the one before it: Step[i] takes    *)
(* the value at i - 1 to the value at i.                                   *)
Unfolds(a, n, D, first, Step) ==
  /\ a \in [0 .. n -> D]
  /\ a[0] = first
  /\ \A i \in 1 .. n : a[i] = Step[i][a[i - 1]]

(* There are such values: what a recursive function on 0 .. n needs in     *)
(* order to be one.                                                        *)
LEMMA RecursionExists ==
  ASSUME NEW n \in Nat, NEW D, NEW first \in D,
         NEW Step \in [1 .. n -> [D -> D]]
  PROVE  \E a : Unfolds(a, n, D, first, Step)
<1> DEFINE Ok(a, m) == /\ a \in [0 .. m -> D] /\ a[0] = first
                       /\ \A i \in 1 .. m : a[i] = Step[i][a[i - 1]]
           T == {m \in Nat : m <= n => \E a : Ok(a, m)}
<1>1. 0 \in T
  <2>1. Ok([i \in 0 .. 0 |-> first], 0)
    OBVIOUS
  <2> QED
    BY <2>1
<1>2. ASSUME NEW m \in Nat, m \in T PROVE m + 1 \in T
  <2> SUFFICES ASSUME m + 1 <= n PROVE \E a : Ok(a, m + 1)
    OBVIOUS
  <2>1. PICK a : Ok(a, m)
    BY <1>2
  <2>2. PICK v : v = Step[m + 1][a[m]]
    OBVIOUS
  <2>3. a[m] \in D /\ m + 1 \in 1 .. n /\ v \in D
    BY <2>1, <2>2
  <2> DEFINE b == [i \in 0 .. m + 1 |-> IF i = m + 1 THEN v ELSE a[i]]
  <2>4. /\ b \in [0 .. m + 1 -> D] /\ b[m + 1] = v
        /\ \A i \in 0 .. m : b[i] = a[i]
    BY <2>1, <2>3
  <2> HIDE DEF b
  <2>5. ASSUME NEW i \in 1 .. m + 1 PROVE b[i] = Step[i][b[i - 1]]
    <3>1. CASE i = m + 1
      BY <2>2, <2>4, <3>1
    <3>2. CASE i # m + 1
      <4>1. i \in 1 .. m /\ i \in 0 .. m /\ i - 1 \in 0 .. m
        BY <3>2
      <4> QED
        BY <2>1, <2>4, <4>1
    <3> QED
      BY <3>1, <3>2
  <2>6. Ok(b, m + 1)
    BY <2>1, <2>4, <2>5
  <2> HIDE DEF Ok
  <2> QED
    BY <2>6
<1>3. Nat \subseteq T
  <2> HIDE DEF T
  <2> QED
    BY <1>1, <1>2, NumberInduction
<1>4. PICK a : Ok(a, n)
  <2>1. n \in T
    BY <1>3
  <2> HIDE DEF Ok
  <2> QED
    BY <2>1
<1> QED
  BY <1>4 DEF Unfolds

(* What holds at first and is kept from each value to the next holds of    *)
(* all of them.                                                            *)
LEMMA LoopInvariant ==
  ASSUME NEW n \in Nat, NEW a, NEW D, a[0] \in D,
         \A i \in 1 .. n : a[i - 1] \in D => a[i] \in D
  PROVE  \A i \in 0 .. n : a[i] \in D
<1> DEFINE T == {m \in Nat : m <= n => a[m] \in D}
<1>1. 0 \in T
  OBVIOUS
<1>2. ASSUME NEW m \in Nat, m \in T PROVE m + 1 \in T
  <2>1. m + 1 <= n => m + 1 \in 1 .. n /\ m <= n
    OBVIOUS
  <2>2. m + 1 - 1 = m
    OBVIOUS
  <2> QED
    BY <1>2, <2>1, <2>2
<1>3. Nat \subseteq T
  <2> HIDE DEF T
  <2> QED
    BY <1>1, <1>2, NumberInduction
<1> QED
  BY <1>3

(* Induction over a finite set, one element at a time. *)
LEMMA FiniteInduction ==
  ASSUME NEW S, IsFiniteSet(S), NEW T, {} \in T,
         \A U \in SUBSET S : \A x \in S \ U : U \in T => U \cup {x} \in T
  PROVE  S \in T
<1> DEFINE G == {n \in Nat : \A U \in SUBSET S : Cardinality(U) = n => U \in T}
<1>f. \A U \in SUBSET S : IsFiniteSet(U) /\ Cardinality(U) \in Nat
  BY FS_Subset, FS_CardinalityType
<1>1. 0 \in G
  BY <1>f, FS_EmptySet
<1>2. \A n \in Nat : n \in G => n + 1 \in G
  <2> SUFFICES ASSUME NEW n \in Nat, n \in G,
                      NEW U \in SUBSET S, Cardinality(U) = n + 1
               PROVE  U \in T
    OBVIOUS
  <2>1. PICK x \in U : TRUE
    BY FS_EmptySet
  <2>2. U \ {x} \in SUBSET S /\ Cardinality(U \ {x}) = n
    <3>1. IsFiniteSet(U)
      BY <1>f
    <3>2. Cardinality(U \ {x}) = Cardinality(U) - 1
      BY <3>1, <2>1, FS_RemoveElement
    <3> QED
      BY <3>2
  <2>3. U \ {x} \in T
    BY <2>2
  <2>4. (U \ {x}) \cup {x} = U /\ x \in S \ (U \ {x})
    BY <2>1
  <2>5. (U \ {x}) \cup {x} \in T
    BY <2>2, <2>3, <2>4
  <2> QED
    BY <2>4, <2>5
<1>3. Nat \subseteq G
  <2> HIDE DEF G
  <2> QED
    BY <1>1, <1>2, NumberInduction
<1> QED
  BY <1>3, <1>f
-----------------------------------------------------------------------------
(* Sums.  The order in which SumFunction takes the arguments, and the sums *)
(* that it builds up over the sets of arguments.                           *)
Taken(s) == CHOOSE x \in s : TRUE
Adds(g, f, S) ==
  g = [s \in SUBSET S |->
         IF s = {} THEN 0 ELSE f[Taken(s)] + g[s \ {Taken(s)}]]

(* One argument less is one element less. *)
LEMMA TakenAway ==
  ASSUME NEW S, IsFiniteSet(S), NEW s \in SUBSET S
  PROVE  /\ Cardinality(s) \in Nat
         /\ Cardinality(S) \in Nat
         /\ Cardinality(s) <= Cardinality(S)
         /\ s = {} <=> Cardinality(s) = 0
         /\ s # {} => /\ Taken(s) \in s
                      /\ s \ {Taken(s)} \in SUBSET S
                      /\ Cardinality(s \ {Taken(s)}) = Cardinality(s) - 1
<1>1. /\ IsFiniteSet(s) /\ Cardinality(s) <= Cardinality(S)
      /\ Cardinality(S) \in Nat /\ Cardinality(s) \in Nat
  BY FS_Subset, FS_CardinalityType
<1>2. s = {} <=> Cardinality(s) = 0
  BY <1>1, FS_EmptySet
<1>3. s # {} => Taken(s) \in s
  BY DEF Taken
<1>4. s # {} => Cardinality(s \ {Taken(s)}) = Cardinality(s) - 1
  BY <1>1, <1>3, FS_RemoveElement
<1> QED
  BY <1>1, <1>2, <1>3, <1>4

(* The recursion of SumFunction has a solution on a finite domain. *)
LEMMA SumsExist ==
  ASSUME NEW S, IsFiniteSet(S), NEW f \in [S -> Nat]
  PROVE  \E g : Adds(g, f, S)
<1> DEFINE D == [SUBSET S -> Nat]
           More(h) == [s \in SUBSET S |->
                         IF s = {} THEN 0 ELSE f[Taken(s)] + h[s \ {Taken(s)}]]
           first == [s \in SUBSET S |-> 0]
<1>1. PICK n \in Nat : n = Cardinality(S)
  BY FS_CardinalityType
<1> DEFINE Step == [i \in 1 .. n |-> [h \in D |-> More(h)]]
<1>2. \A h \in D : More(h) \in D
  <2> SUFFICES ASSUME NEW h \in D, NEW s \in SUBSET S, s # {}
               PROVE  f[Taken(s)] + h[s \ {Taken(s)}] \in Nat
    OBVIOUS
  <2>1. Taken(s) \in S /\ s \ {Taken(s)} \in SUBSET S
    BY TakenAway
  <2> QED
    BY <2>1
<1>3. first \in D /\ Step \in [1 .. n -> [D -> D]]
  <2> HIDE DEF D, More
  <2>1. Step \in [1 .. n -> [D -> D]]
    BY <1>2
  <2> QED
    BY <2>1 DEF D
<1>4. PICK a : Unfolds(a, n, D, first, Step)
  <2> HIDE DEF D, first, Step
  <2> QED
    BY <1>3, RecursionExists
<1>5. /\ a \in [0 .. n -> D] /\ a[0] = first
      /\ \A i \in 1 .. n : a[i] = More(a[i - 1])
  <2> HIDE DEF D, More, first
  <2>1. /\ a \in [0 .. n -> D] /\ a[0] = first
        /\ \A i \in 1 .. n : a[i] = Step[i][a[i - 1]]
    BY <1>4 DEF Unfolds
  <2>2. ASSUME NEW i \in 1 .. n PROVE a[i] = More(a[i - 1])
    <3>1. i - 1 \in 0 .. n
      OBVIOUS
    <3>2. a[i - 1] \in D
      BY <2>1, <3>1
    <3> QED
      BY <2>1, <3>2
  <2> QED
    BY <2>1, <2>2
<1> DEFINE g == [s \in SUBSET S |-> a[Cardinality(s)][s]]
<1>6. ASSUME NEW s \in SUBSET S
      PROVE  g[s] = IF s = {} THEN 0 ELSE f[Taken(s)] + g[s \ {Taken(s)}]
  <2>1. CASE s = {}
    BY <1>5, <2>1, FS_EmptySet
  <2>2. CASE s # {}
    <3>1. /\ Cardinality(s) \in 1 .. n
          /\ s \ {Taken(s)} \in SUBSET S
          /\ Cardinality(s \ {Taken(s)}) = Cardinality(s) - 1
      <4> HIDE DEF D, More, first, Step, g
      <4>1. /\ Cardinality(s) \in Nat /\ Cardinality(s) <= n
            /\ Cardinality(s) # 0
        BY <1>1, <2>2, TakenAway
      <4>2. Cardinality(s) \in 1 .. n
        BY <4>1
      <4> QED
        BY <2>2, <4>2, TakenAway
    <3>2. a[Cardinality(s)] = More(a[Cardinality(s) - 1])
      BY <1>5, <3>1
    <3>3. a[Cardinality(s)][s]
            = f[Taken(s)] + a[Cardinality(s) - 1][s \ {Taken(s)}]
      BY <2>2, <3>2
    <3>4. g[s] = a[Cardinality(s)][s]
      OBVIOUS
    <3>5. g[s \ {Taken(s)}] = a[Cardinality(s) - 1][s \ {Taken(s)}]
      BY <3>1
    <3> HIDE DEF g, More
    <3> QED
      BY <2>2, <3>3, <3>4, <3>5
  <2> QED
    BY <2>1, <2>2
<1>7. Adds(g, f, S)
  BY <1>6 DEF Adds
<1> HIDE DEF g
<1> QED
  BY <1>7

(* SumFunction is the last of such sums. *)
LEMMA SumIs ==
  ASSUME NEW S, IsFiniteSet(S), NEW f \in [S -> Nat]
  PROVE  \E g : Adds(g, f, S) /\ SumFunction(f) = g[S]
<1> DEFINE c == CHOOSE g : Adds(g, f, S)
<1>1. Adds(c, f, S)
  BY SumsExist
<1>2. SumFunction(f)
        = LET it == CHOOSE g :
                      g = [s \in SUBSET (DOMAIN f) |->
                             IF s = {} THEN 0
                             ELSE f[Taken(s)] + g[s \ {Taken(s)}]]
          IN  it[DOMAIN f]
  BY DEF SumFunction, SumFunctionOnSet, FoldFunctionOnSet, MapThenFoldSet,
         Taken
<1>3. DOMAIN f = S
  OBVIOUS
<1>4. SumFunction(f) = c[S]
  BY <1>2, <1>3 DEF Adds
<1> HIDE DEF c
<1> QED
  BY <1>1, <1>4

(* The sums are natural numbers. *)
LEMMA SumsAreNumbers ==
  ASSUME NEW S, IsFiniteSet(S), NEW f \in [S -> Nat], NEW g, Adds(g, f, S)
  PROVE  \A s \in SUBSET S : g[s] \in Nat
<1> DEFINE T == {n \in Nat :
                   \A s \in SUBSET S : Cardinality(s) = n => g[s] \in Nat}
<1>d. ASSUME NEW s \in SUBSET S
      PROVE  g[s] = IF s = {} THEN 0 ELSE f[Taken(s)] + g[s \ {Taken(s)}]
  BY DEF Adds
<1>1. 0 \in T
  <2> SUFFICES ASSUME NEW s \in SUBSET S, Cardinality(s) = 0
               PROVE  g[s] \in Nat
    OBVIOUS
  <2>1. s = {}
    BY TakenAway
  <2> QED
    BY <2>1, <1>d
<1>2. \A n \in Nat : n \in T => n + 1 \in T
  <2> SUFFICES ASSUME NEW n \in Nat, n \in T,
                      NEW s \in SUBSET S, Cardinality(s) = n + 1
               PROVE  g[s] \in Nat
    OBVIOUS
  <2>1. PICK p, q : p = Taken(s) /\ q = s \ {Taken(s)}
    OBVIOUS
  <2>2. s # {} /\ p \in s /\ q \in SUBSET S /\ Cardinality(q) = n
    BY <2>1, TakenAway
  <2>3. g[q] \in Nat /\ f[p] \in Nat
    BY <2>2
  <2>4. g[s] = f[p] + g[q]
    BY <1>d, <2>1, <2>2
  <2> QED
    BY <2>3, <2>4
<1>3. Nat \subseteq T
  <2> HIDE DEF T
  <2> QED
    BY <1>1, <1>2, NumberInduction
<1>4. ASSUME NEW s \in SUBSET S PROVE g[s] \in Nat
  <2>1. Cardinality(s) \in T
    <3> HIDE DEF T
    <3> QED
      BY <1>3, TakenAway
  <2> QED
    BY <2>1
<1> QED
  BY <1>4

(* Any argument may be taken first. *)
AnyFirst(g, f, S) ==
  \A s \in SUBSET S : \A p \in s : g[s] = f[p] + g[s \ {p}]

LEMMA AnyOrder ==
  ASSUME NEW S, IsFiniteSet(S), NEW f \in [S -> Nat], NEW g, Adds(g, f, S)
  PROVE  AnyFirst(g, f, S)
<1> DEFINE Good(s) == \A p \in s : g[s] = f[p] + g[s \ {p}]
           T == {n \in Nat : \A s \in SUBSET S : Cardinality(s) = n => Good(s)}
<1>1. 0 \in T
  <2> SUFFICES ASSUME NEW s \in SUBSET S, Cardinality(s) = 0 PROVE Good(s)
    OBVIOUS
  <2>1. s = {}
    BY TakenAway
  <2> QED
    BY <2>1
<1>2. \A n \in Nat : n \in T => n + 1 \in T
  <2> HIDE DEF Good
  <2> SUFFICES ASSUME NEW n \in Nat, n \in T,
                      NEW s \in SUBSET S, Cardinality(s) = n + 1
               PROVE  Good(s)
    OBVIOUS
  <2> USE DEF Good
  <2> SUFFICES ASSUME NEW p \in s PROVE g[s] = f[p] + g[s \ {p}]
    OBVIOUS
  <2>0. ASSUME NEW u \in SUBSET S, Cardinality(u) = n, NEW x \in u
        PROVE  g[u] = f[x] + g[u \ {x}]
    <3>1. Good(u)
      <4> HIDE DEF Good
      <4> QED
        BY <2>0
    <3> QED
      BY <3>1
  <2> HIDE DEF T
  <2>1. PICK q : q = Taken(s)
    OBVIOUS
  <2>2. s # {} /\ q \in s /\ IsFiniteSet(s)
    BY <2>1, TakenAway, FS_Subset
  <2>3. g[s] = f[q] + g[s \ {q}]
    BY <2>1, <2>2 DEF Adds
  <2>4. ASSUME NEW x \in s
        PROVE  s \ {x} \in SUBSET S /\ Cardinality(s \ {x}) = n
    <3>1. Cardinality(s \ {x}) = Cardinality(s) - 1
      BY <2>2, FS_RemoveElement
    <3> QED
      BY <3>1
  <2>5. CASE p = q
    BY <2>3, <2>5
  <2>6. CASE p # q
    <3>1. PICK v : v = (s \ {p}) \ {q}
      OBVIOUS
    <3>2. (s \ {q}) \ {p} = v /\ v \in SUBSET S
      BY <3>1
    <3>3. g[s \ {q}] = f[p] + g[v]
      BY <2>0, <2>2, <2>4, <2>6, <3>2
    <3>4. g[s \ {p}] = f[q] + g[v]
      BY <2>0, <2>2, <2>4, <2>6, <3>1
    <3>5. g[v] \in Nat /\ f[p] \in Nat /\ f[q] \in Nat
      BY <2>2, <3>2, SumsAreNumbers
    <3> QED
      BY <2>3, <3>3, <3>4, <3>5
  <2> QED
    BY <2>5, <2>6
<1>3. Nat \subseteq T
  <2> HIDE DEF T
  <2> QED
    BY <1>1, <1>2, NumberInduction
<1>4. ASSUME NEW s \in SUBSET S PROVE Good(s)
  <2>1. Cardinality(s) \in T
    <3> HIDE DEF T
    <3> QED
      BY <1>3, TakenAway
  <2> HIDE DEF Good
  <2> QED
    BY <2>1
<1> QED
  BY <1>4 DEF AnyFirst

(* The sums of two functions over a set on which they agree are the same.  *)
LEMMA SumsAgree ==
  ASSUME NEW S, IsFiniteSet(S), NEW f, NEW g, Adds(g, f, S),
         NEW R, IsFiniteSet(R), NEW e, NEW h, Adds(h, e, R),
         NEW U \in SUBSET (S \cap R), \A x \in U : f[x] = e[x]
  PROVE  g[U] = h[U]
<1> DEFINE T == {n \in Nat :
                   \A s \in SUBSET U : Cardinality(s) = n => g[s] = h[s]}
<1>u. IsFiniteSet(U)
  BY FS_Subset
<1>1. 0 \in T
  <2> SUFFICES ASSUME NEW s \in SUBSET U, Cardinality(s) = 0
               PROVE  g[s] = h[s]
    OBVIOUS
  <2>1. s = {}
    BY <1>u, TakenAway
  <2> QED
    BY <2>1 DEF Adds
<1>2. \A n \in Nat : n \in T => n + 1 \in T
  <2> SUFFICES ASSUME NEW n \in Nat, n \in T,
                      NEW s \in SUBSET U, Cardinality(s) = n + 1
               PROVE  g[s] = h[s]
    OBVIOUS
  <2>1. PICK p, q : p = Taken(s) /\ q = s \ {Taken(s)}
    OBVIOUS
  <2>2. s # {} /\ p \in s /\ q \in SUBSET U /\ Cardinality(q) = n
    BY <1>u, <2>1, TakenAway
  <2>3. g[q] = h[q] /\ f[p] = e[p]
    BY <2>2
  <2>4. g[s] = f[p] + g[q] /\ h[s] = e[p] + h[q]
    BY <2>1, <2>2 DEF Adds
  <2> QED
    BY <2>3, <2>4
<1>3. Nat \subseteq T
  <2> HIDE DEF T
  <2> QED
    BY <1>1, <1>2, NumberInduction
<1> QED
  BY <1>3, <1>u, FS_CardinalityType

(* A sum of natural numbers is one. *)
LEMMA SumIsNumber ==
  ASSUME NEW S, IsFiniteSet(S), NEW f, f \in [S -> Nat]
  PROVE  SumFunction(f) \in Nat
<1>1. PICK g : Adds(g, f, S) /\ SumFunction(f) = g[S]
  BY SumIs
<1>2. \A s \in SUBSET S : g[s] \in Nat
  BY <1>1, SumsAreNumbers
<1> QED
  BY <1>1, <1>2

(* A function f on S, and e without the argument r. *)
Without(S, f, r, e) ==
  /\ IsFiniteSet(S) /\ f \in [S -> Nat] /\ r \in S
  /\ e \in [S \ {r} -> Nat] /\ \A x \in S \ {r} : e[x] = f[x]

(* A sum is the value at any one argument and the sum of the others. *)
LEMMA SumSplit ==
  ASSUME NEW S, NEW f, NEW r, NEW e, Without(S, f, r, e)
  PROVE  /\ SumFunction(e) \in Nat
         /\ SumFunction(f) = f[r] + SumFunction(e)
<1> USE DEF Without
<1>1. PICK R : R = S \ {r}
  OBVIOUS
<1>2. IsFiniteSet(R) /\ e \in [R -> Nat]
  BY <1>1, FS_RemoveElement
<1>3. PICK g : Adds(g, f, S) /\ SumFunction(f) = g[S]
  BY SumIs
<1>4. PICK h : Adds(h, e, R) /\ SumFunction(e) = h[R]
  BY <1>2, SumIs
<1>5. g[S] = f[r] + g[R]
  <2>1. IsFiniteSet(S) /\ f \in [S -> Nat]
    OBVIOUS
  <2>2. AnyFirst(g, f, S)
    BY <1>3, <2>1, AnyOrder
  <2>3. S \in SUBSET S /\ r \in S
    OBVIOUS
  <2> QED
    BY <1>1, <2>2, <2>3 DEF AnyFirst
<1>6. g[R] = h[R]
  <2>1. R \in SUBSET (S \cap R) /\ \A x \in R : f[x] = e[x]
    BY <1>1
  <2> QED
    BY <1>2, <1>3, <1>4, <2>1, SumsAgree
<1>7. h[R] \in Nat
  BY <1>2, <1>4, SumsAreNumbers
<1> QED
  BY <1>3, <1>4, <1>5, <1>6, <1>7

(* The sum of one number more. *)
LEMMA SumLonger ==
  ASSUME NEW n \in Nat, NEW f \in [1 .. n + 1 -> Nat],
         NEW e \in [1 .. n -> Nat], \A i \in 1 .. n : e[i] = f[i]
  PROVE  /\ SumFunction(e) \in Nat
         /\ SumFunction(f) = f[n + 1] + SumFunction(e)
<1>1. IsFiniteSet(1 .. n + 1)
  BY FS_Interval
<1>2. (1 .. n + 1) \ {n + 1} = 1 .. n /\ n + 1 \in 1 .. n + 1
  OBVIOUS
<1>3. Without(1 .. n + 1, f, n + 1, e)
  BY <1>1, <1>2 DEF Without
<1> QED
  BY <1>3, SumSplit

(* One more at an argument is one more in the sum. *)
LEMMA SumIncrement ==
  ASSUME NEW S, IsFiniteSet(S), NEW f \in [S -> Nat], NEW r \in S
  PROVE  /\ SumFunction(f) \in Nat
         /\ SumFunction([f EXCEPT ![r] = f[r] + 1]) = SumFunction(f) + 1
<1>1. PICK e : e = [f EXCEPT ![r] = f[r] + 1]
  OBVIOUS
<1>2. PICK k : k = [x \in S \ {r} |-> f[x]]
  OBVIOUS
<1>3. /\ e \in [S -> Nat] /\ e[r] = f[r] + 1 /\ k \in [S \ {r} -> Nat]
      /\ \A x \in S \ {r} : k[x] = f[x] /\ k[x] = e[x]
  BY <1>1, <1>2
<1>w. Without(S, f, r, k) /\ Without(S, e, r, k)
  BY <1>3 DEF Without
<1>4. SumFunction(k) \in Nat /\ SumFunction(f) = f[r] + SumFunction(k)
  BY <1>w, SumSplit
<1>5. SumFunction(e) = e[r] + SumFunction(k)
  BY <1>w, SumSplit
<1>6. f[r] \in Nat
  OBVIOUS
<1> QED
  BY <1>1, <1>3, <1>4, <1>5, <1>6

(* Nothing adds up to nothing. *)
LEMMA SumOfNone ==
  ASSUME NEW S, IsFiniteSet(S)
  PROVE  SumFunction([x \in S |-> 0]) = 0
<1> DEFINE T == {U \in SUBSET S : SumFunction([x \in U |-> 0]) = 0}
<1>f. \A U \in SUBSET S : IsFiniteSet(U)
  BY FS_Subset
<1>1. {} \in T
  <2>1. PICK f : f = [x \in {} |-> 0]
    OBVIOUS
  <2>2. f \in [{} -> Nat] /\ IsFiniteSet({})
    BY <2>1, FS_EmptySet
  <2>3. PICK g : Adds(g, f, {}) /\ SumFunction(f) = g[{}]
    BY <2>2, SumIs
  <2>4. g[{}] = 0
    BY <2>3 DEF Adds
  <2> QED
    BY <2>1, <2>3, <2>4
<1>2. \A U \in SUBSET S : \A r \in S \ U : U \in T => U \cup {r} \in T
  <2> SUFFICES ASSUME NEW U \in SUBSET S, NEW r \in S \ U, U \in T
               PROVE  U \cup {r} \in T
    OBVIOUS
  <2>1. PICK V, f, e : /\ V = U \cup {r}
                       /\ f = [x \in V |-> 0] /\ e = [x \in U |-> 0]
    OBVIOUS
  <2>2. /\ V \in SUBSET S /\ V \ {r} = U
        /\ f[r] = 0 /\ SumFunction(e) = 0
    BY <2>1
  <2>3. Without(V, f, r, e)
    BY <1>f, <2>1, <2>2 DEF Without
  <2>4. SumFunction(f) = f[r] + SumFunction(e)
    BY <2>3, SumSplit
  <2> QED
    BY <2>1, <2>2, <2>4
<1>3. S \in T
  <2> HIDE DEF T
  <2> QED
    BY <1>1, <1>2, FiniteInduction
<1> QED
  BY <1>3
=============================================================================
