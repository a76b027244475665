--------------------------- MODULE RoutingProofs ---------------------------
(***************************************************************************)
(* What modules Routing and Handlers promise, for every configuration,     *)
(* every working directory and every target.  First the loops, each by     *)
(* induction on the number of turns: what convertToAbsolutePath returns    *)
(* (ConvertIs: Stack follows the places of the components that it has) and *)
(* what get_request_handler finds (LookupIs).  Then the registry: IInv     *)
(* says that what the maps hold is exactly what the blocks read so far put *)
(* there.  Then the text of a path (Slashed), which the proxy cuts and     *)
(* joins, the four passes over a proxied body (LinksOnce), and the         *)
(* handlers on top of all of it.                                           *)
(***************************************************************************)
EXTENDS Handlers, DataInduction, SequenceTheorems

(* One turn of the loop of convertToAbsolutePath leaves a path, or what is *)
(* undefined.                                                              *)
LEMMA SimplifyType ==
  ASSUME NEW path_comps \in Seq(Names) \cup {UB}, NEW dir \in Names
  PROVE  Simplify(path_comps, dir) \in Seq(Names) \cup {UB}
<1>1. CASE path_comps = UB
  BY <1>1 DEF Simplify
<1>2. CASE path_comps # UB /\ dir = ".."
  BY <1>2 DEF Simplify
<1>3. CASE path_comps # UB /\ dir \in {".", ""}
  BY <1>3 DEF Simplify
<1>4. CASE path_comps # UB /\ IsName(dir)
  <2>1. Simplify(path_comps, dir) = Append(path_comps, dir)
    BY <1>4 DEF Simplify, IsName
  <2>2. path_comps \in Seq(Names)
    BY <1>4
  <2>3. Append(path_comps, dir) \in Seq(Names)
    BY <2>2, AppendProperties
  <2> QED
    BY <2>1, <2>3
<1> QED
  BY <1>1, <1>2, <1>3, <1>4 DEF IsName

(* The path that the loop runs over. *)
LEMMA CompleteType ==
  ASSUME NEW path \in Path PROVE system_complete(path) \in Seq(Names)
<1>1. path.comps \in Seq(Names) /\ Cwd \in Seq(Names)
  BY RoutingAssumption DEF Path
<1>2. Cwd \o path.comps \in Seq(Names)
  BY <1>1, ConcatProperties
<1> QED
  BY <1>1, <1>2 DEF system_complete

(* The loop of convertToAbsolutePath: what it has after each turn. *)
LEMMA ConvertLoop ==
  ASSUME NEW path \in Path
  PROVE  LET full == system_complete(path)
         IN  \E after :
               /\ after = [i \in 0 .. Len(full) |->
                             IF i = 0 THEN <<>>
                             ELSE Simplify(after[i - 1], full[i])]
               /\ convertToAbsolutePath(path) = after[Len(full)]
<1> DEFINE full == system_complete(path)
           Loop(a, n) == a = [i \in 0 .. n |->
                                IF i = 0 THEN <<>>
                                ELSE Simplify(a[i - 1], full[i])]
           T == {n \in Nat : \E a : Loop(a, n)}
<1>1. 0 \in T
  <2>1. Loop([i \in 0 .. 0 |-> <<>>], 0)
    OBVIOUS
  <2> HIDE DEF Loop
  <2> QED
    BY <2>1
<1>2. \A n \in Nat : n \in T => n + 1 \in T
  <2> SUFFICES ASSUME NEW n \in Nat, NEW a, Loop(a, n) PROVE n + 1 \in T
    OBVIOUS
  <2> DEFINE b == [i \in 0 .. n + 1 |->
                     IF i = n + 1 THEN Simplify(a[n], full[n + 1]) ELSE a[i]]
  <2>1. Loop(b, n + 1)
    OBVIOUS
  <2> HIDE DEF Loop, b
  <2> QED
    BY <2>1
<1>3. Nat \subseteq T
  <2> HIDE DEF T
  <2> QED
    BY <1>1, <1>2, NumberInduction
<1>4. Len(full) \in Nat
  BY CompleteType
<1>5. PICK a : Loop(a, Len(full))
  BY <1>3, <1>4
<1> DEFINE after == CHOOSE a_1 : Loop(a_1, Len(full))
<1>6. Loop(after, Len(full))
  <2> HIDE DEF Loop, full
  <2> QED
    BY <1>5
<1>7. convertToAbsolutePath(path) = after[Len(full)]
  BY DEF convertToAbsolutePath
<1> HIDE DEF after
<1> QED
  BY <1>6, <1>7

(* convertToAbsolutePath makes a path of a path, or goes wrong. *)
LEMMA ConvertType ==
  ASSUME NEW path \in Path
  PROVE  convertToAbsolutePath(path) \in Seq(Names) \cup {UB}
<1> DEFINE full == system_complete(path)
<1>1. PICK after : /\ after = [i \in 0 .. Len(full) |->
                             IF i = 0 THEN <<>>
                             ELSE Simplify(after[i - 1], full[i])]
                   /\ convertToAbsolutePath(path) = after[Len(full)]
  BY ConvertLoop
<1>2. full \in Seq(Names) /\ Len(full) \in Nat
  BY CompleteType
<1> DEFINE T == {n \in Nat : n <= Len(full) => after[n] \in Seq(Names) \cup {UB}}
<1> HIDE DEF full
<1>3. 0 \in T
  BY <1>1, <1>2
<1>4. \A n \in Nat : n \in T => n + 1 \in T
  <2> SUFFICES ASSUME NEW n \in Nat, n \in T, n + 1 <= Len(full)
               PROVE  after[n + 1] \in Seq(Names) \cup {UB}
    OBVIOUS
  <2>1. after[n] \in Seq(Names) \cup {UB} /\ full[n + 1] \in Names
    BY <1>2
  <2>2. after[n + 1] = Simplify(after[n], full[n + 1])
    BY <1>1, <1>2
  <2> QED
    BY <2>1, <2>2, SimplifyType
<1>5. Nat \subseteq T
  <2> HIDE DEF T
  <2> QED
    BY <1>3, <1>4, NumberInduction
<1> QED
  BY <1>1, <1>2, <1>5

(* What is above the place of component i when component j has been met:   *)
(* the names from i to j without the ".."s.                                *)
NamesIn(full, i, j) == {k \in i .. j : IsName(full[k])}
UpsIn(full, i, j) == {k \in i .. j : full[k] = ".."}
Height(full, i, j) ==
  Cardinality(NamesIn(full, i, j)) - Cardinality(UpsIn(full, i, j))

(* The names that no ".." up to component n takes back. *)
KeptTo(full, n) ==
  {i \in 1 .. n : /\ IsName(full[i])
                  /\ \A j \in i .. n : Height(full, i, j) > 0}

(* The places idx of the components that the loop has after n turns.       *)
Stack(full, n, comps, idx) ==
  /\ comps \in Seq(Names) /\ idx \in Seq(1 .. n) /\ Len(comps) = Len(idx)
  /\ \A m \in 1 .. Len(idx) : /\ comps[m] = full[idx[m]]
                              /\ IsName(full[idx[m]])
                              /\ Height(full, idx[m], n) = Len(idx) - m + 1
  /\ \A l, m \in 1 .. Len(idx) : l < m => idx[l] < idx[m]
  /\ {idx[m] : m \in 1 .. Len(idx)} = KeptTo(full, n)
  /\ Height(full, 1, n) = Len(idx)

(* The path leads above the root directory within n components. *)
Above(full, n) == \E j \in 1 .. n : Height(full, 1, j) < 0

(* What one turn of the loop does. *)
LEMMA SimplifyIs ==
  ASSUME NEW comps \in Seq(Names), NEW dir
  PROVE  /\ dir = ".." => /\ ~IsName(dir)
                          /\ comps = <<>> => Simplify(comps, dir) = UB
                          /\ comps # <<>> => Simplify(comps, dir)
                               = SubSeq(comps, 1, Len(comps) - 1)
         /\ IsName(dir) => Simplify(comps, dir) = Append(comps, dir)
         /\ ~IsName(dir) /\ dir # ".." => Simplify(comps, dir) = comps
<1>1. comps # UB
  BY RoutingAssumption
<1>2. CASE dir = ".."
  BY <1>1, <1>2, Zenon DEF Simplify, IsName
<1>3. CASE dir \in {".", ""} /\ dir # ".."
  BY <1>1, <1>3, Zenon DEF Simplify, IsName
<1>4. CASE IsName(dir)
  BY <1>1, <1>4, Zenon DEF Simplify, IsName
<1> QED
  BY <1>2, <1>3, <1>4, Zenon DEF IsName

(* What is undefined stays so. *)
LEMMA SimplifyUB ==
  ASSUME NEW dir PROVE Simplify(UB, dir) = UB
BY Zenon DEF Simplify

(* A sequence of numbers up to n is one of numbers up to n + 1. *)
LEMMA SeqOneMore ==
  ASSUME NEW n \in Nat, NEW s \in Seq(1 .. n) PROVE s \in Seq(1 .. n + 1)
<1>1. s \in [1 .. Len(s) -> 1 .. n + 1] /\ Len(s) \in Nat
  <2>1. \A m \in 1 .. Len(s) : s[m] \in 1 .. n + 1
    OBVIOUS
  <2> QED
    BY <2>1
<1> QED
  BY <1>1

(* The number of components of one kind, one component later. *)
LEMMA OneMore ==
  ASSUME NEW i \in Nat, NEW n \in Nat, i <= n + 1, NEW S, NEW T,
         T \in SUBSET (i .. n), S \in {T, T \cup {n + 1}}
  PROVE  /\ Cardinality(T) \in Nat
         /\ S = T \cup {n + 1} => Cardinality(S) = Cardinality(T) + 1
         /\ S = T => Cardinality(S) = Cardinality(T)
<1>1. IsFiniteSet(i .. n)
  BY FS_Interval
<1>2. IsFiniteSet(T) /\ Cardinality(T) \in Nat
  BY <1>1, FS_Subset, FS_CardinalityType
<1>3. n + 1 \notin T
  OBVIOUS
<1> QED
  BY <1>2, <1>3, FS_AddElement

(* A name is one higher, ".." one lower, and what is skipped the same. *)
LEMMA HeightOneMore ==
  ASSUME NEW full, NEW i \in Nat, NEW n \in Nat, i <= n + 1
  PROVE  /\ Height(full, i, n) \in Int
         /\ IsName(full[n + 1]) /\ full[n + 1] # ".." =>
              Height(full, i, n + 1) = Height(full, i, n) + 1
         /\ ~IsName(full[n + 1]) /\ full[n + 1] = ".." =>
              Height(full, i, n + 1) = Height(full, i, n) - 1
         /\ ~IsName(full[n + 1]) /\ full[n + 1] # ".." =>
              Height(full, i, n + 1) = Height(full, i, n)
<1>i. i .. n + 1 = (i .. n) \cup {n + 1}
  OBVIOUS
<1>1. /\ NamesIn(full, i, n) \in SUBSET (i .. n)
      /\ UpsIn(full, i, n) \in SUBSET (i .. n)
  BY DEF NamesIn, UpsIn
<1>2. /\ IsName(full[n + 1]) => 
           NamesIn(full, i, n + 1) = NamesIn(full, i, n) \cup {n + 1}
      /\ ~IsName(full[n + 1]) => NamesIn(full, i, n + 1) = NamesIn(full, i, n)
  BY <1>i, Zenon DEF NamesIn
<1>3. /\ full[n + 1] = ".." => 
           UpsIn(full, i, n + 1) = UpsIn(full, i, n) \cup {n + 1}
      /\ full[n + 1] # ".." => UpsIn(full, i, n + 1) = UpsIn(full, i, n)
  BY <1>i, Zenon DEF UpsIn
<1>4. /\ Cardinality(NamesIn(full, i, n)) \in Nat
      /\ IsName(full[n + 1]) => Cardinality(NamesIn(full, i, n + 1))
                                  = Cardinality(NamesIn(full, i, n)) + 1
      /\ ~IsName(full[n + 1]) => Cardinality(NamesIn(full, i, n + 1))
                                  = Cardinality(NamesIn(full, i, n))
  BY <1>1, <1>2, OneMore
<1>5. /\ Cardinality(UpsIn(full, i, n)) \in Nat
      /\ full[n + 1] = ".." => Cardinality(UpsIn(full, i, n + 1))
                                  = Cardinality(UpsIn(full, i, n)) + 1
      /\ full[n + 1] # ".." => Cardinality(UpsIn(full, i, n + 1))
                                  = Cardinality(UpsIn(full, i, n))
  BY <1>1, <1>3, OneMore
<1> QED
  BY <1>4, <1>5 DEF Height

(* Before the first component, and before one's own, there is nothing. *)
LEMMA HeightOfNone ==
  ASSUME NEW full, NEW n \in Nat
  PROVE  Height(full, n + 1, n) = 0
<1>1. NamesIn(full, n + 1, n) = {} /\ UpsIn(full, n + 1, n) = {}
  BY DEF NamesIn, UpsIn
<1>2. Cardinality({}) = 0
  BY FS_EmptySet
<1> QED
  BY <1>1, <1>2 DEF Height

(* What is kept after one more component: of what was kept, what that      *)
(* component does not take back, and a name.                               *)
LEMMA KeptOneMore ==
  ASSUME NEW full, NEW n \in Nat
  PROVE  KeptTo(full, n + 1)
           = {i \in KeptTo(full, n) : Height(full, i, n + 1) > 0}
               \cup {i \in {n + 1} : IsName(full[n + 1])}
<1>1. ASSUME IsName(full[n + 1]) PROVE Height(full, n + 1, n + 1) > 0
  <2>1. full[n + 1] # ".."
    BY <1>1, Zenon DEF IsName
  <2>2. Height(full, n + 1, n + 1) = Height(full, n + 1, n) + 1
    BY <1>1, <2>1, HeightOneMore
  <2> QED
    BY <2>2, HeightOfNone
<1>2. \A i \in 1 .. n : i .. n + 1 = (i .. n) \cup {n + 1}
  OBVIOUS
<1>3. (n + 1) .. (n + 1) = {n + 1} /\ 1 .. n + 1 = (1 .. n) \cup {n + 1}
  OBVIOUS
<1>4. n + 1 \notin 1 .. n
  OBVIOUS
<1> QED
  BY <1>1, <1>2, <1>3, <1>4, Zenon DEF KeptTo

(* The places of the components number them. *)
LEMMA Rank ==
  ASSUME NEW n \in Nat, NEW idx \in Seq(1 .. n), NEW m \in 0 .. Len(idx),
         \A l, o \in 1 .. Len(idx) : l < o => idx[l] < idx[o]
  PROVE  Cardinality({idx[l] : l \in 1 .. m}) = m
<1> DEFINE S == {idx[l] : l \in 1 .. m}
           f == [l \in 1 .. m |-> idx[l]]
<1>1. \A l \in 1 .. m : l \in 1 .. Len(idx) /\ idx[l] \in 1 .. n
  OBVIOUS
<1>2. f \in [1 .. m -> S] /\ \A s \in S : \E l \in 1 .. m : f[l] = s
  OBVIOUS
<1>3. ASSUME NEW l \in 1 .. m, NEW o \in 1 .. m, f[l] = f[o] PROVE l = o
  <2>1. l \in 1 .. Len(idx) /\ o \in 1 .. Len(idx) /\ idx[l] = idx[o]
        /\ idx[l] \in Nat /\ idx[o] \in Nat
    BY <1>1, <1>3
  <2>2. ~(l < o) /\ ~(o < l)
    BY <2>1
  <2> QED
    BY <2>1, <2>2
<1>4. f \in Bijection(1 .. m, S)
  BY <1>2, <1>3, Zenon DEF Bijection, Injection, Surjection, IsInjective
<1> HIDE DEF S, f
<1>5. ExistsBijection(1 .. m, S)
  BY <1>4, Zenon DEF ExistsBijection
<1>6. Cardinality(S) = m
  BY <1>5, FS_CountingElements
<1> QED
  BY <1>6 DEF S

(* One turn of the loop, and the components it has. *)
LEMMA StackOneMore ==
  ASSUME NEW full, NEW n \in Nat, full[n + 1] \in Names, NEW comps, NEW idx,
         Stack(full, n, comps, idx)
  PROVE  LET after == Simplify(comps, full[n + 1])
         IN  IF full[n + 1] = ".." /\ comps = <<>>
             THEN Height(full, 1, n + 1) < 0 /\ after = UB
             ELSE \E idx2 : Stack(full, n + 1, after, idx2)
<1> DEFINE dir == full[n + 1]
<1>s. /\ comps \in Seq(Names) /\ idx \in Seq(1 .. n)
      /\ Len(comps) = Len(idx) /\ Len(idx) \in Nat
      /\ \A m \in 1 .. Len(idx) : /\ comps[m] = full[idx[m]]
                                  /\ IsName(full[idx[m]])
                                  /\ Height(full, idx[m], n) = Len(idx) - m + 1
                                  /\ idx[m] \in Nat /\ idx[m] <= n
      /\ \A l, m \in 1 .. Len(idx) : l < m => idx[l] < idx[m]
      /\ {idx[m] : m \in 1 .. Len(idx)} = KeptTo(full, n)
      /\ Height(full, 1, n) = Len(idx)
  BY DEF Stack
<1>k. KeptTo(full, n + 1)
           = {i \in KeptTo(full, n) : Height(full, i, n + 1) > 0}
               \cup {i \in {n + 1} : IsName(dir)}
  BY KeptOneMore
<1>1. CASE dir = ".."
  <2>n. ~IsName(dir)
    BY <1>1, Zenon DEF IsName
  <2>h. \A i \in Nat : i <= n + 1 =>
          Height(full, i, n + 1) = Height(full, i, n) - 1
    BY <1>1, <2>n, HeightOneMore
  <2>1. CASE comps = <<>>
    <3>1. Height(full, 1, n + 1) = -1
      BY <1>s, <2>1, <2>h
    <3>2. Simplify(comps, dir) = UB
      BY <1>1, <1>s, <2>1, SimplifyIs
    <3> QED
      BY <1>1, <2>1, <3>1, <3>2
  <2>2. CASE comps # <<>>
    <3>l. PICK b \in Nat : Len(idx) = b + 1
      <4>1. Len(comps) # 0
        BY <1>s, <2>2, EmptySeq
      <4>2. Len(idx) - 1 \in Nat /\ Len(idx) = Len(idx) - 1 + 1
        BY <1>s, <4>1
      <4> QED
        BY <4>2
    <3> DEFINE comps2 == SubSeq(comps, 1, b)
               idx2 == SubSeq(idx, 1, b)
    <3>1. Simplify(comps, dir) = comps2
      <4>1. Simplify(comps, dir) = SubSeq(comps, 1, Len(comps) - 1)
        BY <1>1, <1>s, <2>2, SimplifyIs
      <4>2. Len(comps) - 1 = b
        BY <1>s, <3>l
      <4> QED
        BY <4>1, <4>2
    <3>2. /\ comps2 \in Seq(Names) /\ Len(comps2) = b
          /\ \A m \in 1 .. b : comps2[m] = comps[m]
      BY <1>s, <3>l
    <3>3. /\ idx2 \in Seq(1 .. n) /\ Len(idx2) = b
          /\ \A m \in 1 .. b : idx2[m] = idx[m]
      BY <1>s, <3>l
    <3>4. idx2 \in Seq(1 .. n + 1)
      <4> HIDE DEF idx2
      <4> QED
        BY <3>3, SeqOneMore
    <3> HIDE DEF comps2, idx2
    <3>5. ASSUME NEW m \in 1 .. b
          PROVE  /\ comps2[m] = full[idx2[m]] /\ IsName(full[idx2[m]])
                 /\ Height(full, idx2[m], n + 1) = Len(idx2) - m + 1
      <4>1. m \in 1 .. Len(idx)
        BY <3>l
      <4>2. Height(full, idx[m], n + 1) = Len(idx) - m + 1 - 1
        <5>1. idx[m] \in Nat /\ idx[m] <= n + 1
          BY <1>s, <4>1
        <5>2. Height(full, idx[m], n) = Len(idx) - m + 1
          BY <1>s, <4>1
        <5> QED
          BY <2>h, <5>1, <5>2
      <4>3. Len(idx) - m + 1 - 1 = b - m + 1
        BY <3>l
      <4> QED
        BY <1>s, <3>2, <3>3, <4>1, <4>2, <4>3
    <3>6. \A l, m \in 1 .. b : l < m => idx2[l] < idx2[m]
      BY <1>s, <3>3, <3>l
    <3>7. {idx2[m] : m \in 1 .. b} = KeptTo(full, n + 1)
      <4>1. KeptTo(full, n + 1)
              = {i \in KeptTo(full, n) : Height(full, i, n + 1) > 0}
        BY <1>k, <2>n
      <4>2. \A m \in 1 .. Len(idx) :
              Height(full, idx[m], n + 1) > 0 <=> m \in 1 .. b
        <5> SUFFICES ASSUME NEW m \in 1 .. Len(idx)
                     PROVE  Height(full, idx[m], n + 1) > 0 <=> m \in 1 .. b
          OBVIOUS
        <5>1. Height(full, idx[m], n + 1) = Len(idx) - m + 1 - 1
          <6>1. idx[m] \in Nat /\ idx[m] <= n + 1
            BY <1>s
          <6>2. Height(full, idx[m], n) = Len(idx) - m + 1
            BY <1>s
          <6> QED
            BY <2>h, <6>1, <6>2
        <5>2. m \in Nat /\ 1 <= m /\ m <= b + 1
          BY <3>l
        <5>3. Height(full, idx[m], n + 1) = b + 1 - m
          BY <3>l, <5>1, <5>2
        <5> QED
          BY <5>2, <5>3
      <4>3. \A m \in 1 .. b : m \in 1 .. Len(idx) /\ idx2[m] = idx[m]
        BY <3>l, <3>3
      <4>4. ASSUME NEW m \in 1 .. b PROVE idx2[m] \in KeptTo(full, n + 1)
        <5>1. idx[m] \in KeptTo(full, n) /\ Height(full, idx[m], n + 1) > 0
          BY <1>s, <4>2, <4>3
        <5> QED
          BY <4>1, <4>3, <5>1
      <4>5. ASSUME NEW i \in KeptTo(full, n + 1)
            PROVE  \E m \in 1 .. b : i = idx2[m]
        <5>1. i \in KeptTo(full, n) /\ Height(full, i, n + 1) > 0
          BY <4>1
        <5>2. PICK m \in 1 .. Len(idx) : i = idx[m]
          BY <1>s, <5>1
        <5>3. m \in 1 .. b
          BY <4>2, <5>1, <5>2
        <5> QED
          BY <4>3, <5>2, <5>3
      <4> QED
        BY <4>4, <4>5
    <3>8. Height(full, 1, n + 1) = Len(idx2)
      BY <1>s, <2>h, <3>3, <3>l
    <3>9. Stack(full, n + 1, comps2, idx2)
      BY <3>2, <3>3, <3>4, <3>5, <3>6, <3>7, <3>8 DEF Stack
    <3> QED
      BY <2>2, <3>1, <3>9
  <2> QED
    BY <2>1, <2>2
<1>2. CASE IsName(dir)
  <2>n. dir # ".."
    BY <1>2, Zenon DEF IsName
  <2>h. \A i \in Nat : i <= n + 1 =>
          Height(full, i, n + 1) = Height(full, i, n) + 1
    BY <1>2, <2>n, HeightOneMore
  <2> DEFINE comps2 == Append(comps, dir)
             idx2 == Append(idx, n + 1)
  <2>1. Simplify(comps, dir) = comps2
    BY <1>2, <1>s, SimplifyIs
  <2>2. /\ comps2 \in Seq(Names) /\ Len(comps2) = Len(idx) + 1
        /\ \A m \in 1 .. Len(idx) : comps2[m] = comps[m]
        /\ comps2[Len(idx) + 1] = dir
    BY <1>s
  <2>3. idx \in Seq(1 .. n + 1)
    BY <1>s, SeqOneMore
  <2>4. /\ idx2 \in Seq(1 .. n + 1) /\ Len(idx2) = Len(idx) + 1
        /\ \A m \in 1 .. Len(idx) : idx2[m] = idx[m]
        /\ idx2[Len(idx) + 1] = n + 1
    BY <1>s, <2>3
  <2> HIDE DEF comps2, idx2
  <2>5. ASSUME NEW m \in 1 .. Len(idx) + 1
        PROVE  /\ comps2[m] = full[idx2[m]] /\ IsName(full[idx2[m]])
               /\ Height(full, idx2[m], n + 1) = Len(idx2) - m + 1
    <3>1. CASE m = Len(idx) + 1
      <4>1. Height(full, n + 1, n + 1) = 1
        BY <2>h, HeightOfNone
      <4>2. Len(idx2) - m + 1 = 1
        BY <1>s, <2>4, <3>1
      <4> QED
        BY <1>2, <2>2, <2>4, <3>1, <4>1, <4>2
    <3>2. CASE m \in 1 .. Len(idx)
      <4>1. Height(full, idx[m], n + 1) = Len(idx) - m + 1 + 1
        <5>1. idx[m] \in Nat /\ idx[m] <= n + 1
          BY <1>s, <3>2
        <5>2. Height(full, idx[m], n) = Len(idx) - m + 1
          BY <1>s, <3>2
        <5> QED
          BY <2>h, <5>1, <5>2
      <4>2. Len(idx) - m + 1 + 1 = Len(idx2) - m + 1
        BY <1>s, <2>4
      <4> QED
        BY <1>s, <2>2, <2>4, <3>2, <4>1, <4>2
    <3> QED
      BY <1>s, <3>1, <3>2
  <2>6. \A l, m \in 1 .. Len(idx) + 1 : l < m => idx2[l] < idx2[m]
    <3> SUFFICES ASSUME NEW l \in 1 .. Len(idx) + 1,
                        NEW m \in 1 .. Len(idx) + 1, l < m
                 PROVE  idx2[l] < idx2[m]
      OBVIOUS
    <3>1. l \in 1 .. Len(idx)
      BY <1>s
    <3>2. CASE m \in 1 .. Len(idx)
      BY <1>s, <2>4, <3>1, <3>2
    <3>3. CASE m = Len(idx) + 1
      <4>1. idx[l] \in Nat /\ idx[l] <= n
        BY <1>s, <3>1
      <4> QED
        BY <2>4, <3>1, <3>3, <4>1
    <3> QED
      BY <1>s, <3>2, <3>3
  <2>7. {idx2[m] : m \in 1 .. Len(idx) + 1} = KeptTo(full, n + 1)
    <3>1. \A m \in 1 .. Len(idx) : Height(full, idx[m], n + 1) > 0
      <4> SUFFICES ASSUME NEW m \in 1 .. Len(idx)
                   PROVE  Height(full, idx[m], n + 1) > 0
        OBVIOUS
      <4>1. Height(full, idx[m], n + 1) = Len(idx) - m + 1 + 1
        <5>1. idx[m] \in Nat /\ idx[m] <= n + 1
          BY <1>s
        <5>2. Height(full, idx[m], n) = Len(idx) - m + 1
          BY <1>s
        <5> QED
          BY <2>h, <5>1, <5>2
      <4> QED
        BY <1>s, <4>1
    <3>2. KeptTo(full, n + 1) = KeptTo(full, n) \cup {n + 1}
      BY <1>2, <1>k, <1>s, <3>1, Zenon
    <3>3. 1 .. Len(idx) + 1 = (1 .. Len(idx)) \cup {Len(idx) + 1}
      BY <1>s
    <3>4. {idx2[m] : m \in 1 .. Len(idx) + 1}
            = {idx2[m] : m \in 1 .. Len(idx)} \cup {idx2[Len(idx) + 1]}
      BY <3>3, Zenon
    <3>5. {idx2[m] : m \in 1 .. Len(idx)} = {idx[m] : m \in 1 .. Len(idx)}
      BY <2>4, Zenon
    <3> QED
      BY <1>s, <2>4, <3>2, <3>4, <3>5
  <2>8. Height(full, 1, n + 1) = Len(idx2)
    BY <1>s, <2>h, <2>4
  <2>9. Stack(full, n + 1, comps2, idx2)
    BY <2>2, <2>4, <2>5, <2>6, <2>7, <2>8 DEF Stack
  <2> QED
    BY <2>n, <2>1, <2>9
<1>3. CASE ~IsName(dir) /\ dir # ".."
  <2>h. \A i \in Nat : i <= n + 1 =>
          Height(full, i, n + 1) = Height(full, i, n)
    BY <1>3, HeightOneMore
  <2>1. Simplify(comps, dir) = comps
    BY <1>3, <1>s, SimplifyIs
  <2>2. idx \in Seq(1 .. n + 1)
    BY <1>s, SeqOneMore
  <2>3. \A m \in 1 .. Len(idx) :
          Height(full, idx[m], n + 1) = Len(idx) - m + 1
    <3> SUFFICES ASSUME NEW m \in 1 .. Len(idx)
                 PROVE  Height(full, idx[m], n + 1) = Len(idx) - m + 1
      OBVIOUS
    <3>1. idx[m] \in Nat /\ idx[m] <= n + 1
      BY <1>s
    <3>2. Height(full, idx[m], n) = Len(idx) - m + 1
      BY <1>s
    <3> QED
      BY <2>h, <3>1, <3>2
  <2>4. KeptTo(full, n + 1) = KeptTo(full, n)
    <3>1. \A m \in 1 .. Len(idx) : Height(full, idx[m], n + 1) > 0
      <4>1. \A m \in 1 .. Len(idx) : Len(idx) - m + 1 > 0
        BY <1>s
      <4> QED
        BY <2>3, <4>1
    <3> QED
      BY <1>3, <1>k, <1>s, <3>1, Zenon
  <2>5. Stack(full, n + 1, comps, idx)
    BY <1>s, <2>h, <2>2, <2>3, <2>4 DEF Stack
  <2> QED
    BY <1>3, <2>1, <2>5
<1> QED
  BY <1>1, <1>2, <1>3

(* After every turn of the loop of convertToAbsolutePath: the components   *)
(* that are kept so far, or nothing that is defined.                       *)
LEMMA ConvertKeeps ==
  ASSUME NEW path \in Path
  PROVE  LET full == system_complete(path)
             n == Len(full)
         IN  IF Above(full, n) THEN convertToAbsolutePath(path) = UB
             ELSE \E idx : Stack(full, n, convertToAbsolutePath(path), idx)
<1> DEFINE full == system_complete(path)
<1>1. PICK after : /\ after = [i \in 0 .. Len(full) |->
                             IF i = 0 THEN <<>>
                             ELSE Simplify(after[i - 1], full[i])]
                   /\ convertToAbsolutePath(path) = after[Len(full)]
  BY ConvertLoop
<1>2. full \in Seq(Names) /\ Len(full) \in Nat
  BY CompleteType
<1> DEFINE P(n) == IF Above(full, n) THEN after[n] = UB
                   ELSE \E idx : Stack(full, n, after[n], idx)
           T == {n \in Nat : n <= Len(full) => P(n)}
<1> HIDE DEF full, P
<1>3. 0 \in T
  <2>1. after[0] = <<>>
    BY <1>1, <1>2
  <2>2. ~Above(full, 0)
    BY DEF Above
  <2>3. Height(full, 1, 0) = 0
    <3>1. Height(full, 0 + 1, 0) = 0
      BY HeightOfNone
    <3> QED
      BY <3>1
  <2>4. KeptTo(full, 0) = {}
    BY DEF KeptTo
  <2>5. Stack(full, 0, <<>>, <<>>)
    BY <2>3, <2>4 DEF Stack
  <2> QED
    BY <2>1, <2>2, <2>5 DEF P
<1>4. \A n \in Nat : n \in T => n + 1 \in T
  <2> SUFFICES ASSUME NEW n \in Nat, n \in T, n + 1 <= Len(full)
               PROVE  P(n + 1)
    OBVIOUS
  <2>1. P(n) /\ full[n + 1] \in Names
    BY <1>2
  <2>2. after[n + 1] = Simplify(after[n], full[n + 1])
    BY <1>1, <1>2
  <2>3. 1 .. n + 1 = (1 .. n) \cup {n + 1}
    OBVIOUS
  <2>4. CASE Above(full, n)
    <3>1. Above(full, n + 1)
      BY <2>3, <2>4, Zenon DEF Above
    <3>2. after[n + 1] = UB
      BY <2>1, <2>2, <2>4, SimplifyUB DEF P
    <3> QED
      BY <3>1, <3>2 DEF P
  <2>5. CASE ~Above(full, n)
    <3>1. PICK idx : Stack(full, n, after[n], idx)
      BY <2>1, <2>5 DEF P
    <3>2. CASE full[n + 1] = ".." /\ after[n] = <<>>
      <4>1. Height(full, 1, n + 1) < 0 /\ after[n + 1] = UB
        BY <2>1, <2>2, <3>1, <3>2, StackOneMore
      <4>2. Above(full, n + 1)
        BY <2>3, <4>1, Zenon DEF Above
      <4> QED
        BY <4>1, <4>2 DEF P
    <3>3. CASE ~(full[n + 1] = ".." /\ after[n] = <<>>)
      <4>1. PICK idx2 : Stack(full, n + 1, after[n + 1], idx2)
        BY <2>1, <2>2, <3>1, <3>3, StackOneMore
      <4>2. ~(Height(full, 1, n + 1) < 0)
        <5>1. Height(full, 1, n + 1) = Len(idx2) /\ Len(idx2) \in Nat
          BY <4>1 DEF Stack
        <5> QED
          BY <5>1
      <4>3. ~Above(full, n + 1)
        BY <2>3, <2>5, <4>2, Zenon DEF Above
      <4> QED
        BY <4>1, <4>3 DEF P
    <3> QED
      BY <3>2, <3>3
  <2> QED
    BY <2>4, <2>5
<1>5. Nat \subseteq T
  <2> HIDE DEF T
  <2> QED
    BY <1>3, <1>4, NumberInduction
<1>6. P(Len(full))
  BY <1>2, <1>5
<1> QED
  BY <1>1, <1>6 DEF full, P

(* The components of a normal path are those that are kept, in order. *)
LEMMA ConvertIs ==
  ASSUME NEW path \in Path
  PROVE  LET full == system_complete(path)
             normal == convertToAbsolutePath(path)
         IN  IF \E j \in DOMAIN full :
                  Cardinality({k \in 1 .. j : IsName(full[k])})
                    < Cardinality({k \in 1 .. j : full[k] = ".."})
             THEN normal = UB
             ELSE
               /\ Len(normal) = Cardinality(Kept(full))
               /\ \A i \in Kept(full) :
                    normal[Cardinality({k \in Kept(full) : k <= i})] = full[i]
<1> DEFINE full == system_complete(path)
           normal == convertToAbsolutePath(path)
<1>1. full \in Seq(Names) /\ Len(full) \in Nat /\ DOMAIN full = 1 .. Len(full)
  BY CompleteType
<1>2. IF Above(full, Len(full)) THEN normal = UB
      ELSE \E idx : Stack(full, Len(full), normal, idx)
  BY ConvertKeeps
<1> HIDE DEF full, normal
<1>c. \A i \in Nat, j \in Nat : /\ Cardinality(NamesIn(full, i, j)) \in Nat
                                /\ Cardinality(UpsIn(full, i, j)) \in Nat
  <2> SUFFICES ASSUME NEW i \in Nat, NEW j \in Nat
               PROVE  /\ Cardinality(NamesIn(full, i, j)) \in Nat
                      /\ Cardinality(UpsIn(full, i, j)) \in Nat
    OBVIOUS
  <2>1. IsFiniteSet(i .. j)
    BY FS_Interval
  <2>2. /\ NamesIn(full, i, j) \in SUBSET (i .. j)
        /\ UpsIn(full, i, j) \in SUBSET (i .. j)
    BY DEF NamesIn, UpsIn
  <2> QED
    BY <2>1, <2>2, FS_Subset, FS_CardinalityType
<1>3. Above(full, Len(full)) <=>
        \E j \in DOMAIN full : Cardinality(NamesIn(full, 1, j))
                                 < Cardinality(UpsIn(full, 1, j))
  <2>1. \A j \in 1 .. Len(full) :
          Height(full, 1, j) < 0 <=> Cardinality(NamesIn(full, 1, j))
                                       < Cardinality(UpsIn(full, 1, j))
    <3> SUFFICES ASSUME NEW j \in 1 .. Len(full)
                 PROVE  Height(full, 1, j) < 0
                          <=> Cardinality(NamesIn(full, 1, j))
                                < Cardinality(UpsIn(full, 1, j))
      OBVIOUS
    <3>1. /\ Cardinality(NamesIn(full, 1, j)) \in Nat
          /\ Cardinality(UpsIn(full, 1, j)) \in Nat
      <4>1. 1 \in Nat /\ j \in Nat
        BY <1>1
      <4> QED
        BY <1>c, <4>1
    <3> QED
      BY <3>1 DEF Height
  <2> QED
    BY <1>1, <2>1, Zenon DEF Above
<1>4. Kept(full) = KeptTo(full, Len(full))
  <2>1. \A i \in 1 .. Len(full) : \A j \in i .. Len(full) :
          Height(full, i, j) > 0 <=>
            Cardinality(NamesIn(full, i, j)) > Cardinality(UpsIn(full, i, j))
    <3> SUFFICES ASSUME NEW i \in 1 .. Len(full), NEW j \in i .. Len(full)
                 PROVE  Height(full, i, j) > 0 <=>
                          Cardinality(NamesIn(full, i, j))
                            > Cardinality(UpsIn(full, i, j))
      OBVIOUS
    <3>1. /\ Cardinality(NamesIn(full, i, j)) \in Nat
          /\ Cardinality(UpsIn(full, i, j)) \in Nat
      <4>1. i \in Nat /\ j \in Nat
        BY <1>1
      <4> QED
        BY <1>c, <4>1
    <3> QED
      BY <3>1 DEF Height
  <2>2. Kept(full) =
          {i \in 1 .. Len(full) :
             /\ IsName(full[i])
             /\ \A j \in i .. Len(full) :
                  Cardinality(NamesIn(full, i, j))
                    > Cardinality(UpsIn(full, i, j))}
    BY <1>1, Zenon DEF Kept, NamesIn, UpsIn
  <2> QED
    BY <2>1, <2>2, Zenon DEF KeptTo
<1>5. ASSUME ~Above(full, Len(full))
      PROVE  /\ Len(normal) = Cardinality(Kept(full))
             /\ \A i \in Kept(full) :
                  normal[Cardinality({k \in Kept(full) : k <= i})] = full[i]
  <2>1. PICK idx : Stack(full, Len(full), normal, idx)
    BY <1>2, <1>5
  <2>2. /\ idx \in Seq(1 .. Len(full)) /\ Len(normal) = Len(idx)
        /\ Len(idx) \in Nat
        /\ \A m \in 1 .. Len(idx) : idx[m] \in Nat /\ normal[m] = full[idx[m]]
        /\ \A l, m \in 1 .. Len(idx) : l < m => idx[l] < idx[m]
        /\ Kept(full) = {idx[m] : m \in 1 .. Len(idx)}
    <3>1. /\ idx \in Seq(1 .. Len(full)) /\ Len(normal) = Len(idx)
          /\ \A m \in 1 .. Len(idx) : normal[m] = full[idx[m]]
          /\ \A l, m \in 1 .. Len(idx) : l < m => idx[l] < idx[m]
          /\ Kept(full) = {idx[m] : m \in 1 .. Len(idx)}
      BY <1>4, <2>1, Zenon DEF Stack
    <3>2. /\ Len(idx) \in Nat
          /\ \A m \in 1 .. Len(idx) : idx[m] \in Nat
      BY <1>1, <3>1
    <3> QED
      BY <3>1, <3>2
  <2>3. Len(idx) = Cardinality(Kept(full))
    <3>1. Cardinality({idx[l] : l \in 1 .. Len(idx)}) = Len(idx)
      <4>1. Len(idx) \in 0 .. Len(idx)
        BY <2>2
      <4> QED
        BY <1>1, <2>2, <4>1, Rank
    <3> QED
      BY <2>2, <3>1
  <2>4. ASSUME NEW i \in Kept(full)
        PROVE  normal[Cardinality({k \in Kept(full) : k <= i})] = full[i]
    <3>1. PICK m \in 1 .. Len(idx) : i = idx[m]
      BY <2>2
    <3>2. \A l \in 1 .. Len(idx) : idx[l] <= idx[m] <=> l \in 1 .. m
      <4> SUFFICES ASSUME NEW l \in 1 .. Len(idx)
                   PROVE  idx[l] <= idx[m] <=> l \in 1 .. m
        OBVIOUS
      <4>1. idx[l] \in Nat /\ idx[m] \in Nat
        BY <2>2
      <4>2. l < m => idx[l] < idx[m]
        BY <2>2
      <4>3. m < l => idx[m] < idx[l]
        BY <2>2
      <4> QED
        BY <2>2, <4>1, <4>2, <4>3
    <3>3. \A l \in 1 .. m : l \in 1 .. Len(idx)
      BY <2>2
    <3>4. {k \in Kept(full) : k <= i} = {idx[l] : l \in 1 .. m}
      BY <2>2, <3>1, <3>2, <3>3, Zenon
    <3>5. Cardinality({idx[l] : l \in 1 .. m}) = m
      <4>1. m \in 0 .. Len(idx)
        BY <2>2
      <4> QED
        BY <1>1, <2>2, <4>1, Rank
    <3> QED
      BY <2>2, <3>1, <3>4, <3>5
  <2> QED
    BY <2>2, <2>3, <2>4
<1>6. IF \E j \in DOMAIN full : Cardinality(NamesIn(full, 1, j))
                                  < Cardinality(UpsIn(full, 1, j))
      THEN normal = UB
      ELSE /\ Len(normal) = Cardinality(Kept(full))
           /\ \A i \in Kept(full) :
                normal[Cardinality({k \in Kept(full) : k <= i})] = full[i]
  BY <1>2, <1>3, <1>5
<1> QED
  BY <1>6, Zenon DEF full, normal, NamesIn, UpsIn

(* get_request_handler: the handler of the longest prefix of the normal    *)
(* target that is in the registry, and null if there is none.              *)
LEMMA LookupIs ==
  ASSUME NEW request_uri \in Path,
         convertToAbsolutePath(request_uri) # UB
  PROVE  LET uri == convertToAbsolutePath(request_uri)
             Known(n) == SubSeq(uri, 1, n) \in DOMAIN location_to_handler_
             h == get_request_handler(request_uri)
         IN  \/ h = NULL /\ \A n \in 0 .. Len(uri) : ~Known(n)
             \/ \E n \in 0 .. Len(uri) :
                  /\ Known(n) /\ h = location_to_handler_[SubSeq(uri, 1, n)]
                  /\ \A m \in 0 .. Len(uri) : Known(m) => m <= n
<1> DEFINE uri == convertToAbsolutePath(request_uri)
           Known(n) == SubSeq(uri, 1, n) \in DOMAIN location_to_handler_
           At(n) == location_to_handler_[SubSeq(uri, 1, n)]
           Loop(f, k) == f = [n \in 0 .. k |->
                                IF Known(n) THEN At(n)
                                ELSE IF n = 0 THEN NULL ELSE f[n - 1]]
           E == {k \in Nat : \E f : Loop(f, k)}
<1>1. 0 \in E
  <2>1. Loop([n \in 0 .. 0 |-> IF Known(n) THEN At(n) ELSE NULL], 0)
    <3> HIDE DEF Known, At
    <3> QED
      OBVIOUS
  <2> HIDE DEF Loop
  <2> QED
    BY <2>1
<1>2. \A k \in Nat : k \in E => k + 1 \in E
  <2> SUFFICES ASSUME NEW k \in Nat, NEW f, Loop(f, k) PROVE k + 1 \in E
    OBVIOUS
  <2> DEFINE g == [n \in 0 .. k + 1 |->
                     IF n <= k THEN f[n]
                     ELSE IF Known(n) THEN At(n) ELSE f[k]]
  <2>1. Loop(g, k + 1)
    <3> HIDE DEF Known, At
    <3> QED
      OBVIOUS
  <2> HIDE DEF Loop, g
  <2> QED
    BY <2>1
<1>3. Nat \subseteq E
  <2> HIDE DEF E
  <2> QED
    BY <1>1, <1>2, NumberInduction
<1>4. Len(uri) \in Nat
  BY ConvertType
<1>5. PICK f : Loop(f, Len(uri))
  BY <1>3, <1>4
<1> DEFINE from == CHOOSE f_1 : Loop(f_1, Len(uri))
<1>6. Loop(from, Len(uri))
  <2> HIDE DEF Loop, uri
  <2> QED
    BY <1>5
<1>7. get_request_handler(request_uri) = from[Len(uri)]
  BY DEF get_request_handler
<1> HIDE DEF from
<1> DEFINE Found(k) ==
             \/ from[k] = NULL /\ \A n \in 0 .. k : ~Known(n)
             \/ \E n \in 0 .. k : /\ Known(n) /\ from[k] = At(n)
                                  /\ \A m \in 0 .. k : Known(m) => m <= n
           T == {k \in Nat : k <= Len(uri) => Found(k)}
<1>8. Nat \subseteq T
  <2> HIDE DEF Known, At, uri
  <2>1. 0 \in T
    BY <1>4, <1>6
  <2>2. \A k \in Nat : k \in T => k + 1 \in T
    <3> SUFFICES ASSUME NEW k \in Nat, Found(k), k + 1 <= Len(uri)
                 PROVE  Found(k + 1)
      BY <1>4
    <3>1. from[k + 1] = IF Known(k + 1) THEN At(k + 1) ELSE from[k]
      BY <1>4, <1>6
    <3> QED
      BY <3>1
  <2> HIDE DEF T
  <2> QED
    BY <2>1, <2>2, NumberInduction
<1>9. Found(Len(uri))
  BY <1>4, <1>8
<1> QED
  BY <1>7, <1>9
-----------------------------------------------------------------------------
(* A configuration is a sequence of location blocks. *)
LEMMA ConfigType ==
  ASSUME config \in Configs
  PROVE  /\ config \in Seq(LocationBlock)
         /\ Len(config) \in Nat /\ DOMAIN config = 1 .. Len(config)
         /\ \A i \in 1 .. Len(config) :
              config[i].location \in Path /\ config[i].root \in Path
<1>1. config \in Seq(LocationBlock)
  BY RoutingAssumption
<1>2. \A i \in 1 .. Len(config) : config[i] \in LocationBlock
  BY <1>1, ElementOfSeq
<1> QED
  BY <1>1, <1>2, LenProperties DEF LocationBlock

(* Every configured location and every target is normalised right. *)
LEMMA AllNormalised == TypeOK => NormalisedRight
<1> SUFFICES ASSUME TypeOK PROVE NormalisedRight
  OBVIOUS
<1>1. \A i \in DOMAIN config : config[i].location \in Path
  BY ConfigType DEF TypeOK
<1>2. Uris \cup {config[i].location : i \in DOMAIN config} \subseteq Path
  BY <1>1, RoutingAssumption
<1> QED
  BY <1>2, ConvertIs, Zenon DEF NormalisedRight

(* Nothing is registered and nothing deleted before the first block. *)
LEMMA InitIInv == Init => IInv
<1> SUFFICES ASSUME Init PROVE IInv
  OBVIOUS
<1>c. /\ Len(config) \in Nat /\ DOMAIN config = 1 .. Len(config)
      /\ config \in Configs
  BY ConfigType DEF Init
<1>1. TypeOK
  BY <1>c DEF Init, TypeOK
<1>2. BlocksAreRegistered /\ RegistryIsOfBlocks
  BY DEF Init, BlocksAreRegistered, RegistryIsOfBlocks
<1>3. InOrder /\ FreedOnce
  BY DEF Init, InOrder, FreedOnce
<1> QED
  BY <1>1, <1>2, <1>3 DEF IInv

(* Every step of the registry preserves IInv. *)
LEMMA NextIInv == IInv /\ [Next]_vars => IInv'
<1> SUFFICES ASSUME IInv, [Next]_vars PROVE IInv'
  OBVIOUS
<1>i. /\ TypeOK /\ BlocksAreRegistered /\ RegistryIsOfBlocks /\ InOrder
      /\ FreedOnce
  BY DEF IInv
<1>c. /\ config \in Seq(LocationBlock)
      /\ Len(config) \in Nat /\ DOMAIN config = 1 .. Len(config)
      /\ \A i \in 1 .. Len(config) :
           config[i].location \in Path /\ config[i].root \in Path
  BY <1>i, ConfigType DEF TypeOK
<1>1. CASE create_and_add_handler
  <2> DEFINE block == config[next]
             loc == convertToAbsolutePath(block.location)
  <2>1. /\ phase = "loading" /\ next \in 1 .. Len(config)
        /\ block.type \in handler_types /\ loc # UB /\ Constructs(block)
        /\ next' = next + 1 /\ UNCHANGED <<config, freed, phase>>
        /\ block.location \in Path
    BY <1>1, <1>c DEF create_and_add_handler
  <2>2. location_to_handler_' =
              [p \in DOMAIN location_to_handler_ \cup {loc} |->
                 IF p = loc THEN next ELSE location_to_handler_[p]]
    BY <1>1 DEF create_and_add_handler
  <2>3. /\ handler_to_prefixes_' =
              [handler_to_prefixes_ EXCEPT
                 ![block.type] = Append(@, block.location)]
        /\ type_to_handler_' =
              [type_to_handler_ EXCEPT ![block.type] = Append(@, next)]
    BY <1>1 DEF create_and_add_handler
  <2> HIDE DEF loc
  <2>4. /\ type_to_handler_[block.type] \in Seq(DOMAIN config)
        /\ next \in DOMAIN config
        /\ handler_to_prefixes_[block.type] \in Seq(Path)
    BY <1>i, <1>c, <2>1 DEF TypeOK
  <2>5. /\ Append(type_to_handler_[block.type], next) \in Seq(DOMAIN config)
        /\ Len(Append(type_to_handler_[block.type], next))
             = Len(type_to_handler_[block.type]) + 1
        /\ \A k \in 1 .. Len(type_to_handler_[block.type]) :
             Append(type_to_handler_[block.type], next)[k]
               = type_to_handler_[block.type][k]
        /\ Append(type_to_handler_[block.type], next)
             [Len(type_to_handler_[block.type]) + 1] = next
    BY <2>4, AppendProperties
  <2>6. /\ Append(handler_to_prefixes_[block.type], block.location) \in Seq(Path)
        /\ Len(Append(handler_to_prefixes_[block.type], block.location))
             = Len(handler_to_prefixes_[block.type]) + 1
    BY <2>1, <2>4, AppendProperties
  <2>7. TypeOK'
    <3>1. \A p \in DOMAIN location_to_handler_' :
            location_to_handler_'[p] \in DOMAIN config'
      BY <1>i, <2>1, <2>2, <2>4 DEF TypeOK
    <3>2. /\ type_to_handler_' \in [handler_types -> Seq(DOMAIN config')]
          /\ handler_to_prefixes_' \in [handler_types -> Seq(Path)]
      BY <1>i, <2>1, <2>3, <2>5, <2>6 DEF TypeOK
    <3>3. \A t \in handler_types : Len(handler_to_prefixes_'[t])
                                     = Len(type_to_handler_'[t])
      BY <1>i, <2>1, <2>3, <2>5, <2>6 DEF TypeOK
    <3> QED
      BY <1>i, <1>c, <2>1, <3>1, <3>2, <3>3 DEF TypeOK
  <2> DEFINE tth == type_to_handler_[block.type]
  <2>8. /\ \A k \in DOMAIN tth :
             k \in DOMAIN type_to_handler_'[block.type]
               /\ type_to_handler_'[block.type][k] = tth[k]
        /\ \E k \in DOMAIN type_to_handler_'[block.type] :
             type_to_handler_'[block.type][k] = next
        /\ \A k \in DOMAIN type_to_handler_'[block.type] :
             \/ type_to_handler_'[block.type][k] = next
             \/ k \in DOMAIN tth /\ type_to_handler_'[block.type][k] = tth[k]
        /\ \A t \in handler_types \ {block.type} :
             type_to_handler_'[t] = type_to_handler_[t]
    <3>1. type_to_handler_'[block.type] = Append(tth, next)
      BY <1>i, <2>1, <2>3 DEF TypeOK
    <3>2. DOMAIN tth = 1 .. Len(tth) /\ Len(tth) \in Nat
          /\ DOMAIN Append(tth, next) = 1 .. Len(tth) + 1
      BY <2>4, <2>5
    <3>3. \A t \in handler_types \ {block.type} :
             type_to_handler_'[t] = type_to_handler_[t]
      BY <1>i, <2>1, <2>3 DEF TypeOK
    <3> QED
      BY <2>5, <3>1, <3>2, <3>3
  <2>9. BlocksAreRegistered'
    <3>0. next' - 1 = next /\ config' = config
      BY <1>i, <2>1 DEF TypeOK
    <3> SUFFICES ASSUME NEW i \in 1 .. next, config[i].type \in handler_types
                 PROVE  LET l == convertToAbsolutePath(config[i].location)
                        IN  /\ l # UB /\ Constructs(config[i])
                            /\ l \in DOMAIN location_to_handler_'
                            /\ i <= location_to_handler_'[l]
                            /\ \E k \in DOMAIN type_to_handler_'[config[i].type] :
                                 type_to_handler_'[config[i].type][k] = i
      BY <3>0 DEF BlocksAreRegistered, Constructs
    <3>1. CASE i = next
      BY <3>1, <2>1, <2>2, <2>8 DEF loc
    <3>2. CASE i # next
      <4>1. i \in 1 .. next - 1 /\ i <= next
        BY <3>2, <2>1
      <4> DEFINE l == convertToAbsolutePath(config[i].location)
      <4>2. /\ Constructs(config[i]) /\ l # UB /\ l \in DOMAIN location_to_handler_
            /\ i <= location_to_handler_[l]
            /\ \E k \in DOMAIN type_to_handler_[config[i].type] :
                 type_to_handler_[config[i].type][k] = i
        BY <1>i, <4>1 DEF BlocksAreRegistered
      <4> HIDE DEF l
      <4>3. l \in DOMAIN location_to_handler_' /\ i <= location_to_handler_'[l]
        BY <2>2, <4>1, <4>2
      <4>4. \E k \in DOMAIN type_to_handler_'[config[i].type] :
              type_to_handler_'[config[i].type][k] = i
        BY <2>8, <4>2
      <4> QED
        BY <4>2, <4>3, <4>4 DEF l
    <3> QED
      BY <3>1, <3>2
  <2>10. RegistryIsOfBlocks'
    <3>1. ASSUME NEW p \in DOMAIN location_to_handler_'
          PROVE  LET h == location_to_handler_'[p]
                 IN  /\ h \in 1 .. next' - 1
                     /\ config[h].type \in handler_types
                     /\ p = convertToAbsolutePath(config[h].location)
                     /\ p # UB
      <4>1. CASE p = loc
        BY <4>1, <2>1, <2>2 DEF loc
      <4>2. CASE p # loc
        <5>1. p \in DOMAIN location_to_handler_
              /\ location_to_handler_'[p] = location_to_handler_[p]
          BY <4>2, <2>2
        <5> QED
          BY <1>i, <2>1, <5>1 DEF RegistryIsOfBlocks
      <4> QED
        BY <4>1, <4>2
    <3>2. ASSUME NEW t \in handler_types, NEW k \in DOMAIN type_to_handler_'[t]
          PROVE  config[type_to_handler_'[t][k]].type = t
      BY <1>i, <2>1, <2>8 DEF RegistryIsOfBlocks
    <3> QED
      BY <2>1, <3>1, <3>2 DEF RegistryIsOfBlocks
  <2>11. InOrder' /\ FreedOnce'
    BY <1>i, <2>1 DEF InOrder, FreedOnce
  <2> QED
    BY <2>7, <2>9, <2>10, <2>11 DEF IInv
<1>2. CASE SkipBlock
  <2>1. /\ phase = "loading" /\ next \in 1 .. Len(config)
        /\ config[next].type \notin handler_types /\ next' = next + 1
        /\ UNCHANGED <<config, location_to_handler_, type_to_handler_,
                       handler_to_prefixes_, freed, phase>>
    BY <1>2, <1>c DEF SkipBlock
  <2>2. TypeOK' /\ InOrder' /\ FreedOnce'
    BY <1>i, <1>c, <2>1 DEF TypeOK, InOrder, FreedOnce
  <2>3. BlocksAreRegistered'
    <3>1. \A i \in 1 .. next' - 1 :
            config[i].type \in handler_types => i \in 1 .. next - 1
      BY <2>1
    <3> QED
      BY <1>i, <2>1, <3>1 DEF BlocksAreRegistered
  <2>4. RegistryIsOfBlocks'
    BY <1>i, <2>1 DEF RegistryIsOfBlocks
  <2> QED
    BY <2>2, <2>3, <2>4 DEF IInv
<1>3. CASE BadLocation \/ MissingValue \/ Serve
  <2>1. /\ phase = "loading"
        /\ UNCHANGED <<config, next, location_to_handler_, type_to_handler_,
                       handler_to_prefixes_, freed>>
        /\ \/ phase' = "crashed"
           \/ phase' = "serving" /\ next \notin DOMAIN config
    BY <1>3 DEF BadLocation, MissingValue, Serve
  <2>2. TypeOK' /\ InOrder' /\ FreedOnce'
    BY <1>i, <1>c, <2>1 DEF TypeOK, InOrder, FreedOnce
  <2>3. BlocksAreRegistered' /\ RegistryIsOfBlocks'
    BY <1>i, <2>1 DEF BlocksAreRegistered, RegistryIsOfBlocks
  <2> QED
    BY <2>2, <2>3 DEF IInv
<1>4. CASE Destroy
  <2> DEFINE Paths(h) == {p \in DOMAIN location_to_handler_ :
                            location_to_handler_[p] = h}
  <2>1. /\ phase = "serving" /\ phase' = "destroyed"
        /\ freed' = [h \in DOMAIN freed |-> freed[h] + Cardinality(Paths(h))]
        /\ UNCHANGED <<config, next, location_to_handler_, type_to_handler_,
                       handler_to_prefixes_>>
    BY <1>4 DEF Destroy
  <2>2. \A h \in DOMAIN freed : Paths(h) = {} \/ \E p : Paths(h) = {p}
    BY <1>i DEF RegistryIsOfBlocks
  <2>3. \A h \in DOMAIN freed :
          /\ Cardinality(Paths(h)) \in {0, 1}
          /\ Paths(h) # {} => Cardinality(Paths(h)) = 1
    <3> HIDE DEF Paths
    <3> QED
      BY <2>2, FS_EmptySet, FS_Singleton
  <2>4. \A h \in DOMAIN freed : freed'[h] = Cardinality(Paths(h))
    <3> HIDE DEF Paths
    <3>1. \A h \in DOMAIN freed : freed[h] = 0
      BY <1>i, <2>1 DEF InOrder
    <3> QED
      BY <2>1, <2>3, <3>1
  <2>5. TypeOK'
    <3> HIDE DEF Paths
    <3>1. freed' \in [DOMAIN config -> Nat]
      BY <1>i, <2>1, <2>3 DEF TypeOK
    <3> QED
      BY <1>i, <2>1, <3>1 DEF TypeOK
  <2>6. BlocksAreRegistered' /\ RegistryIsOfBlocks' /\ InOrder'
    BY <1>i, <2>1 DEF BlocksAreRegistered, RegistryIsOfBlocks, InOrder
  <2>7. FreedOnce'
    <3>1. \A h \in DOMAIN freed' : freed'[h] <= 1
      BY <2>1, <2>3, <2>4
    <3>2. \A p \in DOMAIN location_to_handler_ :
            /\ location_to_handler_[p] \in DOMAIN freed
            /\ p \in Paths(location_to_handler_[p])
      BY <1>i DEF TypeOK
    <3>3. \A p \in DOMAIN location_to_handler_ :
            freed'[location_to_handler_[p]] = 1
      <4> HIDE DEF Paths
      <4> QED
        BY <2>3, <2>4, <3>2
    <3> QED
      BY <2>1, <3>1, <3>3 DEF FreedOnce
  <2> QED
    BY <2>5, <2>6, <2>7 DEF IInv
<1>5. CASE UNCHANGED vars
  BY <1>i, <1>5
  DEF vars, IInv, TypeOK, BlocksAreRegistered, RegistryIsOfBlocks, InOrder,
      FreedOnce
<1> QED
  BY <1>1, <1>2, <1>3, <1>4, <1>5 DEF Next
-----------------------------------------------------------------------------
(* While requests are served, the registry decides as LongestPrefixWins    *)
(* says.                                                                   *)
LEMMA LongestPrefix == IInv => LongestPrefixWins
<1> SUFFICES ASSUME IInv, phase = "serving",
                    NEW request_uri \in Uris,
                    convertToAbsolutePath(request_uri) # UB
             PROVE  LET uri == convertToAbsolutePath(request_uri)
                        depth(i) == Len(convertToAbsolutePath(config[i].location))
                        h   == get_request_handler(request_uri)
                    IN  IF Matches(uri) = {} THEN h = NULL
                        ELSE /\ h \in Matches(uri)
                             /\ \A i \in Matches(uri) :
                                  \/ depth(i) < depth(h)
                                  \/ depth(i) = depth(h) /\ i <= h
  BY DEF LongestPrefixWins
<1> DEFINE uri == convertToAbsolutePath(request_uri)
           Loc(i) == convertToAbsolutePath(config[i].location)
           h == get_request_handler(request_uri)
           Known(n) == SubSeq(uri, 1, n) \in DOMAIN location_to_handler_
<1>1. request_uri \in Path
  BY RoutingAssumption
<1>2. uri \in Seq(Names) /\ Len(uri) \in Nat
  BY <1>1, ConvertType
<1>3. /\ Len(config) \in Nat /\ DOMAIN config = 1 .. Len(config)
      /\ next = Len(config) + 1
      /\ \A i \in DOMAIN config : config[i].location \in Path
  BY ConfigType DEF IInv, TypeOK, InOrder
<1>4. \/ h = NULL /\ \A n \in 0 .. Len(uri) : ~Known(n)
      \/ \E n \in 0 .. Len(uri) :
           /\ Known(n) /\ h = location_to_handler_[SubSeq(uri, 1, n)]
           /\ \A m \in 0 .. Len(uri) : Known(m) => m <= n
  BY <1>1, LookupIs
<1>5. \A n \in 0 .. Len(uri) : /\ SubSeq(uri, 1, n) \in Seq(Names)
                               /\ Len(SubSeq(uri, 1, n)) = n
  BY <1>2, SubSeqProperties
<1>6. ASSUME NEW i \in Matches(uri)
      PROVE  /\ i \in 1 .. next - 1 /\ Len(Loc(i)) \in 0 .. Len(uri)
             /\ Loc(i) = SubSeq(uri, 1, Len(Loc(i)))
             /\ Known(Len(Loc(i)))
             /\ i <= location_to_handler_[SubSeq(uri, 1, Len(Loc(i)))]
  <2>1. /\ i \in 1 .. next - 1 /\ config[i].type \in handler_types
        /\ IsPrefix(Loc(i), uri) /\ config[i].location \in Path
    BY <1>3 DEF Matches
  <2>2. /\ Loc(i) # UB /\ Loc(i) \in DOMAIN location_to_handler_
        /\ i <= location_to_handler_[Loc(i)]
    BY <2>1 DEF IInv, BlocksAreRegistered
  <2>3. Loc(i) \in Seq(Names)
    BY <2>1, <2>2, ConvertType
  <2>4. /\ Len(Loc(i)) \in 0 .. Len(uri)
        /\ Loc(i) = SubSeq(uri, 1, Len(Loc(i)))
    BY <1>2, <2>1, <2>3 DEF IsPrefix
  <2> HIDE DEF Loc, uri
  <2> QED
    BY <2>1, <2>2, <2>4
<1>7. CASE h = NULL /\ \A n \in 0 .. Len(uri) : ~Known(n)
  <2>1. Matches(uri) = {}
    <3> HIDE DEF Loc, uri, Known, h
    <3> QED
      BY <1>6, <1>7
  <2> QED
    BY <1>7, <2>1
<1>8. ASSUME NEW n \in 0 .. Len(uri), Known(n),
             h = location_to_handler_[SubSeq(uri, 1, n)],
             \A m \in 0 .. Len(uri) : Known(m) => m <= n
      PROVE  /\ h \in Matches(uri) /\ Len(Loc(h)) = n
             /\ \A i \in Matches(uri) :
                  \/ Len(Loc(i)) < Len(Loc(h))
                  \/ Len(Loc(i)) = Len(Loc(h)) /\ i <= h
  <2>1. /\ h \in 1 .. next - 1 /\ config[h].type \in handler_types
        /\ SubSeq(uri, 1, n) = Loc(h)
    BY <1>8 DEF IInv, RegistryIsOfBlocks
  <2>2. Len(Loc(h)) = n /\ Loc(h) = SubSeq(uri, 1, Len(Loc(h)))
    <3> HIDE DEF Loc, uri, h
    <3> QED
      BY <1>5, <2>1
  <2>3. h \in Matches(uri)
    BY <1>2, <1>3, <2>1, <2>2 DEF Matches, IsPrefix
  <2>4. ASSUME NEW i \in Matches(uri)
        PROVE  \/ Len(Loc(i)) < n
               \/ Len(Loc(i)) = n /\ i <= h
    <3> HIDE DEF Loc, uri, Known, h
    <3> QED
      BY <1>2, <1>6, <1>8
  <2> HIDE DEF Loc, uri, Known, h
  <2> QED
    BY <2>2, <2>3, <2>4
<1>9. CASE \E n \in 0 .. Len(uri) :
             /\ Known(n) /\ h = location_to_handler_[SubSeq(uri, 1, n)]
             /\ \A m \in 0 .. Len(uri) : Known(m) => m <= n
  BY <1>8, <1>9
<1> QED
  BY <1>4, <1>7, <1>9

(* get_handler_type finds the one type that a handler is registered under. *)
LEMMA TypeOfHandler == IInv => TypeIsConfigured
<1> SUFFICES ASSUME IInv, NEW p \in DOMAIN location_to_handler_
             PROVE  get_handler_type(location_to_handler_[p])
                      = config[location_to_handler_[p]].type
  BY DEF TypeIsConfigured
<1> DEFINE h == location_to_handler_[p]
           types == {t \in handler_types :
                       \E i \in DOMAIN type_to_handler_[t] :
                          type_to_handler_[t][i] = h}
<1>1. h \in 1 .. next - 1 /\ config[h].type \in handler_types
  BY DEF IInv, RegistryIsOfBlocks
<1>2. config[h].type \in types
  BY <1>1 DEF IInv, BlocksAreRegistered
<1>3. \A t \in types : t = config[h].type
  BY DEF IInv, RegistryIsOfBlocks
<1>4. types = {config[h].type}
  BY <1>2, <1>3
<1>5. h # NULL
  BY <1>1, RoutingAssumption DEF IInv, TypeOK
<1>6. get_handler_type(h) = CHOOSE t \in types : TRUE
  BY <1>4, <1>5 DEF get_handler_type
<1> HIDE DEF types
<1> QED
  BY <1>4, <1>6
-----------------------------------------------------------------------------
(* The text of one more component.  (The provers do not know that "/" is a *)
(* string.)                                                                *)
Letters == STRING \cup {"/"}
Piece(comp) == <<"/">> \o Chars[comp]

(* A component's text is a slash and its characters. *)
LEMMA PieceType ==
  ASSUME NEW comp \in Names
  PROVE  /\ Piece(comp) \in Seq(Letters)
         /\ Len(Piece(comp)) > 0 /\ Piece(comp)[1] = "/"
<1>1. Chars[comp] \in Seq(Letters)
  <2>1. Chars[comp] \in Seq(STRING)
    BY CharsAssumption
  <2> QED
    BY <2>1, SeqMonotonic DEF Letters
<1>2. "/" \in Letters
  BY DEF Letters
<1>3. <<"/">> \in Seq(Letters) /\ Len(<<"/">>) = 1 /\ <<"/">>[1] = "/"
  BY <1>2
<1> QED
  BY <1>1, <1>3, ConcatProperties DEF Piece

(* The loop of FlattenSeq over the components of a path. *)
LEMMA SlashedLoop ==
  ASSUME NEW comps \in Seq(Names), comps # <<>>
  PROVE  \E f : /\ f[1] = Piece(comps[1])
                /\ \A i \in 1 .. Len(comps) - 1 :
                     f[i + 1] = f[i] \o Piece(comps[i + 1])
                /\ Slashed(comps) = f[Len(comps)]
<1> DEFINE Longer(text, i) == text \o Piece(comps[i])
           Loop(f, n) == f = [i \in 1 .. n |->
                                IF i = 1 THEN Piece(comps[i])
                                ELSE Longer(f[i - 1], i)]
           E == {n \in Nat : \E f : Loop(f, n)}
           seqs == [i \in DOMAIN comps |-> <<"/">> \o Chars[comps[i]]]
<1>1. 0 \in E
  <2>1. Loop([i \in 1 .. 0 |-> 0], 0)
    OBVIOUS
  <2> HIDE DEF Loop
  <2> QED
    BY <2>1
<1>2. \A n \in Nat : n \in E => n + 1 \in E
  <2> SUFFICES ASSUME NEW n \in Nat, NEW f, Loop(f, n) PROVE n + 1 \in E
    OBVIOUS
  <2> DEFINE g == [i \in 1 .. n + 1 |->
                     IF i <= n THEN f[i]
                     ELSE IF i = 1 THEN Piece(comps[i]) ELSE Longer(f[n], i)]
  <2> HIDE DEF Longer
  <2>1. Loop(g, n + 1)
    OBVIOUS
  <2> HIDE DEF Loop, g
  <2> QED
    BY <2>1
<1>3. Nat \subseteq E
  <2> HIDE DEF E
  <2> QED
    BY <1>1, <1>2, NumberInduction
<1>4. /\ Len(comps) \in Nat /\ Len(comps) # 0
      /\ DOMAIN comps = 1 .. Len(comps)
      /\ \A i \in 1 .. Len(comps) : seqs[i] = Piece(comps[i])
  BY DEF Piece
<1>5. Len(seqs) = Len(comps)
  BY <1>4
<1>6. PICK f : Loop(f, Len(comps))
  BY <1>3, <1>4
<1> DEFINE Flat(f_1) == f_1 = [i \in 1 .. Len(seqs) |->
                               IF i = 1 THEN seqs[i] ELSE f_1[i - 1] \o seqs[i]]
           flatten == CHOOSE f_1 : Flat(f_1)
<1>7. \A f_1 : Flat(f_1) <=> Loop(f_1, Len(comps))
  <2> HIDE DEF seqs
  <2> QED
    BY <1>4, <1>5
<1>8. Flat(flatten)
  <2> HIDE DEF Flat, Loop
  <2> QED
    BY <1>6, <1>7
<1>9. Slashed(comps) = flatten[Len(seqs)]
  BY <1>4, <1>5 DEF Slashed, SE!FlattenSeq
<1> HIDE DEF flatten, seqs, Loop, Flat
<1>10. Loop(flatten, Len(comps)) /\ Slashed(comps) = flatten[Len(comps)]
  BY <1>5, <1>7, <1>8, <1>9
<1>11. /\ flatten[1] = Piece(comps[1])
       /\ \A i \in 1 .. Len(comps) - 1 : flatten[i + 1] = Longer(flatten[i], i + 1)
  <2> HIDE DEF Longer
  <2> QED
    BY <1>4, <1>10 DEF Loop
<1> QED
  BY <1>10, <1>11

(* The text of a path is a text, empty for no components. *)
LEMMA SlashedType ==
  /\ Slashed(<<>>) = <<>>
  /\ \A comps \in Seq(Names) : Slashed(comps) \in Seq(Letters)
<1>1. Slashed(<<>>) = <<>>
  BY DEF Slashed, SE!FlattenSeq
<1>2. ASSUME NEW comps \in Seq(Names), comps # <<>>
      PROVE  Slashed(comps) \in Seq(Letters)
  <2>1. PICK f : /\ f[1] = Piece(comps[1])
                 /\ \A i \in 1 .. Len(comps) - 1 :
                      f[i + 1] = f[i] \o Piece(comps[i + 1])
                 /\ Slashed(comps) = f[Len(comps)]
    BY <1>2, SlashedLoop
  <2> DEFINE T == {n \in Nat : n + 1 <= Len(comps) => f[n + 1] \in Seq(Letters)}
  <2>2. /\ Len(comps) \in Nat \ {0}
        /\ \A i \in 1 .. Len(comps) : Piece(comps[i]) \in Seq(Letters)
    BY <1>2, ElementOfSeq, EmptySeq, PieceType
  <2>3. 0 \in T
    BY <2>1, <2>2
  <2>4. ASSUME NEW n \in Nat, n \in T PROVE n + 1 \in T
    <3> DEFINE m == n + 1
    <3> SUFFICES ASSUME m + 1 <= Len(comps) PROVE f[m + 1] \in Seq(Letters)
      BY <2>2
    <3>1. m \in 1 .. Len(comps) - 1 /\ m + 1 \in 1 .. Len(comps)
      BY <2>2
    <3>2. f[m] \in Seq(Letters)
      BY <2>2, <2>4, <3>1
    <3> HIDE DEF m
    <3>3. f[m + 1] = f[m] \o Piece(comps[m + 1])
      BY <2>1, <3>1
    <3> QED
      BY <2>2, <3>1, <3>2, <3>3, ConcatProperties
  <2>5. Nat \subseteq T
    <3> HIDE DEF T
    <3> QED
      BY <2>3, <2>4, NumberInduction
  <2>6. Len(comps) - 1 \in T /\ (Len(comps) - 1) + 1 = Len(comps)
    <3> HIDE DEF T
    <3> QED
      BY <2>2, <2>5
  <2> QED
    BY <2>1, <2>2, <2>6
<1> QED
  BY <1>1, <1>2, EmptySeq

(* A component more adds a piece. *)
LEMMA SlashedAppend ==
  ASSUME NEW comps \in Seq(Names), NEW comp \in Names
  PROVE  Slashed(Append(comps, comp)) = Slashed(comps) \o Piece(comp)
<1> DEFINE w == Append(comps, comp)
           n == Len(comps)
<1>1. /\ w \in Seq(Names) /\ w # <<>> /\ Len(w) = n + 1
      /\ \A i \in 1 .. n : w[i] = comps[i]
      /\ w[n + 1] = comp /\ n \in Nat
  BY AppendProperties, LenProperties
<1> HIDE DEF w
<1>2. PICK g : /\ g[1] = Piece(w[1])
               /\ \A i \in 1 .. Len(w) - 1 : g[i + 1] = g[i] \o Piece(w[i + 1])
               /\ Slashed(w) = g[Len(w)]
  BY <1>1, SlashedLoop
<1>3. CASE comps = <<>>
  <2>1. n = 0
    BY <1>3
  <2>2. Slashed(w) = Piece(comp)
    BY <1>1, <1>2, <2>1
  <2> QED
    BY <1>3, <2>2, SlashedType, PieceType, ConcatEmptySeq DEF w
<1>4. CASE comps # <<>>
  <2>1. PICK f : /\ f[1] = Piece(comps[1])
                 /\ \A i \in 1 .. n - 1 :
                      f[i + 1] = f[i] \o Piece(comps[i + 1])
                 /\ Slashed(comps) = f[n]
    BY <1>4, SlashedLoop
  <2>2. n # 0
    BY <1>4
  <2> HIDE DEF n
  <2> DEFINE T == {k \in Nat : k + 1 <= n => g[k + 1] = f[k + 1]}
  <2>3. 0 \in T
    BY <1>1, <1>2, <2>1, <2>2
  <2>4. ASSUME NEW k \in Nat, k \in T PROVE k + 1 \in T
    <3> DEFINE m == k + 1
    <3> SUFFICES ASSUME m + 1 <= n PROVE g[m + 1] = f[m + 1]
      BY <1>1
    <3>1. /\ m \in 1 .. n - 1 /\ m \in 1 .. Len(w) - 1
          /\ m + 1 \in 1 .. n
      BY <1>1
    <3>2. g[m] = f[m]
      BY <1>1, <2>4, <3>1
    <3> HIDE DEF m
    <3>3. /\ g[m + 1] = g[m] \o Piece(w[m + 1])
          /\ f[m + 1] = f[m] \o Piece(comps[m + 1])
      BY <1>2, <2>1, <3>1
    <3> QED
      BY <1>1, <3>1, <3>2, <3>3
  <2>5. Nat \subseteq T
    <3> HIDE DEF T
    <3> QED
      BY <2>3, <2>4, NumberInduction
  <2>6. g[n] = f[n]
    <3>1. n - 1 \in T
      BY <1>1, <2>2, <2>5
    <3> QED
      BY <1>1, <2>2, <3>1
  <2>7. g[n + 1] = g[n] \o Piece(comp)
    <3>1. n \in 1 .. Len(w) - 1
      BY <1>1, <2>2
    <3> QED
      BY <1>1, <1>2, <3>1
  <2> QED
    BY <1>1, <1>2, <2>1, <2>6, <2>7 DEF w
<1> QED
  BY <1>3, <1>4

(* A text behind two others. *)
Joined(u, v, w) == (u \o v) \o w = u \o (v \o w)

LEMMA Assoc ==
  ASSUME NEW D, NEW u, NEW v, NEW w,
         u \in Seq(D) /\ v \in Seq(D) /\ w \in Seq(D)
  PROVE  Joined(u, v, w)
  BY ConcatAssociative DEF Joined

(* The text of two paths, one behind the other. *)
LEMMA SlashedConcat ==
  ASSUME NEW a \in Seq(Names), NEW b \in Seq(Names)
  PROVE  Slashed(a \o b) = Slashed(a) \o Slashed(b)
<1> DEFINE Holds(c) == Slashed(a \o c) = Slashed(a) \o Slashed(c)
           T == {n \in Nat : \A c \in Seq(Names) : Len(c) = n => Holds(c)}
<1>1. 0 \in T
  <2> SUFFICES ASSUME NEW c \in Seq(Names), Len(c) = 0 PROVE Holds(c)
    OBVIOUS
  <2>1. c = <<>>
    BY EmptySeq
  <2>2. a \o <<>> = a
    BY ConcatEmptySeq
  <2>3. Slashed(a) \o <<>> = Slashed(a)
    BY SlashedType, ConcatEmptySeq
  <2> QED
    BY <2>1, <2>2, <2>3, SlashedType
<1>2. ASSUME NEW n \in Nat, n \in T PROVE n + 1 \in T
  <2> SUFFICES ASSUME NEW c \in Seq(Names), Len(c) = n + 1 PROVE Holds(c)
    OBVIOUS
  <2>1. c # <<>>
    BY EmptySeq
  <2>2. PICK d \in Seq(Names), e \in Names : c = Append(d, e)
    BY <2>1, SequenceEmptyOrAppend
  <2>3. Len(d) = n
    BY <2>2, AppendProperties, LenProperties
  <2>4. Slashed(a \o d) = Slashed(a) \o Slashed(d)
    BY <1>2, <2>3
  <2>5. a \o c = Append(a \o d, e) /\ a \o d \in Seq(Names)
    <3>1. /\ c = d \o <<e>> /\ <<e>> \in Seq(Names)
          /\ a \o d \in Seq(Names)
          /\ Append(a \o d, e) = (a \o d) \o <<e>>
      BY <2>2, AppendIsConcat, ConcatProperties
    <3>2. PICK w : w = <<e>>
      OBVIOUS
    <3>3. Joined(a, d, w)
      BY <3>1, <3>2, Assoc
    <3> QED
      BY <3>1, <3>2, <3>3 DEF Joined
  <2>6. Slashed(a \o c) = (Slashed(a) \o Slashed(d)) \o Piece(e)
    BY <2>4, <2>5, SlashedAppend
  <2>7. Slashed(c) = Slashed(d) \o Piece(e)
    BY <2>2, SlashedAppend
  <2>8. /\ Slashed(a) \in Seq(Letters) /\ Slashed(d) \in Seq(Letters)
        /\ Piece(e) \in Seq(Letters)
    BY SlashedType, PieceType
  <2>9. PICK u, v, w : u = Slashed(a) /\ v = Slashed(d) /\ w = Piece(e)
    OBVIOUS
  <2>10. u \in Seq(Letters) /\ v \in Seq(Letters) /\ w \in Seq(Letters)
    BY <2>8, <2>9
  <2>11. Joined(u, v, w)
    BY <2>10, Assoc
  <2> QED
    BY <2>6, <2>7, <2>9, <2>11 DEF Joined
<1>3. Nat \subseteq T
  <2> HIDE DEF T
  <2> QED
    BY <1>1, <1>2, NumberInduction
<1>4. Len(b) \in T
  BY <1>3, LenProperties
<1> QED
  BY <1>4

(* The text of some components begins with a slash. *)
LEMMA SlashedStarts ==
  ASSUME NEW comps \in Seq(Names), comps # <<>>
  PROVE  Len(Slashed(comps)) > 0 /\ Slashed(comps)[1] = "/"
<1> DEFINE first == <<Head(comps)>>
<1>1. /\ Head(comps) \in Names /\ first \in Seq(Names)
      /\ Tail(comps) \in Seq(Names) /\ comps = first \o Tail(comps)
  BY HeadTailProperties
<1>2. Slashed(first) = Piece(Head(comps))
  <2>1. first = Append(<<>>, Head(comps)) /\ <<>> \in Seq(Names)
    BY <1>1
  <2>2. Slashed(first) = <<>> \o Piece(Head(comps))
    BY <1>1, <2>1, SlashedAppend, SlashedType
  <2> QED
    BY <1>1, <2>2, PieceType, ConcatEmptySeq
<1>3. Slashed(comps) = Piece(Head(comps)) \o Slashed(Tail(comps))
  BY <1>1, <1>2, SlashedConcat
<1>4. /\ Piece(Head(comps)) \in Seq(Letters) /\ Len(Piece(Head(comps))) > 0
      /\ Piece(Head(comps))[1] = "/" /\ Slashed(Tail(comps)) \in Seq(Letters)
  BY <1>1, PieceType, SlashedType
<1> QED
  BY <1>3, <1>4, ConcatProperties, LenProperties
-----------------------------------------------------------------------------
(* A handler that a target is routed to has a location, and the normal     *)
(* target lies under it.                                                   *)
LEMMA RoutedUnderLocation ==
  ASSUME IInv, phase = "serving", NEW request_uri \in Uris,
         get_request_handler(request_uri) \in DOMAIN config
  PROVE  LET uri == convertToAbsolutePath(request_uri)
             h   == get_request_handler(request_uri)
         IN  /\ uri \in Seq(Names) /\ Location(h) \in Seq(Names)
             /\ IsPrefix(Location(h), uri)
             /\ h \in 1 .. next - 1 /\ config[h].type \in handler_types
<1> DEFINE uri == convertToAbsolutePath(request_uri)
           h   == get_request_handler(request_uri)
<1>1. /\ request_uri \in Path
      /\ Len(config) \in Nat /\ DOMAIN config = 1 .. Len(config)
      /\ config[h].location \in Path
      /\ h \in Nat
  BY RoutingAssumption, ConfigType DEF IInv, TypeOK
<1>2. uri # UB
  <2>1. uri = UB => h = UB
    BY DEF get_request_handler
  <2> QED
    BY <1>1, <2>1, RoutingAssumption
<1>3. h \in Matches(uri)
  <2>1. h # NULL
    BY <1>1, RoutingAssumption
  <2> QED
    BY <1>2, <2>1, LongestPrefix DEF LongestPrefixWins
<1>4. uri \in Seq(Names) /\ Location(h) \in Seq(Names) \cup {UB}
  BY <1>1, <1>2, ConvertType DEF Location
<1>5. /\ IsPrefix(Location(h), uri)
      /\ config[h].type \in handler_types
  BY <1>3 DEF Matches, Location
<1>6. h \in 1 .. next - 1
  BY <1>1 DEF IInv, InOrder
<1>7. Location(h) # UB
  BY <1>5, <1>6 DEF IInv, BlocksAreRegistered, Location
<1> QED
  BY <1>4, <1>5, <1>6, <1>7

(* What boost::filesystem::relative makes of a path under a location that  *)
(* is not "/": the rest of the path.                                       *)
LEMMA RelativeIs ==
  ASSUME NEW p \in Seq(Names), NEW loc \in Seq(Names), IsPrefix(loc, p),
         loc # <<>>
  PROVE  relative(p, loc) = SubSeq(p, Len(loc) + 1, Len(p))
<1> DEFINE common == {n \in 0 .. Len(p) : IsPrefix(SubSeq(p, 1, n), loc)}
           k == CHOOSE n \in common : \A m \in common : m <= n
           l == Len(loc)
<1>1. /\ l \in Nat /\ Len(p) \in Nat /\ l <= Len(p)
      /\ loc = SubSeq(p, 1, l)
  BY DEF IsPrefix
<1>2. \A n \in 0 .. Len(p) : Len(SubSeq(p, 1, n)) = n
  BY <1>1, SubSeqProperties
<1>3. \A n \in common : n \in Nat /\ n <= l
  BY <1>1, <1>2 DEF IsPrefix
<1>4. l \in common
  <2>1. SubSeq(loc, 1, l) = loc
    BY SubSeqFull
  <2> QED
    BY <1>1, <1>2, <2>1 DEF IsPrefix
<1> HIDE DEF common
<1>5. k \in common /\ \A m \in common : m <= k
  BY <1>3, <1>4
<1>6. k = l
  BY <1>1, <1>3, <1>4, <1>5
<1>7. relative(p, loc) = [i \in 1 .. l - k |-> ".."] \o SubSeq(p, k + 1, Len(p))
  BY DEF relative, common
<1> HIDE DEF k
<1>8. [i \in 1 .. l - k |-> ".."] = <<>>
  BY <1>1, <1>6
<1>9. SubSeq(p, l + 1, Len(p)) \in Seq(Names)
  BY <1>1, SubSeqProperties
<1> QED
  BY <1>6, <1>7, <1>8, <1>9, ConcatEmptySeq

(* What proxied_target leaves of a text that begins with the location. *)
LEMMA ProxiedTargetIs ==
  ASSUME NEW location \in Seq(Letters), NEW rest \in Seq(Letters)
  PROVE  proxied_target(location \o rest, location)
           = IF rest = <<>> THEN <<"/">> ELSE rest
<1> DEFINE text == location \o rest
           cut == SubSeq(text, Len(location) + 1, Len(text))
<1>1. /\ Len(location) \in Nat /\ Len(rest) \in Nat
      /\ text \in Seq(Letters) /\ Len(text) = Len(location) + Len(rest)
      /\ \A i \in 1 .. Len(rest) : text[Len(location) + i] = rest[i]
  BY ConcatProperties, LenProperties
<1>2. cut = rest
  <2> HIDE DEF text
  <2>1. cut \in Seq(Letters) /\ Len(cut) = Len(rest)
    BY <1>1, SubSeqProperties
  <2>2. \A i \in 1 .. Len(rest) : cut[i] = text[Len(location) + 1 + i - 1]
    BY <1>1, SubSeqProperties
  <2>3. \A i \in 1 .. Len(rest) : cut[i] = rest[i]
    BY <1>1, <2>2
  <2> HIDE DEF cut
  <2> QED
    BY <2>1, <2>3, SeqEqual
<1> QED
  BY <1>2 DEF proxied_target

(* The text of an absolute path below a location, and what is left of it   *)
(* without the location: the text of the rest.                             *)
Below(path, loc, comps) ==
  /\ loc = <<>> /\ comps = <<>> => Text(path) = <<"/">>
  /\ ~(loc = <<>> /\ comps = <<>>) =>
       Text(path) = Slashed(loc) \o Slashed(comps)
  /\ Slashed(comps) = <<>> <=> comps = <<>>
  /\ proxied_target(Text(path), Slashed(loc))
       = IF comps = <<>> THEN <<"/">> ELSE Slashed(comps)
  /\ IsPrefix(Slashed(loc), Text(path))

LEMMA TextBelow ==
  ASSUME NEW loc \in Seq(Names), NEW comps \in Seq(Names), NEW path,
         path.absolute, path.comps = loc \o comps
  PROVE  Below(path, loc, comps)
<1>1. loc = <<>> /\ comps = <<>> => Text(path) = <<"/">>
  BY ConcatEmptySeq DEF Text
<1>2. loc \o comps = <<>> <=> loc = <<>> /\ comps = <<>>
  BY ConcatEqualIffEmpty
<1>3. ~(loc = <<>> /\ comps = <<>>) =>
        Text(path) = Slashed(loc) \o Slashed(comps)
  BY <1>2, SlashedConcat DEF Text
<1>4. Slashed(comps) = <<>> <=> comps = <<>>
  BY SlashedType, SlashedStarts
<1>5. Slashed(loc) \in Seq(Letters) /\ Slashed(comps) \in Seq(Letters)
  BY SlashedType
<1>6. CASE loc = <<>> /\ comps = <<>>
  <2>1. Slashed(loc) = <<>> /\ <<"/">> \in Seq(Letters)
    BY <1>6, SlashedType DEF Letters
  <2>2. <<>> \o <<"/">> = <<"/">>
    BY <2>1, ConcatEmptySeq
  <2>3. proxied_target(<<>> \o <<"/">>, <<>>) = <<"/">>
    BY <2>1, EmptySeq, ProxiedTargetIs
  <2>4. IsPrefix(<<>>, <<"/">>)
    BY DEF IsPrefix
  <2> QED
    BY <1>1, <1>4, <1>6, <2>1, <2>2, <2>3, <2>4 DEF Below
<1>7. CASE ~(loc = <<>> /\ comps = <<>>)
  <2>1. proxied_target(Text(path), Slashed(loc))
          = IF comps = <<>> THEN <<"/">> ELSE Slashed(comps)
    BY <1>3, <1>4, <1>5, <1>7, ProxiedTargetIs
  <2> DEFINE sl == Slashed(loc)
             text == sl \o Slashed(comps)
  <2>2. /\ text \in Seq(Letters) /\ Len(text) = Len(sl) + Len(Slashed(comps))
        /\ \A i \in 1 .. Len(sl) : text[i] = sl[i]
        /\ Len(sl) \in Nat /\ Len(Slashed(comps)) \in Nat
    BY <1>5, ConcatProperties, LenProperties
  <2> HIDE DEF text
  <2>3. /\ SubSeq(text, 1, Len(sl)) \in Seq(Letters)
        /\ Len(SubSeq(text, 1, Len(sl))) = Len(sl)
        /\ \A i \in 1 .. Len(sl) : SubSeq(text, 1, Len(sl))[i] = text[i]
    BY <2>2, SubSeqProperties
  <2>4. SubSeq(text, 1, Len(sl)) = sl
    <3> HIDE DEF sl
    <3>1. sl \in Seq(Letters)
      BY <1>5 DEF sl
    <3> QED
      BY <2>2, <2>3, <3>1, SeqEqual
  <2>5. IsPrefix(sl, text)
    BY <2>2, <2>4 DEF IsPrefix
  <2> QED
    BY <1>1, <1>3, <1>4, <1>7, <2>1, <2>5 DEF text, Below
<1> QED
  BY <1>6, <1>7
-----------------------------------------------------------------------------
(* The links in a proxied body.  A pass finds in a body with the location  *)
(* put in at some places what it would find in the body as it came         *)
(* (FoundAlike), and so adds its own places to them (PassIs).              *)

(* The loop of FlattenSeq. *)
LEMMA FlattenIs ==
  ASSUME NEW D, NEW seqs \in Seq(Seq(D))
  PROVE  \E f : /\ f[0] = <<>> /\ SE!FlattenSeq(seqs) = f[Len(seqs)]
                /\ \A i \in 0 .. Len(seqs) : f[i] \in Seq(D)
                /\ \A i \in 1 .. Len(seqs) : f[i] = f[i - 1] \o seqs[i]
<1> DEFINE n == Len(seqs)
           C == Seq(D)
           Flat(g) == g = [i \in 1 .. n |->
                             IF i = 1 THEN seqs[i] ELSE g[i - 1] \o seqs[i]]
           Step == [i \in 1 .. n |-> [u \in C |-> u \o seqs[i]]]
<1>1. n \in Nat /\ <<>> \in C /\ \A i \in 1 .. n : seqs[i] \in C
  BY LenProperties, ElementOfSeq, EmptySeq
<1>2. \A u \in C, i \in 1 .. n : u \o seqs[i] \in C
  BY <1>1, ConcatProperties
<1>3. \A i \in 1 .. n : <<>> \o seqs[i] = seqs[i]
  BY <1>1, ConcatEmptySeq
<1>4. CASE n = 0
  <2> DEFINE f == [i \in 0 .. 0 |-> <<>>]
  <2>1. seqs = <<>>
    BY <1>4, EmptySeq
  <2>2. SE!FlattenSeq(seqs) = f[0]
    BY <1>4, <2>1 DEF SE!FlattenSeq
  <2>3. f[0] = <<>>
    OBVIOUS
  <2> HIDE DEF f
  <2>4. (\A i \in 0 .. n : i = 0) /\ (\A i \in 1 .. n : FALSE)
    BY <1>4
  <2>5. f[0] \in Seq(D)
    BY <2>3, EmptySeq
  <2> HIDE DEF n
  <2>6. \A i \in 0 .. n : f[i] \in Seq(D)
    BY <2>4, <2>5
  <2>7. \A i \in 1 .. n : f[i] = f[i - 1] \o seqs[i]
    BY <2>4
  <2>8. SE!FlattenSeq(seqs) = f[n]
    BY <1>4, <2>2
  <2> QED
    BY <2>3, <2>6, <2>7, <2>8 DEF n
<1>5. CASE n # 0
  <2>1. SE!FlattenSeq(seqs) = (CHOOSE g : Flat(g))[n]
    BY <1>5 DEF SE!FlattenSeq
  <2> HIDE DEF C, n
  <2>2. Step \in [1 .. n -> [C -> C]] /\ \A u \in C, i \in 1 .. n :
          Step[i][u] = u \o seqs[i]
    BY <1>2
  <2> HIDE DEF Step
  <2>3. PICK a : Unfolds(a, n, C, <<>>, Step)
    BY <1>1, <2>2, RecursionExists
  <2>4. \A i \in 1 .. n : a[i] = IF i = 1 THEN seqs[i] ELSE a[i - 1] \o seqs[i]
    <3>1. \A i \in 1 .. n : i - 1 \in 0 .. n /\ a[i - 1] \in C
      BY <1>1, <2>3 DEF Unfolds
    <3>2. \A i \in 1 .. n : a[i] = a[i - 1] \o seqs[i]
      BY <2>2, <2>3, <3>1 DEF Unfolds
    <3>3. a[0] = <<>>
      BY <2>3 DEF Unfolds
    <3>4. 1 - 1 = 0
      OBVIOUS
    <3> SUFFICES ASSUME NEW i \in 1 .. n, i = 1 PROVE a[i] = seqs[i]
      BY <3>2
    <3>5. a[1] = <<>> \o seqs[1]
      BY <3>2, <3>3, <3>4
    <3> QED
      BY <1>3, <3>5
  <2>5. Flat([i \in 1 .. n |-> a[i]])
    <3> DEFINE g == [i \in 1 .. n |-> a[i]]
    <3>1. \A i \in 1 .. n : g[i] = a[i] /\ (i # 1 => i - 1 \in 1 .. n)
      BY <1>1
    <3>2. \A i \in 1 .. n : i # 1 => g[i - 1] = a[i - 1]
      BY <3>1
    <3> QED
      BY <2>4, <3>1, <3>2
  <2>6. PICK g : Flat(g) /\ SE!FlattenSeq(seqs) = g[n]
    <3> HIDE DEF Flat
    <3> QED
      BY <2>1, <2>5
  <2> DEFINE f == [i \in 0 .. n |-> IF i = 0 THEN <<>> ELSE g[i]]
  <2>7. f[0] = <<>> /\ f[n] = g[n]
    BY <1>1, <1>5
  <2>8. \A i \in 1 .. n : f[i] = f[i - 1] \o seqs[i]
    <3> SUFFICES ASSUME NEW i \in 1 .. n PROVE f[i] = f[i - 1] \o seqs[i]
      OBVIOUS
    <3>1. f[i] = g[i]
      BY <1>1
    <3>0. g[i] = IF i = 1 THEN seqs[i] ELSE g[i - 1] \o seqs[i]
      BY <2>6
    <3>2. CASE i = 1
      <4>1. i - 1 = 0 /\ <<>> \o seqs[i] = seqs[i]
        BY <1>3, <3>2
      <4> HIDE DEF f
      <4> QED
        BY <2>7, <3>0, <3>1, <3>2, <4>1
    <3>3. CASE i # 1
      <4>1. f[i - 1] = g[i - 1] /\ g[i] = g[i - 1] \o seqs[i]
        <5>1. i - 1 \in 0 .. n /\ i - 1 # 0
          BY <1>1, <3>3
        <5> HIDE DEF Flat
        <5>2. f[i - 1] = g[i - 1]
          BY <5>1
        <5> QED
          BY <3>0, <3>3, <5>2
      <4> QED
        BY <3>1, <4>1
    <3> QED
      BY <3>2, <3>3
  <2> HIDE DEF f, Flat
  <2>9. \A i \in 0 .. n : f[i] \in C
    BY <1>1, <1>2, <2>7, <2>8, LoopInvariant
  <2> QED
    BY <2>6, <2>7, <2>8, <2>9 DEF n, C
<1> QED
  BY <1>4, <1>5

(* What stands in a body at character i once the location is put in. *)
Put(b, S, loc, i) == IF i \in S THEN Append(loc, b[i]) ELSE <<b[i]>>

(* f[i] is what the first i characters of b have become. *)
Parts(f, b, S, loc, D) ==
  /\ b \in Seq(D) /\ loc \in Seq(D) /\ f[0] = <<>>
  /\ \A i \in 0 .. Len(b) : f[i] \in Seq(D)
  /\ \A i \in 1 .. Len(b) : f[i] = f[i - 1] \o Put(b, S, loc, i)

LEMMA PutIs ==
  ASSUME NEW D, NEW b \in Seq(D), NEW loc \in Seq(D), NEW S,
         NEW i \in 1 .. Len(b), NEW p, p = Put(b, S, loc, i)
  PROVE  /\ p \in Seq(D) /\ Len(p) \in Nat /\ Len(loc) \in Nat
         /\ p[Len(p)] = b[i] /\ b[i] \in D
         /\ i \in S => /\ Len(p) = Len(loc) + 1
                       /\ \A j \in 1 .. Len(loc) : p[j] = loc[j]
         /\ i \notin S => Len(p) = 1
<1>1. b[i] \in D /\ Len(loc) \in Nat
  BY ElementOfSeq, LenProperties
<1>2. CASE i \in S
  <2>1. p = Append(loc, b[i])
    BY <1>2 DEF Put
  <2>2. /\ p \in Seq(D) /\ Len(p) = Len(loc) + 1
        /\ \A j \in 1 .. Len(loc) : p[j] = loc[j]
        /\ p[Len(loc) + 1] = b[i]
    BY <1>1, <2>1, AppendProperties
  <2> QED
    BY <1>1, <1>2, <2>2
<1>3. CASE i \notin S
  <2>1. p = <<b[i]>>
    BY <1>3 DEF Put
  <2>2. p \in Seq(D) /\ Len(p) = 1 /\ p[1] = b[i]
    BY <1>1, <2>1
  <2> QED
    BY <1>1, <1>3, <2>2
<1> QED
  BY <1>2, <1>3

LEMMA InsertedIs ==
  ASSUME NEW D, NEW b \in Seq(D), NEW loc \in Seq(D), NEW S
  PROVE  \E f : Parts(f, b, S, loc, D) /\ Inserted(b, S, loc) = f[Len(b)]
<1> DEFINE seqs == [i \in DOMAIN b |-> Put(b, S, loc, i)]
<1>1. Len(b) \in Nat /\ DOMAIN b = 1 .. Len(b)
  BY LenProperties
<1>2. \A i \in 1 .. Len(b) : Put(b, S, loc, i) \in Seq(D)
  BY PutIs
<1>3. seqs \in Seq(Seq(D))
  BY <1>1, <1>2, IsASeq
<1>4. Len(seqs) = Len(b) /\ \A i \in 1 .. Len(b) : seqs[i] = Put(b, S, loc, i)
  BY <1>1
<1>5. Inserted(b, S, loc) = SE!FlattenSeq(seqs)
  BY DEF Inserted, Put
<1> HIDE DEF seqs
<1>6. PICK f : /\ f[0] = <<>> /\ SE!FlattenSeq(seqs) = f[Len(seqs)]
               /\ \A i \in 0 .. Len(seqs) : f[i] \in Seq(D)
               /\ \A i \in 1 .. Len(seqs) : f[i] = f[i - 1] \o seqs[i]
  BY <1>3, FlattenIs
<1> QED
  BY <1>4, <1>5, <1>6 DEF Parts

(* Where character i of b, and the location in front of it, are. *)
PartAt(f, b, S, loc, D, i) ==
  /\ Len(f[i - 1]) \in Nat /\ Len(f[i]) \in Nat /\ Len(loc) \in Nat
  /\ f[i - 1] \in Seq(D) /\ f[i] \in Seq(D) /\ b[i] \in D
  /\ \A k \in 1 .. Len(f[i - 1]) : f[i][k] = f[i - 1][k]
  /\ f[i][Len(f[i])] = b[i]
  /\ i \in S => /\ Len(f[i]) = Len(f[i - 1]) + Len(loc) + 1
                /\ \A j \in 1 .. Len(loc) :
                     f[i][Len(f[i - 1]) + j] = loc[j]
  /\ i \notin S => Len(f[i]) = Len(f[i - 1]) + 1

LEMMA PartsOf ==
  ASSUME NEW D, NEW b, NEW loc, NEW S, NEW f, Parts(f, b, S, loc, D),
         NEW i \in 1 .. Len(b)
  PROVE  PartAt(f, b, S, loc, D, i)
<1>1. b \in Seq(D) /\ loc \in Seq(D) /\ f[i] = f[i - 1] \o Put(b, S, loc, i)
  BY DEF Parts
<1>2. Len(b) \in Nat
  BY <1>1, LenProperties
<1>3. f[i - 1] \in Seq(D)
  BY <1>2 DEF Parts
<1>4. PICK u, p, v : u = f[i - 1] /\ p = Put(b, S, loc, i) /\ v = f[i]
  OBVIOUS
<1>5. /\ p \in Seq(D) /\ Len(p) \in Nat /\ Len(loc) \in Nat
      /\ p[Len(p)] = b[i] /\ b[i] \in D
      /\ i \in S => /\ Len(p) = Len(loc) + 1
                    /\ \A j \in 1 .. Len(loc) : p[j] = loc[j]
      /\ i \notin S => Len(p) = 1
  BY <1>1, <1>4, PutIs
<1>6. u \in Seq(D) /\ v = u \o p
  BY <1>1, <1>3, <1>4
<1>7. /\ v \in Seq(D) /\ Len(v) = Len(u) + Len(p) /\ Len(u) \in Nat
      /\ \A k \in 1 .. Len(u) + Len(p) :
           v[k] = IF k <= Len(u) THEN u[k] ELSE p[k - Len(u)]
  BY <1>5, <1>6, ConcatProperties, LenProperties
<1>8. PICK l, m, x : l = Len(u) /\ m = Len(p) /\ x = Len(loc)
  OBVIOUS
<1>9. l \in Nat /\ m \in Nat \ {0} /\ x \in Nat /\ Len(v) = l + m
  BY <1>5, <1>7, <1>8
<1>10. \A k \in 1 .. l : v[k] = u[k]
  BY <1>7, <1>8, <1>9
<1>11. \A k \in 1 .. m : v[l + k] = p[k]
  <2> SUFFICES ASSUME NEW k \in 1 .. m PROVE v[l + k] = p[k]
    OBVIOUS
  <2>1. l + k \in 1 .. l + m /\ ~(l + k <= l) /\ (l + k) - l = k
    BY <1>9
  <2> QED
    BY <1>7, <1>8, <2>1
<1>12. v[l + m] = b[i]
  BY <1>5, <1>8, <1>9, <1>11
<1>13. i \in S => /\ l + m = l + x + 1
                  /\ \A j \in 1 .. x : v[l + j] = loc[j]
  <2> SUFFICES ASSUME i \in S PROVE l + m = l + x + 1
                             /\ \A j \in 1 .. x : v[l + j] = loc[j]
    OBVIOUS
  <2>1. m = x + 1 /\ \A j \in 1 .. x : p[j] = loc[j] /\ j \in 1 .. m
    BY <1>5, <1>8, <1>9
  <2> QED
    BY <1>9, <1>11, <2>1
<1>14. i \notin S => l + m = l + 1
  BY <1>5, <1>8
<1> QED
  BY <1>4, <1>5, <1>6, <1>7, <1>8, <1>9, <1>10, <1>12, <1>13, <1>14 DEF PartAt

(* What is there stays there. *)
LEMMA PartsStay ==
  ASSUME NEW D, NEW b, NEW loc, NEW S, NEW f, Parts(f, b, S, loc, D),
         NEW i \in 0 .. Len(b), NEW c, c = f[Len(b)]
  PROVE  /\ Len(f[i]) \in Nat /\ Len(c) \in Nat /\ Len(f[i]) + (Len(b) - i) <= Len(c)
         /\ \A k \in 1 .. Len(f[i]) : c[k] = f[i][k]
<1> DEFINE n == Len(b)
           Stays(m) == i + m <= n =>
             /\ Len(f[i + m]) \in Nat /\ Len(f[i]) + m <= Len(f[i + m])
             /\ \A k \in 1 .. Len(f[i]) : f[i + m][k] = f[i][k]
           T == {m \in Nat : Stays(m)}
<1>1. n \in Nat /\ Len(f[i]) \in Nat
  BY LenProperties DEF Parts
<1>2. 0 \in T
  BY <1>1
<1>3. ASSUME NEW m \in Nat, m \in T PROVE m + 1 \in T
  <2> SUFFICES ASSUME i + (m + 1) <= n
               PROVE  /\ Len(f[i + (m + 1)]) \in Nat
                      /\ Len(f[i]) + (m + 1) <= Len(f[i + (m + 1)])
                      /\ \A k \in 1 .. Len(f[i]) : f[i + (m + 1)][k] = f[i][k]
    <3>1. m + 1 \in Nat /\ (Stays(m + 1) => m + 1 \in T)
      <4> HIDE DEF Stays
      <4> QED
        OBVIOUS
    <3> QED
      BY <3>1
  <2>1. PICK j : j = i + (m + 1)
    OBVIOUS
  <2>2. j \in 1 .. n /\ j - 1 = i + m /\ i + m <= n
    BY <1>1, <2>1
  <2>3. /\ Len(f[j - 1]) \in Nat /\ Len(f[i]) + m <= Len(f[j - 1])
        /\ \A k \in 1 .. Len(f[i]) : f[j - 1][k] = f[i][k]
    BY <1>3, <2>2
  <2>4. /\ Len(f[j]) \in Nat /\ Len(f[j - 1]) + 1 <= Len(f[j])
        /\ \A k \in 1 .. Len(f[j - 1]) : f[j][k] = f[j - 1][k]
    <3>1. PartAt(f, b, S, loc, D, j)
      BY <2>2, PartsOf
    <3>2. PICK x, y, z : x = Len(f[j]) /\ y = Len(f[j - 1]) /\ z = Len(loc)
      OBVIOUS
    <3>3. /\ x \in Nat /\ y \in Nat /\ z \in Nat
          /\ j \in S => x = y + z + 1
          /\ j \notin S => x = y + 1
      BY <3>1, <3>2 DEF PartAt
    <3>4. y + 1 <= x
      BY <3>3
    <3> QED
      BY <3>1, <3>2, <3>3, <3>4 DEF PartAt
  <2>5. PICK x, y, z : x = Len(f[i]) /\ y = Len(f[j - 1]) /\ z = Len(f[j])
    OBVIOUS
  <2>6. x + (m + 1) <= z /\ \A k \in 1 .. x : k \in 1 .. y
    <3>1. x \in Nat /\ y \in Nat /\ z \in Nat /\ x + m <= y /\ y + 1 <= z
      BY <1>1, <2>3, <2>4, <2>5
    <3> QED
      BY <3>1
  <2> QED
    BY <2>1, <2>3, <2>4, <2>5, <2>6
<1>4. Nat \subseteq T
  <2> HIDE DEF T
  <2> QED
    BY <1>2, <1>3, NumberInduction
<1>5. n - i \in T /\ i + (n - i) = n
  <2> HIDE DEF T
  <2> QED
    BY <1>1, <1>4
<1> QED
  BY <1>1, <1>5

(* at[i] is the place in c of character i of b. *)
Layout(at, c, b, S, loc) ==
  /\ Len(b) \in Nat /\ Len(c) \in Nat /\ Len(loc) \in Nat
  /\ at \in [0 .. Len(b) -> Nat] /\ at[0] = 0 /\ at[Len(b)] = Len(c)
  /\ \A i \in 1 .. Len(b) :
       /\ c[at[i]] = b[i] /\ at[i] + (Len(b) - i) <= Len(c)
       /\ i \in S => /\ at[i] = at[i - 1] + Len(loc) + 1
                     /\ \A j \in 1 .. Len(loc) : c[at[i - 1] + j] = loc[j]
       /\ i \notin S => at[i] = at[i - 1] + 1

LEMMA LayoutIs ==
  ASSUME NEW D, NEW b, NEW loc, NEW S, NEW f, Parts(f, b, S, loc, D),
         NEW c, c = f[Len(b)]
  PROVE  \E at : Layout(at, c, b, S, loc)
<1>0. \A i \in 1 .. Len(b) : PartAt(f, b, S, loc, D, i)
  BY PartsOf
<1>1. Len(b) \in Nat /\ Len(c) \in Nat /\ Len(loc) \in Nat
  BY LenProperties DEF Parts
<1>2. \A i \in 0 .. Len(b) : Len(f[i]) \in Nat
  BY PartsStay
<1>3. Len(f[0]) = 0
  BY EmptySeq DEF Parts
<1> DEFINE at == [i \in 0 .. Len(b) |-> Len(f[i])]
<1>4. /\ at \in [0 .. Len(b) -> Nat] /\ at[0] = 0 /\ at[Len(b)] = Len(c)
      /\ \A i \in 0 .. Len(b) : at[i] = Len(f[i])
  BY <1>1, <1>2, <1>3
<1> HIDE DEF at
<1>5. ASSUME NEW i \in 1 .. Len(b)
      PROVE  /\ c[at[i]] = b[i] /\ at[i] + (Len(b) - i) <= Len(c)
             /\ i \in S => /\ at[i] = at[i - 1] + Len(loc) + 1
                           /\ \A j \in 1 .. Len(loc) : c[at[i - 1] + j] = loc[j]
             /\ i \notin S => at[i] = at[i - 1] + 1
  <2>1. i \in 0 .. Len(b) /\ i - 1 \in 0 .. Len(b)
    BY <1>1
  <2>2. at[i] = Len(f[i]) /\ at[i - 1] = Len(f[i - 1])
    BY <1>4, <2>1
  <2>3. /\ at[i] \in Nat /\ at[i - 1] \in Nat /\ Len(loc) \in Nat
        /\ f[i][at[i]] = b[i]
        /\ i \in S => /\ at[i] = at[i - 1] + Len(loc) + 1
                      /\ \A j \in 1 .. Len(loc) : f[i][at[i - 1] + j] = loc[j]
        /\ i \notin S => at[i] = at[i - 1] + 1
    BY <1>0, <2>2 DEF PartAt
  <2>4. /\ at[i] + (Len(b) - i) <= Len(c)
        /\ \A k \in 1 .. at[i] : c[k] = f[i][k]
    <3>1. /\ Len(f[i]) + (Len(b) - i) <= Len(c)
          /\ \A k \in 1 .. Len(f[i]) : c[k] = f[i][k]
      BY <2>1, PartsStay
    <3> QED
      BY <2>2, <3>1
  <2>5. PICK x, y, z : x = at[i] /\ y = at[i - 1] /\ z = Len(loc)
    OBVIOUS
  <2>6. x \in Nat /\ y \in Nat /\ z \in Nat /\ (x = y + z + 1 \/ x = y + 1)
    BY <2>3, <2>5
  <2>7. x \in 1 .. x /\ (x = y + z + 1 => \A j \in 1 .. z : y + j \in 1 .. x)
    BY <2>6
  <2>8. c[x] = b[i]
    BY <2>3, <2>4, <2>5, <2>7
  <2>9. i \in S => \A j \in 1 .. z : c[y + j] = loc[j]
    <3> SUFFICES ASSUME i \in S, NEW j \in 1 .. z PROVE c[y + j] = loc[j]
      OBVIOUS
    <3>1. y + j \in 1 .. x
      BY <2>3, <2>5, <2>7
    <3>2. f[i][y + j] = loc[j]
      BY <2>3, <2>5
    <3> QED
      BY <2>4, <2>5, <3>1, <3>2
  <2> QED
    BY <2>3, <2>4, <2>5, <2>8, <2>9
<1> QED
  BY <1>1, <1>4, <1>5 DEF Layout

(* What a pass looks for cannot be mistaken for what the passes before it  *)
(* put in.                                                                 *)
Apart(b, S, prefix, slash, loc) ==
  /\ Len(prefix) \in {1, 2}
  /\ slash \in {"/", "2f"}
  /\ \A k \in 1 .. Len(prefix) : prefix[k] \notin {"/", "2f"}
  /\ Len(prefix) = 2 => prefix[2] # prefix[1]
  /\ \A j \in 1 .. Len(loc) : loc[j] # prefix[1]
  /\ \A s \in S : /\ b[s] \in {"/", "2f"} /\ b[s - 1] \notin {"/", "2f"}
                  /\ \A k \in 1 .. Len(prefix) : b[s - 1] # prefix[k]

(* The characters of the text that is looked for. *)
LEMMA FromIs ==
  ASSUME NEW D, NEW prefix \in Seq(D), NEW slash \in D, NEW b, NEW S, NEW loc,
         Apart(b, S, prefix, slash, loc), NEW from, from = prefix \o <<slash>>
  PROVE  /\ from \in Seq(D) /\ Len(from) = Len(prefix) + 1
         /\ DOMAIN from = 1 .. Len(from)
         /\ \A k \in 1 .. Len(prefix) : from[k] = prefix[k]
         /\ from[Len(prefix) + 1] = slash
<1>1. <<slash>> \in Seq(D) /\ Len(<<slash>>) = 1 /\ <<slash>>[1] = slash
  OBVIOUS
<1>2. PICK v : v = <<slash>>
  OBVIOUS
<1>3. Len(prefix) \in Nat
  BY LenProperties
<1>4. /\ from \in Seq(D) /\ Len(from) = Len(prefix) + 1
      /\ \A k \in 1 .. Len(prefix) + 1 :
           from[k] = IF k <= Len(prefix) THEN prefix[k] ELSE v[k - Len(prefix)]
  BY <1>1, <1>2, ConcatProperties
<1>5. from[Len(prefix) + 1] = slash
  <2>1. PICK l : l = Len(prefix)
    OBVIOUS
  <2>2. l + 1 \in 1 .. l + 1 /\ ~(l + 1 <= l) /\ (l + 1) - l = 1
    BY <1>3, <2>1
  <2>3. from[l + 1] = v[1]
    BY <1>4, <2>1, <2>2
  <2> QED
    BY <1>1, <1>2, <2>1, <2>3
<1>6. \A k \in 1 .. Len(prefix) : from[k] = prefix[k]
  BY <1>3, <1>4
<1> QED
  BY <1>4, <1>5, <1>6, LenProperties

(* A text of two characters. *)
TwoAt(x, p, from) ==
  /\ p \in 1 .. Len(x) /\ x[p] = from[1]
  /\ p + 1 \in 1 .. Len(x) /\ x[p + 1] = from[2]

LEMMA IsAtTwo ==
  ASSUME NEW D, NEW x \in Seq(D), NEW p \in Nat, NEW from \in Seq(D),
         Len(from) = 2
  PROVE  IsAt(x, p, from) <=> TwoAt(x, p, from)
<1>1. /\ DOMAIN x = 1 .. Len(x) /\ DOMAIN from = 1 .. Len(from)
      /\ p + 1 - 1 = p /\ p + 2 - 1 = p + 1
  BY LenProperties
<1>2. IsAt(x, p, from) <=> \A k \in 1 .. Len(from) :
                             p + k - 1 \in 1 .. Len(x) /\ x[p + k - 1] = from[k]
  BY <1>1 DEF IsAt
<1>3. \A k : k \in 1 .. Len(from) <=> k = 1 \/ k = 2
  OBVIOUS
<1> QED
  BY <1>1, <1>2, <1>3 DEF TwoAt

(* A text of three characters. *)
ThreeAt(x, p, from) ==
  /\ p \in 1 .. Len(x) /\ x[p] = from[1]
  /\ p + 1 \in 1 .. Len(x) /\ x[p + 1] = from[2]
  /\ p + 2 \in 1 .. Len(x) /\ x[p + 2] = from[3]

LEMMA IsAtThree ==
  ASSUME NEW D, NEW x \in Seq(D), NEW p \in Nat, NEW from \in Seq(D),
         Len(from) = 3
  PROVE  IsAt(x, p, from) <=> ThreeAt(x, p, from)
<1>1. /\ DOMAIN x = 1 .. Len(x) /\ DOMAIN from = 1 .. Len(from)
      /\ p + 1 - 1 = p /\ p + 2 - 1 = p + 1 /\ p + 3 - 1 = p + 2
  BY LenProperties
<1>2. IsAt(x, p, from) <=> \A k \in 1 .. Len(from) :
                             p + k - 1 \in 1 .. Len(x) /\ x[p + k - 1] = from[k]
  BY <1>1 DEF IsAt
<1>3. \A k : k \in 1 .. Len(from) <=> k = 1 \/ k = 2 \/ k = 3
  OBVIOUS
<1> QED
  BY <1>1, <1>2, <1>3 DEF ThreeAt

(* What is found in c was there in b. *)
LEMMA FoundAlike ==
  ASSUME NEW D, NEW prefix \in Seq(D), NEW slash \in D, NEW S, NEW loc,
         NEW b \in Seq(D), NEW c \in Seq(D), NEW at, Layout(at, c, b, S, loc),
         Apart(b, S, prefix, slash, loc), NEW from, from = prefix \o <<slash>>,
         NEW i \in 1 .. Len(b)
  PROVE  IsAt(c, at[i], from) <=> IsAt(b, i, from)
<1>1. /\ from \in Seq(D) /\ Len(from) = Len(prefix) + 1
      /\ \A k \in 1 .. Len(prefix) : from[k] = prefix[k]
  BY FromIs
<1>2. PICK n, len : n = Len(b) /\ len = Len(c)
  OBVIOUS
<1>3. n \in Nat /\ len \in Nat /\ at \in [0 .. n -> Nat] /\ at[n] = len /\ i \in Nat
  BY <1>2 DEF Layout
<1>4. ASSUME NEW j \in 1 .. n
      PROVE  /\ at[j] \in Nat /\ c[at[j]] = b[j] /\ at[j] + (n - j) <= len
             /\ at[j] >= 1
             /\ j \notin S => at[j] = at[j - 1] + 1
  <2>1. /\ c[at[j]] = b[j] /\ at[j] + (n - j) <= len
        /\ j \notin S => at[j] = at[j - 1] + 1
        /\ j \in S => at[j] = at[j - 1] + Len(loc) + 1
        /\ Len(loc) \in Nat
    BY <1>2 DEF Layout
  <2>2. at[j] \in Nat /\ at[j - 1] \in Nat
    BY <1>3
  <2> QED
    BY <2>1, <2>2
<1>5. ASSUME NEW j \in 1 .. n, NEW k \in 1 .. Len(prefix), b[j] = from[k]
      PROVE  j + 1 \notin S
  <2>1. (j + 1) - 1 = j /\ b[j] = prefix[k]
    BY <1>1, <1>3, <1>5
  <2> QED
    BY <2>1 DEF Apart
<1>6. ASSUME NEW j \in 1 .. n, NEW k \in 1 .. Len(prefix), b[j] = from[k]
      PROVE  /\ at[j] + 1 \in 1 .. len <=> j + 1 \in 1 .. n
             /\ j + 1 \in 1 .. n => at[j + 1] = at[j] + 1 /\ c[at[j] + 1] = b[j + 1]
  <2>1. j + 1 \notin S
    BY <1>5, <1>6
  <2>2. at[j] \in Nat /\ at[j] + (n - j) <= len /\ j \in Nat
    BY <1>3, <1>4
  <2>3. CASE j = n
    BY <1>3, <2>2, <2>3
  <2>4. CASE j # n
    <3>1. j + 1 \in 1 .. n /\ (j + 1) - 1 = j
      BY <1>3, <2>4
    <3>2. at[j + 1] = at[j] + 1 /\ c[at[j + 1]] = b[j + 1]
      BY <1>4, <2>1, <3>1
    <3>3. at[j] + 1 \in 1 .. len
      BY <1>3, <2>2, <3>1
    <3> QED
      BY <3>1, <3>2, <3>3
  <2> QED
    BY <2>3, <2>4
<1>7. at[i] \in Nat /\ at[i] \in 1 .. len /\ c[at[i]] = b[i] /\ i \in 1 .. n
  <2>1. /\ at[i] \in Nat /\ c[at[i]] = b[i] /\ at[i] + (n - i) <= len
        /\ at[i] >= 1 /\ i <= n
    BY <1>2, <1>3, <1>4
  <2> QED
    BY <1>2, <1>3, <2>1
<1>8. CASE Len(prefix) = 1
  <2>1. 1 \in 1 .. Len(prefix) /\ Len(from) = 2
    BY <1>1, <1>8
  <2>2. ASSUME NEW x \in Seq(D), NEW p \in Nat
        PROVE  IsAt(x, p, from) <=> TwoAt(x, p, from)
    <3>1. from \in Seq(D) /\ Len(from) = 2
      BY <1>1, <2>1
    <3> QED
      BY <3>1, IsAtTwo
  <2>4. b[i] = from[1] =>
          /\ at[i] + 1 \in 1 .. len <=> i + 1 \in 1 .. n
          /\ i + 1 \in 1 .. n => at[i + 1] = at[i] + 1 /\ c[at[i] + 1] = b[i + 1]
    BY <1>6, <1>7, <2>1
  <2> QED
    BY <1>2, <1>3, <1>7, <2>2, <2>4 DEF TwoAt
<1>9. CASE Len(prefix) = 2
  <2>1. 1 \in 1 .. Len(prefix) /\ 2 \in 1 .. Len(prefix) /\ Len(from) = 3
    BY <1>1, <1>9
  <2>2. ASSUME NEW x \in Seq(D), NEW p \in Nat
        PROVE  IsAt(x, p, from) <=> ThreeAt(x, p, from)
    <3>1. from \in Seq(D) /\ Len(from) = 3
      BY <1>1, <2>1
    <3> QED
      BY <3>1, IsAtThree
  <2>3. b[i] = from[1] =>
          /\ at[i] + 1 \in 1 .. len <=> i + 1 \in 1 .. n
          /\ i + 1 \in 1 .. n => at[i + 1] = at[i] + 1 /\ c[at[i] + 1] = b[i + 1]
    BY <1>6, <1>7, <2>1
  <2>4. i + 1 \in 1 .. n /\ b[i + 1] = from[2] =>
          /\ at[i + 1] + 1 \in 1 .. len <=> (i + 1) + 1 \in 1 .. n
          /\ (i + 1) + 1 \in 1 .. n => c[at[i + 1] + 1] = b[(i + 1) + 1]
    BY <1>6, <2>1
  <2>5. (i + 1) + 1 = i + 2 /\ (at[i] + 1) + 1 = at[i] + 2
    BY <1>3, <1>7
  <2>6. IsAt(c, at[i], from) <=> /\ at[i] \in 1 .. len /\ c[at[i]] = from[1]
                                 /\ at[i] + 1 \in 1 .. len
                                 /\ c[at[i] + 1] = from[2]
                                 /\ at[i] + 2 \in 1 .. len
                                 /\ c[at[i] + 2] = from[3]
    BY <1>2, <1>7, <2>2 DEF ThreeAt
  <2>7. IsAt(b, i, from) <=> /\ i \in 1 .. n /\ b[i] = from[1]
                             /\ i + 1 \in 1 .. n /\ b[i + 1] = from[2]
                             /\ i + 2 \in 1 .. n /\ b[i + 2] = from[3]
    BY <1>2, <1>3, <2>2 DEF ThreeAt
  <2> QED
    BY <1>7, <2>3, <2>4, <2>5, <2>6, <2>7
<1> QED
  BY <1>8, <1>9 DEF Apart

(* One pass: c is b with the location put in at S; from is looked for, and *)
(* g is how b looks with the location put in at U.                         *)
Pass(D, b, S, prefix, slash, loc, from, c, at, U, g) ==
  /\ prefix \in Seq(D) /\ slash \in D /\ loc \in Seq(D)
  /\ b \in Seq(D) /\ c \in Seq(D)
  /\ Layout(at, c, b, S, loc) /\ Apart(b, S, prefix, slash, loc)
  /\ from = prefix \o <<slash>>
  /\ U = S \cup LinksBehind(b, prefix, slash) /\ Parts(g, b, U, loc, D)

(* What is found in the first i characters of b ends there. *)
Clear(b, from, i) ==
  \A q \in 1 .. i : IsAt(b, q, from) => q + Len(from) - 1 <= i

(* What from is. *)
TextIs(D, prefix, slash, from) ==
  /\ from \in Seq(D) /\ Len(prefix) \in {1, 2}
  /\ Len(from) = Len(prefix) + 1 /\ DOMAIN from = 1 .. Len(from)
  /\ \A k \in 1 .. Len(prefix) :
       from[k] = prefix[k] /\ from[k] \notin {"/", "2f"}
  /\ from[Len(prefix) + 1] = slash /\ slash \in {"/", "2f"}
  /\ \A k \in 2 .. Len(from) : from[k] # from[1]

LEMMA PassFrom ==
  ASSUME NEW D, NEW b, NEW S, NEW prefix, NEW slash, NEW loc, NEW from,
         NEW c, NEW at, NEW U, NEW g,
         Pass(D, b, S, prefix, slash, loc, from, c, at, U, g)
  PROVE  TextIs(D, prefix, slash, from)
<1>1. /\ prefix \in Seq(D) /\ slash \in D /\ Apart(b, S, prefix, slash, loc)
      /\ from = prefix \o <<slash>>
  BY DEF Pass
<1>2. /\ from \in Seq(D) /\ Len(from) = Len(prefix) + 1
      /\ DOMAIN from = 1 .. Len(from)
      /\ \A k \in 1 .. Len(prefix) : from[k] = prefix[k]
      /\ from[Len(prefix) + 1] = slash
  BY <1>1, FromIs
<1>3. /\ Len(prefix) \in {1, 2} /\ slash \in {"/", "2f"}
      /\ \A k \in 1 .. Len(prefix) : prefix[k] \notin {"/", "2f"}
      /\ Len(prefix) = 2 => prefix[2] # prefix[1]
  BY <1>1 DEF Apart
<1>4. ASSUME NEW k \in 2 .. Len(from) PROVE from[k] # from[1]
  <2>1. 1 \in 1 .. Len(prefix) /\ from[1] = prefix[1] /\ prefix[1] # slash
    BY <1>2, <1>3
  <2>2. CASE k = Len(prefix) + 1
    BY <1>2, <2>1, <2>2
  <2>3. CASE k # Len(prefix) + 1
    <3>1. Len(prefix) = 2 /\ k = 2 /\ 2 \in 1 .. Len(prefix)
      BY <1>2, <1>3, <2>3
    <3> QED
      BY <1>2, <1>3, <2>1, <3>1
  <2> QED
    BY <2>2, <2>3
<1> QED
  BY <1>2, <1>3, <1>4 DEF TextIs

(* Nothing begins at the next character: nothing is pending behind it. *)
LEMMA ClearNext ==
  ASSUME NEW b, NEW from, NEW i \in Nat, Clear(b, from, i),
         ~IsAt(b, i + 1, from), Len(from) \in Nat
  PROVE  Clear(b, from, i + 1)
<1> SUFFICES ASSUME NEW q \in 1 .. i + 1, IsAt(b, q, from)
             PROVE  q + Len(from) - 1 <= i + 1
  BY DEF Clear
<1>1. q # i + 1
  OBVIOUS
<1>2. q \in 1 .. i
  BY <1>1
<1>3. q + Len(from) - 1 <= i
  BY <1>2 DEF Clear
<1> QED
  BY <1>3

(* Nor is it behind what has been found. *)
LEMMA ClearBehind ==
  ASSUME NEW D, NEW b \in Seq(D), NEW from \in Seq(D), NEW i \in Nat,
         Clear(b, from, i), IsAt(b, i + 1, from), Len(from) \in Nat \ {0},
         \A k \in 2 .. Len(from) : from[k] # from[1]
  PROVE  Clear(b, from, i + Len(from))
<1>1. PICK l : l = Len(from)
  OBVIOUS
<1>2. l \in Nat \ {0} /\ DOMAIN from = 1 .. l
  BY <1>1, LenProperties
<1> SUFFICES ASSUME NEW q \in 1 .. i + l, IsAt(b, q, from)
             PROVE  q + l - 1 <= i + l
  BY <1>1 DEF Clear
<1>3. CASE q \in 1 .. i
  <2>1. q + l - 1 <= i
    BY <1>1, <1>3 DEF Clear
  <2> QED
    BY <1>2, <2>1
<1>4. CASE q = i + 1
  BY <1>2, <1>4
<1>5. CASE q \in i + 2 .. i + l
  <2>1. PICK k : k = q - i
    OBVIOUS
  <2>2. k \in 2 .. l /\ k \in 1 .. l /\ (i + 1) + k - 1 = q /\ q + 1 - 1 = q
        /\ 1 \in 1 .. l
    BY <1>2, <1>5, <2>1
  <2>3. b[(i + 1) + k - 1] = from[k] /\ b[q + 1 - 1] = from[1]
    BY <1>2, <2>2 DEF IsAt
  <2>4. from[k] = from[1]
    BY <2>2, <2>3
  <2> QED
    BY <1>1, <2>2, <2>4
<1> QED
  BY <1>2, <1>3, <1>4, <1>5

(* A place that the location belongs to is where from ends. *)
LEMMA LinkIsAt ==
  ASSUME NEW D, NEW b, NEW S, NEW prefix, NEW slash, NEW loc, NEW from,
         NEW c, NEW at, NEW U, NEW g,
         Pass(D, b, S, prefix, slash, loc, from, c, at, U, g),
         NEW i \in LinksBehind(b, prefix, slash)
  PROVE  /\ i - Len(prefix) \in 1 .. i - 1 /\ IsAt(b, i - Len(prefix), from)
         /\ b[i] = slash
<1>1. /\ from \in Seq(D) /\ Len(prefix) \in {1, 2}
      /\ Len(from) = Len(prefix) + 1 /\ DOMAIN from = 1 .. Len(from)
      /\ \A k \in 1 .. Len(prefix) : from[k] = prefix[k]
      /\ from[Len(prefix) + 1] = slash
  BY PassFrom DEF TextIs
<1>2. b \in Seq(D) /\ prefix \in Seq(D)
  BY DEF Pass
<1>3. /\ DOMAIN b = 1 .. Len(b) /\ Len(b) \in Nat
      /\ DOMAIN prefix = 1 .. Len(prefix)
  BY <1>2, LenProperties
<1>4. /\ i \in 1 .. Len(b) /\ i > Len(prefix)
      /\ IsAt(b, i - Len(prefix), prefix) /\ b[i] = slash
  BY <1>3 DEF LinksBehind
<1>5. PICK l, q : l = Len(prefix) /\ q = i - Len(prefix)
  OBVIOUS
<1>6. l \in {1, 2} /\ q \in 1 .. i - 1 /\ q + (l + 1) - 1 = i
  BY <1>1, <1>3, <1>4, <1>5
<1>7. ASSUME NEW k \in 1 .. l + 1
      PROVE  q + k - 1 \in DOMAIN b /\ b[q + k - 1] = from[k]
  <2>1. CASE k = l + 1
    BY <1>1, <1>3, <1>4, <1>5, <1>6, <2>1
  <2>2. CASE k # l + 1
    <3>1. k \in 1 .. l
      BY <1>6, <2>2
    <3>2. q + k - 1 \in DOMAIN b /\ b[q + k - 1] = prefix[k]
      BY <1>3, <1>4, <1>5, <3>1 DEF IsAt
    <3> QED
      BY <1>1, <1>5, <3>1, <3>2
  <2> QED
    BY <2>1, <2>2
<1>8. IsAt(b, q, from)
  BY <1>1, <1>5, <1>7 DEF IsAt
<1> QED
  BY <1>4, <1>5, <1>6, <1>8

(* Outside of U characters are copied. *)
Copies(g, b, i, D) ==
  /\ g[i - 1] \in Seq(D) /\ b[i] \in D
  /\ g[i] = g[i - 1] \o <<b[i]>> /\ g[i] = Append(g[i - 1], b[i])

LEMMA Copied ==
  ASSUME NEW D, NEW b, NEW U, NEW loc, NEW g, Parts(g, b, U, loc, D),
         NEW i \in 1 .. Len(b), i \notin U
  PROVE  Copies(g, b, i, D)
<1>1. b \in Seq(D) /\ g[i] = g[i - 1] \o <<b[i]>>
  BY DEF Parts, Put
<1>2. Len(b) \in Nat /\ b[i] \in D
  BY <1>1, LenProperties, ElementOfSeq
<1>3. g[i - 1] \in Seq(D)
  BY <1>2 DEF Parts
<1>4. Append(g[i - 1], b[i]) = g[i - 1] \o <<b[i]>>
  BY <1>2, <1>3, AppendIsConcat
<1> QED
  BY <1>1, <1>2, <1>3, <1>4 DEF Copies

(* In U the location comes in front. *)
PutsLocation(g, b, loc, i, D) ==
  /\ g[i - 1] \in Seq(D) /\ b[i] \in D
  /\ g[i] = g[i - 1] \o (loc \o <<b[i]>>)

LEMMA Located ==
  ASSUME NEW D, NEW b, NEW U, NEW loc, NEW g, Parts(g, b, U, loc, D),
         NEW i \in 1 .. Len(b), i \in U
  PROVE  PutsLocation(g, b, loc, i, D)
<1>1. b \in Seq(D) /\ loc \in Seq(D) /\ g[i] = g[i - 1] \o Append(loc, b[i])
  BY DEF Parts, Put
<1>2. Len(b) \in Nat /\ b[i] \in D
  BY <1>1, LenProperties, ElementOfSeq
<1>3. g[i - 1] \in Seq(D)
  BY <1>2 DEF Parts
<1>4. Append(loc, b[i]) = loc \o <<b[i]>>
  BY <1>1, <1>2, AppendIsConcat
<1> QED
  BY <1>1, <1>2, <1>3, <1>4 DEF PutsLocation

(* The search has come to character i + 1 of b, or to character j + 1 of   *)
(* the location in front of it.                                            *)
Stands(t, i, j, at, g, loc) ==
  t = [pos |-> at[i] + j + 1, new_body |-> g[i] \o SubSeq(loc, 1, j)]

InPlace(t, b, S, loc, from, at, g) ==
  \E i \in 0 .. Len(b), j \in 0 .. Len(loc) :
    /\ Clear(b, from, i) /\ (j # 0 => i < Len(b) /\ i + 1 \in S)
    /\ Stands(t, i, j, at, g, loc)

(* Where nothing is found a character is copied. *)
LEMMA NotFound ==
  ASSUME NEW D, NEW b, NEW S, NEW prefix, NEW slash, NEW loc, NEW from,
         NEW c, NEW at, NEW U, NEW g,
         Pass(D, b, S, prefix, slash, loc, from, c, at, U, g),
         NEW p, NEW out, NEW t, t = [pos |-> p, new_body |-> out],
         ~(p > Len(c)), p <= Len(c), ~IsAt(c, p, from)
  PROVE  Search(t, c, prefix, <<slash>>, loc)
           = [pos |-> p + 1, new_body |-> Append(out, c[p])]
<1>1. from = prefix \o <<slash>>
  BY DEF Pass
<1>2. t.pos = p /\ t.new_body = out
  OBVIOUS
<1> QED
  BY <1>1, <1>2 DEF Search

(* What does not begin like from is not from. *)
LEMMA OtherFirst ==
  ASSUME NEW D, NEW b, NEW S, NEW prefix, NEW slash, NEW loc, NEW from,
         NEW c, NEW at, NEW U, NEW g,
         Pass(D, b, S, prefix, slash, loc, from, c, at, U, g),
         NEW x, NEW p \in Nat, x[p] # prefix[1]
  PROVE  ~IsAt(x, p, from)
<1>1. /\ Len(prefix) \in {1, 2} /\ Len(from) = Len(prefix) + 1
      /\ DOMAIN from = 1 .. Len(from)
      /\ \A k \in 1 .. Len(prefix) : from[k] = prefix[k]
  BY PassFrom DEF TextIs
<1>2. 1 \in DOMAIN from /\ from[1] = prefix[1] /\ p + 1 - 1 = p
  BY <1>1
<1> QED
  BY <1>2 DEF IsAt

(* g[i] with nothing of the location. *)
LEMMA StandsPlain ==
  ASSUME NEW D, NEW b, NEW U, NEW loc, NEW g, Parts(g, b, U, loc, D),
         NEW i \in 0 .. Len(b)
  PROVE  g[i] \in Seq(D) /\ g[i] \o SubSeq(loc, 1, 0) = g[i]
<1>1. g[i] \in Seq(D)
  BY DEF Parts
<1>2. SubSeq(loc, 1, 0) = <<>>
  BY SubSeqEmpty
<1> QED
  BY <1>1, <1>2, ConcatEmptySeq

(* The search in the location that an earlier pass has put in. *)
LEMMA StepInLocation ==
  ASSUME NEW D, NEW b, NEW S, NEW prefix, NEW slash, NEW loc, NEW from,
         NEW c, NEW at, NEW U, NEW g,
         Pass(D, b, S, prefix, slash, loc, from, c, at, U, g),
         NEW i \in 0 .. Len(b) - 1, i + 1 \in S, NEW j \in 0 .. Len(loc),
         Clear(b, from, i), NEW t, Stands(t, i, j, at, g, loc),
         NEW s, s = Search(t, c, prefix, <<slash>>, loc)
  PROVE  InPlace(s, b, S, loc, from, at, g) /\ s.pos = t.pos + 1
<1>1. /\ loc \in Seq(D) /\ b \in Seq(D) /\ c \in Seq(D) /\ i + 1 \in U
      /\ Layout(at, c, b, S, loc) /\ Apart(b, S, prefix, slash, loc)
      /\ Parts(g, b, U, loc, D)
  BY DEF Pass
<1>2. PICK p, out, m : /\ p = at[i] + j + 1 /\ m = i + 1
                       /\ out = g[i] \o SubSeq(loc, 1, j)
  OBVIOUS
<1>3. t = [pos |-> p, new_body |-> out] /\ t.pos = p
  BY <1>2 DEF Stands
<1>4. /\ Len(b) \in Nat /\ Len(c) \in Nat /\ Len(loc) \in Nat
      /\ at \in [0 .. Len(b) -> Nat]
  BY <1>1 DEF Layout
<1>5. m \in 1 .. Len(b) /\ m - 1 = i /\ i \in 0 .. Len(b) /\ m \in 0 .. Len(b)
  BY <1>2, <1>4
<1>6. /\ at[i] \in Nat /\ at[m] \in Nat /\ at[m] = at[i] + Len(loc) + 1
      /\ \A k \in 1 .. Len(loc) : c[at[i] + k] = loc[k]
      /\ c[at[m]] = b[m] /\ at[m] <= Len(c)
  <2>1. /\ c[at[m]] = b[m] /\ at[m] + (Len(b) - m) <= Len(c)
        /\ at[m] = at[m - 1] + Len(loc) + 1
        /\ \A k \in 1 .. Len(loc) : c[at[m - 1] + k] = loc[k]
    BY <1>1, <1>2, <1>5 DEF Layout
  <2>2. at[m] \in Nat /\ at[i] \in Nat
    BY <1>4, <1>5
  <2>3. at[m] <= Len(c)
    BY <1>4, <1>5, <2>1, <2>2
  <2> QED
    BY <1>5, <2>1, <2>2, <2>3
<1>7. p \in Nat /\ p \in 1 .. Len(c)
  <2>1. PICK x, y, z : x = at[i] /\ y = Len(loc) /\ z = Len(c)
    OBVIOUS
  <2>2. x \in Nat /\ y \in Nat /\ z \in Nat /\ x + y + 1 <= z /\ j \in 0 .. y
        /\ p = x + j + 1
    BY <1>2, <1>4, <1>6, <2>1
  <2>3. p \in Nat /\ p >= 1 /\ p <= z
    BY <2>2
  <2>4. p \in 1 .. z
    BY <2>2, <2>3
  <2> QED
    BY <2>1, <2>3, <2>4
<1>8. g[i] \in Seq(D) /\ g[m] = g[i] \o (loc \o <<b[m]>>) /\ b[m] \in D
  <2>1. m \in U
    BY <1>1, <1>2
  <2>2. PutsLocation(g, b, loc, m, D)
    <3>1. Parts(g, b, U, loc, D) /\ m \in 1 .. Len(b)
      BY <1>1, <1>5
    <3> QED
      BY <2>1, <3>1, Located
  <2> QED
    BY <1>5, <2>2 DEF PutsLocation
<1>9. CASE j < Len(loc)
  <2>1. PICK k : k = j + 1
    OBVIOUS
  <2>2. k \in 1 .. Len(loc) /\ k \in 0 .. Len(loc) /\ k - 1 = j /\ k # 0
        /\ p = at[i] + k
    <3>1. PICK x, y : x = at[i] /\ y = Len(loc)
      OBVIOUS
    <3>2. x \in Nat /\ y \in Nat /\ j \in 0 .. y /\ j < y /\ p = x + j + 1
      BY <1>2, <1>4, <1>6, <1>9, <3>1
    <3> QED
      BY <2>1, <3>1, <3>2
  <2>3. c[p] = loc[k] /\ loc[k] # prefix[1] /\ loc[k] \in D
    BY <1>1, <1>6, <2>2, ElementOfSeq DEF Apart
  <2>4. ~IsAt(c, p, from)
    BY <1>7, <2>3, OtherFirst
  <2>5. s = [pos |-> p + 1, new_body |-> Append(out, loc[k])]
    <3>1. ~(p > Len(c)) /\ p <= Len(c)
      BY <1>4, <1>7
    <3> QED
      BY <1>3, <2>3, <2>4, <3>1, NotFound
  <2>6. SubSeq(loc, 1, k) = SubSeq(loc, 1, j) \o <<loc[k]>>
    <3>1. 1 \in 1 .. Len(loc)
      BY <1>4, <2>2
    <3> QED
      BY <1>1, <2>2, <3>1, SubSeqRecursiveSecond
  <2>7. SubSeq(loc, 1, j) \in Seq(D)
    <3>1. \A h \in 1 .. j : loc[h] \in D
      BY <1>1, <1>4, <2>2, ElementOfSeq
    <3> QED
      BY <1>4, <3>1, SubSeqProperties
  <2>8. Append(out, loc[k]) = g[i] \o SubSeq(loc, 1, k)
    <3>1. out \in Seq(D) /\ <<loc[k]>> \in Seq(D)
      BY <1>2, <1>8, <2>3, <2>7, ConcatProperties
    <3>2. Append(out, loc[k]) = out \o <<loc[k]>>
      BY <2>3, <3>1, AppendIsConcat
    <3>3. (g[i] \o SubSeq(loc, 1, j)) \o <<loc[k]>>
            = g[i] \o (SubSeq(loc, 1, j) \o <<loc[k]>>)
      <4>1. PICK u, v, w : u = g[i] /\ v = SubSeq(loc, 1, j) /\ w = <<loc[k]>>
        OBVIOUS
      <4>2. u \in Seq(D) /\ v \in Seq(D) /\ w \in Seq(D)
        BY <1>8, <2>7, <3>1, <4>1
      <4>3. Joined(u, v, w)
        BY <4>2, Assoc
      <4> QED
        BY <4>1, <4>3 DEF Joined
    <3> QED
      BY <1>2, <2>6, <3>2, <3>3
  <2>9. Stands(s, i, k, at, g, loc)
    BY <1>2, <2>2, <2>5, <2>8 DEF Stands
  <2>10. i < Len(b)
    BY <1>4, <1>5
  <2> QED
    BY <1>3, <1>5, <2>2, <2>5, <2>9, <2>10 DEF InPlace
<1>10. CASE ~(j < Len(loc))
  <2>1. j = Len(loc) /\ p = at[m]
    BY <1>2, <1>4, <1>6, <1>10
  <2>2. c[p] = b[m] /\ b[m] # prefix[1]
    <3>1. b[m] \in {"/", "2f"}
      BY <1>1, <1>2 DEF Apart
    <3>2. Len(prefix) \in {1, 2}
          /\ \A k \in 1 .. Len(prefix) : prefix[k] \notin {"/", "2f"}
      BY <1>1 DEF Apart
    <3>3. 1 \in 1 .. Len(prefix)
      BY <3>2
    <3> QED
      BY <1>6, <2>1, <3>1, <3>2, <3>3
  <2>3. ~IsAt(c, p, from)
    BY <1>7, <2>2, OtherFirst
  <2>4. s = [pos |-> p + 1, new_body |-> Append(out, b[m])]
    <3>1. ~(p > Len(c)) /\ p <= Len(c)
      BY <1>4, <1>7
    <3> QED
      BY <1>3, <2>2, <2>3, <3>1, NotFound
  <2>5. Append(out, b[m]) = g[m]
    <3>1. out = g[i] \o loc
      BY <1>1, <1>2, <2>1, SubSeqFull
    <3>2. out \in Seq(D) /\ <<b[m]>> \in Seq(D)
      BY <1>1, <1>8, <3>1, ConcatProperties
    <3>3. Append(out, b[m]) = out \o <<b[m]>>
      BY <1>8, <3>2, AppendIsConcat
    <3>4. (g[i] \o loc) \o <<b[m]>> = g[i] \o (loc \o <<b[m]>>)
      <4>1. PICK u, w : u = g[i] /\ w = <<b[m]>>
        OBVIOUS
      <4>2. u \in Seq(D) /\ loc \in Seq(D) /\ w \in Seq(D)
        BY <1>1, <1>8, <3>2, <4>1
      <4>3. Joined(u, loc, w)
        BY <4>2, Assoc
      <4> QED
        BY <4>1, <4>3 DEF Joined
    <3> QED
      BY <1>8, <3>1, <3>3, <3>4
  <2>6. Clear(b, from, m)
    <3>1. ~IsAt(b, m, from)
      BY <1>5, <2>2, OtherFirst
    <3>2. Len(from) \in Nat /\ i \in Nat
      BY <1>4, PassFrom DEF TextIs
    <3> QED
      BY <1>2, <3>1, <3>2, ClearNext
  <2>7. Stands(s, m, 0, at, g, loc)
    <3>1. g[m] \o SubSeq(loc, 1, 0) = g[m]
      BY <1>1, <1>5, StandsPlain
    <3>2. at[m] + 0 + 1 = p + 1
      BY <1>6, <2>1
    <3> QED
      BY <2>4, <2>5, <3>1, <3>2 DEF Stands
  <2>8. 0 \in 0 .. Len(loc)
    BY <1>4
  <2> QED
    BY <1>3, <1>5, <2>4, <2>6, <2>7, <2>8 DEF InPlace
<1> QED
  BY <1>9, <1>10

(* The search at a character of b behind which nothing is found. *)
LEMMA StepPlain ==
  ASSUME NEW D, NEW b, NEW S, NEW prefix, NEW slash, NEW loc, NEW from,
         NEW c, NEW at, NEW U, NEW g,
         Pass(D, b, S, prefix, slash, loc, from, c, at, U, g),
         NEW i \in 0 .. Len(b) - 1, i + 1 \notin S, ~IsAt(b, i + 1, from),
         Clear(b, from, i), NEW t, Stands(t, i, 0, at, g, loc),
         NEW s, s = Search(t, c, prefix, <<slash>>, loc)
  PROVE  InPlace(s, b, S, loc, from, at, g) /\ s.pos = t.pos + 1
<1>1. /\ b \in Seq(D) /\ c \in Seq(D) /\ slash \in D /\ prefix \in Seq(D)
      /\ Layout(at, c, b, S, loc) /\ Apart(b, S, prefix, slash, loc)
      /\ from = prefix \o <<slash>>
      /\ U = S \cup LinksBehind(b, prefix, slash) /\ Parts(g, b, U, loc, D)
  BY DEF Pass
<1>2. /\ Len(b) \in Nat /\ Len(c) \in Nat /\ Len(loc) \in Nat
      /\ at \in [0 .. Len(b) -> Nat]
  BY <1>1 DEF Layout
<1>3. PICK m : m = i + 1
  OBVIOUS
<1>4. m \in 1 .. Len(b) /\ m - 1 = i /\ i \in 0 .. Len(b) /\ m \in 0 .. Len(b)
      /\ i \in Nat
  BY <1>2, <1>3
<1>5. /\ at[i] \in Nat /\ at[m] \in Nat /\ at[m] = at[i] + 1
      /\ c[at[m]] = b[m] /\ at[m] <= Len(c)
  <2>1. /\ c[at[m]] = b[m] /\ at[m] + (Len(b) - m) <= Len(c)
        /\ at[m] = at[m - 1] + 1
    BY <1>1, <1>3, <1>4 DEF Layout
  <2>2. at[m] \in Nat /\ at[i] \in Nat
    BY <1>2, <1>4
  <2>3. at[m] <= Len(c)
    BY <1>2, <1>4, <2>1, <2>2
  <2> QED
    BY <1>4, <2>1, <2>2, <2>3
<1>6. m \notin U
  <2> SUFFICES ASSUME m \in LinksBehind(b, prefix, slash) PROVE FALSE
    BY <1>1, <1>3
  <2>1. m - Len(prefix) \in 1 .. m - 1 /\ IsAt(b, m - Len(prefix), from)
    BY LinkIsAt
  <2>2. (m - Len(prefix)) + Len(from) - 1 <= i
    BY <1>4, <2>1 DEF Clear
  <2>3. Len(prefix) \in {1, 2} /\ Len(from) = Len(prefix) + 1
    BY PassFrom DEF TextIs
  <2> QED
    BY <1>3, <1>4, <2>2, <2>3
<1>7. Copies(g, b, m, D)
  <2>1. Parts(g, b, U, loc, D)
    BY <1>1
  <2> QED
    BY <1>4, <1>6, <2>1, Copied
<1>8. ~IsAt(c, at[m], from)
  <2>1. ~IsAt(b, m, from)
    BY <1>3
  <2> QED
    BY <1>1, <1>4, <2>1, FoundAlike
<1>9. g[i] \o SubSeq(loc, 1, 0) = g[i] /\ g[m] \o SubSeq(loc, 1, 0) = g[m]
  <2>1. Parts(g, b, U, loc, D)
    BY <1>1
  <2> QED
    BY <1>4, <2>1, StandsPlain
<1>10. t = [pos |-> at[m], new_body |-> g[i]] /\ t.pos = at[m]
  <2>1. at[i] + 0 + 1 = at[m]
    BY <1>5
  <2> QED
    BY <1>9, <2>1 DEF Stands
<1>11. s = [pos |-> at[m] + 1, new_body |-> Append(g[i], c[at[m]])]
  <2>1. ~(at[m] > Len(c)) /\ at[m] <= Len(c)
    BY <1>2, <1>5
  <2> QED
    BY <1>8, <1>10, <2>1, NotFound
<1>12. s = [pos |-> at[m] + 1, new_body |-> g[m]]
  <2>1. g[m] = Append(g[i], b[m])
    BY <1>4, <1>7 DEF Copies
  <2> QED
    BY <1>5, <1>11, <2>1
<1>13. Stands(s, m, 0, at, g, loc)
  <2>1. at[m] + 0 + 1 = at[m] + 1
    BY <1>5
  <2> QED
    BY <1>9, <1>12, <2>1 DEF Stands
<1>14. Clear(b, from, m)
  <2>1. Len(from) \in Nat /\ ~IsAt(b, i + 1, from)
    BY PassFrom DEF TextIs
  <2> QED
    BY <1>3, <1>4, <2>1, ClearNext
<1>15. 0 \in 0 .. Len(loc)
  BY <1>2
<1> QED
  BY <1>4, <1>10, <1>12, <1>13, <1>14, <1>15 DEF InPlace

(* Texts of one and of two characters. *)
LEMMA OneIs ==
  ASSUME NEW D, NEW s \in Seq(D), Len(s) = 1
  PROVE  s = <<s[1]>>
<1>1. PICK x : x = s[1]
  OBVIOUS
<1>2. x \in D
  BY <1>1, ElementOfSeq
<1>3. <<x>> \in Seq(D) /\ Len(<<x>>) = 1 /\ <<x>>[1] = x
  BY <1>2
<1>4. \A i \in 1 .. Len(s) : s[i] = <<x>>[i]
  BY <1>1, <1>3
<1>5. s = <<x>>
  BY <1>3, <1>4, SeqEqual
<1> QED
  BY <1>1, <1>5

LEMMA TwoAre ==
  ASSUME NEW D, NEW s \in Seq(D), Len(s) = 2, NEW u \in Seq(D)
  PROVE  (u \o <<s[1]>>) \o <<s[2]>> = u \o s
<1>1. PICK x, y : x = s[1] /\ y = s[2]
  OBVIOUS
<1>2. x \in D /\ y \in D
  <2>1. 1 \in 1 .. Len(s) /\ 2 \in 1 .. Len(s)
    OBVIOUS
  <2> QED
    BY <1>1, <2>1, ElementOfSeq
<1>3. PICK v, w : v = <<x>> /\ w = <<y>>
  OBVIOUS
<1>4. /\ v \in Seq(D) /\ Len(v) = 1 /\ v[1] = x
      /\ w \in Seq(D) /\ Len(w) = 1 /\ w[1] = y
  BY <1>2, <1>3
<1>5. /\ v \o w \in Seq(D) /\ Len(v \o w) = Len(v) + Len(w)
      /\ \A i \in 1 .. Len(v) + Len(w) :
           (v \o w)[i] = IF i <= Len(v) THEN v[i] ELSE w[i - Len(v)]
  BY <1>4, ConcatProperties
<1>6. PICK z : z = v \o w
  OBVIOUS
<1>7. z \in Seq(D) /\ Len(z) = 2 /\ z[1] = x /\ z[2] = y
  BY <1>4, <1>5, <1>6
<1>8. \A i \in 1 .. Len(s) : s[i] = z[i]
  BY <1>1, <1>7
<1>9. s = z
  BY <1>7, <1>8, SeqEqual
<1>10. (u \o v) \o w = u \o (v \o w)
  BY <1>4, ConcatAssociative
<1> QED
  BY <1>1, <1>3, <1>6, <1>9, <1>10

(* from ends at character m of b. *)
Found(b, S, prefix, slash, at, g, i, l, m) ==
  /\ m \in 1 .. Len(b) /\ b[m] = slash /\ m \notin S
  /\ m \in LinksBehind(b, prefix, slash) <=> (m < Len(b) => b[m + 1] # "/")
  /\ at[m] = at[i] + l + 1 /\ g[m - 1] = g[i] \o prefix

(* Two or three characters that from is found in are the next ones of b,   *)
(* and no earlier pass has put anything in.                                *)
LEMMA FoundWhere ==
  ASSUME NEW D, NEW b, NEW S, NEW prefix, NEW slash, NEW loc, NEW from,
         NEW c, NEW at, NEW U, NEW g,
         Pass(D, b, S, prefix, slash, loc, from, c, at, U, g),
         NEW i \in 0 .. Len(b) - 1, i + 1 \notin S, IsAt(b, i + 1, from),
         NEW l, l = Len(prefix), NEW m, m = i + l + 1
  PROVE  Found(b, S, prefix, slash, at, g, i, l, m)
<1>1. /\ b \in Seq(D) /\ prefix \in Seq(D)
      /\ Layout(at, c, b, S, loc) /\ Apart(b, S, prefix, slash, loc)
      /\ U = S \cup LinksBehind(b, prefix, slash) /\ Parts(g, b, U, loc, D)
  BY DEF Pass
<1>2. /\ Len(b) \in Nat /\ at \in [0 .. Len(b) -> Nat] /\ DOMAIN b = 1 .. Len(b)
      /\ DOMAIN prefix = 1 .. l
  BY <1>1, LenProperties DEF Layout
<1>3. /\ from \in Seq(D) /\ l \in {1, 2} /\ Len(from) = l + 1
      /\ DOMAIN from = 1 .. l + 1
      /\ \A k \in 1 .. l : from[k] = prefix[k] /\ from[k] \notin {"/", "2f"}
      /\ from[l + 1] = slash /\ slash \in {"/", "2f"}
  <2>1. TextIs(D, prefix, slash, from)
    BY PassFrom
  <2> QED
    BY <2>1 DEF TextIs
<1>4. ASSUME NEW k \in 1 .. l + 1
      PROVE  i + k \in 1 .. Len(b) /\ b[i + k] = from[k]
  <2>1. (i + 1) + k - 1 = i + k
    BY <1>2, <1>3
  <2>2. (i + 1) + k - 1 \in 1 .. Len(b) /\ b[(i + 1) + k - 1] = from[k]
    BY <1>2, <1>3 DEF IsAt
  <2> QED
    BY <2>1, <2>2
<1>5. m \in 1 .. Len(b) /\ b[m] = slash /\ i \in Nat
  <2>1. l + 1 \in 1 .. l + 1 /\ i + (l + 1) = m /\ i \in Nat
    BY <1>2, <1>3
  <2> QED
    BY <1>3, <1>4, <2>1
<1>6. ASSUME NEW k \in 1 .. l + 1 PROVE i + k \notin S
  <2>1. CASE k = 1
    BY <2>1
  <2>2. CASE k # 1
    <3>1. PICK h : h = k - 1
      OBVIOUS
    <3>2. h \in 1 .. l /\ h \in 1 .. l + 1 /\ (i + k) - 1 = i + h
      BY <1>3, <1>5, <2>2, <3>1
    <3>3. b[(i + k) - 1] = prefix[h]
      BY <1>3, <1>4, <3>2
    <3> QED
      BY <1>1, <3>2, <3>3 DEF Apart
  <2> QED
    BY <2>1, <2>2
<1>7. ASSUME NEW k \in 1 .. l PROVE i + k \notin U
  <2>1. k \in 1 .. l + 1
    BY <1>3
  <2>2. b[i + k] \notin {"/", "2f"}
    BY <1>3, <1>4, <2>1
  <2>3. i + k \notin LinksBehind(b, prefix, slash)
    BY <1>3, <2>2 DEF LinksBehind
  <2> QED
    BY <1>1, <1>6, <2>1, <2>3
<1>8. ASSUME NEW k \in 1 .. l + 1 PROVE at[i + k] = at[i + k - 1] + 1
  BY <1>1, <1>4, <1>6 DEF Layout
<1>9. ASSUME NEW k \in 1 .. l
      PROVE  g[i + k - 1] \in Seq(D) /\ b[i + k] = prefix[k] /\ prefix[k] \in D
             /\ g[i + k] = g[i + k - 1] \o <<prefix[k]>>
  <2>1. Parts(g, b, U, loc, D)
    BY <1>1
  <2>2. i + k \in 1 .. Len(b) /\ b[i + k] = prefix[k]
    BY <1>3, <1>4
  <2>3. Copies(g, b, i + k, D)
    BY <1>7, <2>1, <2>2, Copied
  <2>4. PICK x, y : x = b[i + k] /\ y = prefix[k]
    OBVIOUS
  <2>5. g[i + k - 1] \in Seq(D) /\ x \in D /\ g[i + k] = g[i + k - 1] \o <<x>>
    BY <2>3, <2>4 DEF Copies
  <2>6. x = y
    BY <2>2, <2>4
  <2> QED
    BY <2>2, <2>4, <2>5, <2>6
<1>10. m \in LinksBehind(b, prefix, slash) <=> (m < Len(b) => b[m + 1] # "/")
  <2>1. m > l /\ m - l = i + 1
    BY <1>3, <1>5
  <2>2. IsAt(b, i + 1, prefix)
    <3> SUFFICES ASSUME NEW k \in 1 .. l
                 PROVE  (i + 1) + k - 1 \in 1 .. Len(b)
                        /\ b[(i + 1) + k - 1] = prefix[k]
      BY <1>2 DEF IsAt
    <3>1. (i + 1) + k - 1 = i + k /\ k \in 1 .. l + 1
      BY <1>3, <1>5
    <3> QED
      BY <1>3, <1>4, <3>1
  <2> QED
    BY <1>2, <1>5, <2>1, <2>2 DEF LinksBehind
<1>11. at[i] \in Nat
  BY <1>2, <1>5
<1>12. CASE l = 1
  <2>1. 1 \in 1 .. l /\ 1 \in 1 .. l + 1 /\ 2 \in 1 .. l + 1 /\ m = i + 2
        /\ i + 1 - 1 = i /\ i + 2 - 1 = i + 1
    BY <1>5, <1>12
  <2>2. at[i + 1] = at[i] + 1 /\ at[i + 2] = at[i + 1] + 1
    BY <1>8, <2>1
  <2>3. at[m] = at[i] + l + 1
    BY <1>11, <1>12, <2>1, <2>2
  <2>4. g[i + 1] = g[i] \o <<prefix[1]>>
    BY <1>9, <2>1
  <2>5. prefix = <<prefix[1]>>
    BY <1>1, <1>12, OneIs
  <2>6. m \notin S
    BY <1>6, <2>1
  <2>7. g[m - 1] = g[i] \o prefix
    <3>1. m - 1 = i + 1
      BY <2>1
    <3> QED
      BY <2>4, <2>5, <3>1
  <2> QED
    BY <1>5, <1>10, <2>3, <2>6, <2>7 DEF Found
<1>13. CASE l = 2
  <2>1. /\ 1 \in 1 .. l /\ 2 \in 1 .. l /\ 1 \in 1 .. l + 1 /\ 2 \in 1 .. l + 1
        /\ 3 \in 1 .. l + 1 /\ m = i + 3
        /\ i + 1 - 1 = i /\ i + 2 - 1 = i + 1 /\ i + 3 - 1 = i + 2
    BY <1>5, <1>13
  <2>2. at[i + 1] = at[i] + 1 /\ at[i + 2] = at[i + 1] + 1 /\ at[i + 3] = at[i + 2] + 1
    BY <1>8, <2>1
  <2>3. at[m] = at[i] + l + 1
    BY <1>11, <1>13, <2>1, <2>2
  <2>4. /\ g[i + 1] = g[i] \o <<prefix[1]>> /\ g[i + 2] = g[i + 1] \o <<prefix[2]>>
        /\ g[i] \in Seq(D) /\ prefix[1] \in D /\ prefix[2] \in D
    BY <1>9, <2>1
  <2>5. (g[i] \o <<prefix[1]>>) \o <<prefix[2]>> = g[i] \o prefix
    BY <1>1, <1>13, <2>4, TwoAre
  <2>9. g[m - 1] = g[i] \o prefix
    <3>1. m - 1 = i + 2
      BY <2>1
    <3> QED
      BY <2>4, <2>5, <3>1
  <2>10. m \notin S
    BY <1>6, <2>1
  <2> QED
    BY <1>5, <1>10, <2>3, <2>9, <2>10 DEF Found
<1> QED
  BY <1>3, <1>12, <1>13

(* s is what becomes of out where from is found and ends in front of q. *)
Finds(s, q, out, c, prefix, slash, loc, from) ==
  s = [pos |-> q,
       new_body |-> out \o (IF SkipsDoubleSlash(c, q) THEN from
                            ELSE (prefix \o loc) \o <<slash>>)]

(* Where from is found it is copied, with the location or without. *)
LEMMA IsFound ==
  ASSUME NEW D, NEW b, NEW S, NEW prefix, NEW slash, NEW loc, NEW from,
         NEW c, NEW at, NEW U, NEW g,
         Pass(D, b, S, prefix, slash, loc, from, c, at, U, g),
         NEW p, NEW out, NEW t, t = [pos |-> p, new_body |-> out],
         ~(p > Len(c)), p <= Len(c), IsAt(c, p, from),
         NEW q, q = p + Len(from),
         NEW s, s = Search(t, c, prefix, <<slash>>, loc)
  PROVE  Finds(s, q, out, c, prefix, slash, loc, from)
<1>1. from = prefix \o <<slash>>
  BY DEF Pass
<1>2. t.pos = p /\ t.new_body = out
  OBVIOUS
<1> QED
  BY <1>1, <1>2 DEF Search, Finds

(* The slash that may follow is the one of b. *)
LEMMA SkipsAlike ==
  ASSUME NEW D, NEW b, NEW S, NEW prefix, NEW slash, NEW loc, NEW from,
         NEW c, NEW at, NEW U, NEW g,
         Pass(D, b, S, prefix, slash, loc, from, c, at, U, g),
         NEW m \in 1 .. Len(b), b[m] = slash, NEW q, q = at[m] + 1
  PROVE  SkipsDoubleSlash(c, q) <=> (m < Len(b) /\ b[m + 1] = "/")
<1>1. Layout(at, c, b, S, loc) /\ Apart(b, S, prefix, slash, loc)
  BY DEF Pass
<1>2. /\ Len(b) \in Nat /\ Len(c) \in Nat /\ at \in [0 .. Len(b) -> Nat]
      /\ at[Len(b)] = Len(c)
  BY <1>1 DEF Layout
<1>3. at[m] \in Nat
  BY <1>2
<1>4. CASE m = Len(b)
  <2>1. ~(q <= Len(c)) /\ ~(m < Len(b))
    BY <1>2, <1>3, <1>4
  <2> QED
    BY <2>1 DEF SkipsDoubleSlash
<1>5. CASE m # Len(b)
  <2>1. PICK k : k = m + 1
    OBVIOUS
  <2>2. k \in 1 .. Len(b) /\ k - 1 = m /\ m < Len(b) /\ k \in 0 .. Len(b)
    BY <1>2, <1>5, <2>1
  <2>3. k \notin S
    BY <1>1, <2>2 DEF Apart
  <2>4. at[k] = q /\ c[at[k]] = b[k] /\ at[k] + (Len(b) - k) <= Len(c)
    <3>1. at[k] = at[k - 1] + 1
      BY <1>1, <2>2, <2>3 DEF Layout
    <3>2. c[at[k]] = b[k] /\ at[k] + (Len(b) - k) <= Len(c)
      BY <1>1, <2>2 DEF Layout
    <3> QED
      BY <2>2, <3>1, <3>2
  <2>5. q <= Len(c)
    <3>1. PICK x, y, z : x = at[k] /\ y = Len(b) - k /\ z = Len(c)
      OBVIOUS
    <3>2. x \in Nat /\ y \in Nat /\ z \in Nat /\ x + y <= z
      BY <1>2, <2>2, <2>4, <3>1
    <3>3. x <= z
      BY <3>2
    <3> QED
      BY <2>4, <3>1, <3>3
  <2> QED
    BY <2>1, <2>2, <2>4, <2>5 DEF SkipsDoubleSlash
<1> QED
  BY <1>4, <1>5

(* The search where from is found. *)
LEMMA StepFound ==
  ASSUME NEW D, NEW b, NEW S, NEW prefix, NEW slash, NEW loc, NEW from,
         NEW c, NEW at, NEW U, NEW g,
         Pass(D, b, S, prefix, slash, loc, from, c, at, U, g),
         NEW i \in 0 .. Len(b) - 1, i + 1 \notin S, IsAt(b, i + 1, from),
         Clear(b, from, i), NEW t, Stands(t, i, 0, at, g, loc),
         NEW s, s = Search(t, c, prefix, <<slash>>, loc)
  PROVE  InPlace(s, b, S, loc, from, at, g) /\ s.pos >= t.pos + 1
<1>1. /\ b \in Seq(D) /\ c \in Seq(D) /\ slash \in D /\ prefix \in Seq(D)
      /\ loc \in Seq(D)
      /\ Layout(at, c, b, S, loc) /\ Apart(b, S, prefix, slash, loc)
      /\ from = prefix \o <<slash>>
      /\ U = S \cup LinksBehind(b, prefix, slash) /\ Parts(g, b, U, loc, D)
  BY DEF Pass
<1>2. /\ Len(b) \in Nat /\ Len(c) \in Nat /\ Len(loc) \in Nat
      /\ at \in [0 .. Len(b) -> Nat]
  BY <1>1 DEF Layout
<1>3. PICK l, m, h : l = Len(prefix) /\ m = i + l + 1 /\ h = i + 1
  OBVIOUS
<1>4. /\ m \in 1 .. Len(b) /\ b[m] = slash /\ m \notin S
      /\ m \in LinksBehind(b, prefix, slash) <=> (m < Len(b) => b[m + 1] # "/")
      /\ at[m] = at[i] + l + 1 /\ g[m - 1] = g[i] \o prefix
  <2>1. Found(b, S, prefix, slash, at, g, i, l, m)
    BY <1>3, FoundWhere
  <2> QED
    BY <2>1 DEF Found
<1>5. /\ from \in Seq(D) /\ l \in {1, 2} /\ Len(from) = l + 1
      /\ \A k \in 2 .. Len(from) : from[k] # from[1]
  <2>1. TextIs(D, prefix, slash, from)
    BY PassFrom
  <2> QED
    BY <1>3, <2>1 DEF TextIs
<1>6. /\ h \in 1 .. Len(b) /\ h - 1 = i /\ i \in 0 .. Len(b) /\ i \in Nat
      /\ m \in 0 .. Len(b) /\ m = i + Len(from)
  BY <1>2, <1>3, <1>4, <1>5
<1>7. at[i] \in Nat /\ at[h] = at[i] + 1 /\ at[h] <= Len(c)
  <2>1. at[i] \in Nat /\ at[h] \in Nat
    BY <1>2, <1>6
  <2>2. at[h] = at[h - 1] + 1 /\ at[h] + (Len(b) - h) <= Len(c)
    BY <1>1, <1>3, <1>6 DEF Layout
  <2> QED
    BY <1>2, <1>6, <2>1, <2>2
<1>8. IsAt(c, at[h], from)
  <2>1. IsAt(b, h, from)
    BY <1>3
  <2> QED
    BY <1>1, <1>6, <2>1, FoundAlike
<1>9. t = [pos |-> at[h], new_body |-> g[i]] /\ t.pos = at[h]
  <2>1. at[i] + 0 + 1 = at[h]
    BY <1>7
  <2>2. Parts(g, b, U, loc, D)
    BY <1>1
  <2>3. g[i] \o SubSeq(loc, 1, 0) = g[i]
    BY <1>6, <2>2, StandsPlain
  <2> QED
    BY <2>1, <2>3 DEF Stands
<1>10. PICK q : q = at[m] + 1
  OBVIOUS
<1>11. q = at[h] + Len(from) /\ q >= at[h] + 1 /\ at[m] + 0 + 1 = q
  <2>1. PICK x, y, z : x = at[i] /\ y = at[h] /\ z = at[m]
    OBVIOUS
  <2>2. x \in Nat /\ y = x + 1 /\ z = x + l + 1 /\ l \in {1, 2} /\ q = z + 1
    BY <1>4, <1>5, <1>7, <1>10, <2>1
  <2>3. q = y + (l + 1) /\ q >= y + 1 /\ z + 0 + 1 = q
    BY <2>2
  <2> QED
    BY <1>5, <2>1, <2>3
<1>12. s = [pos |-> q,
            new_body |-> g[i] \o (IF SkipsDoubleSlash(c, q) THEN from
                                  ELSE (prefix \o loc) \o <<slash>>)]
  <2>1. ~(at[h] > Len(c))
    BY <1>2, <1>7
  <2>2. PICK p, out : p = at[h] /\ out = g[i]
    OBVIOUS
  <2>3. /\ t = [pos |-> p, new_body |-> out] /\ ~(p > Len(c)) /\ p <= Len(c)
        /\ IsAt(c, p, from) /\ q = p + Len(from)
    BY <1>7, <1>8, <1>9, <1>11, <2>1, <2>2
  <2>4. Finds(s, q, out, c, prefix, slash, loc, from)
    BY <2>3, IsFound
  <2> QED
    BY <2>2, <2>4 DEF Finds
<1>13. SkipsDoubleSlash(c, q) <=> m \notin U
  <2>1. SkipsDoubleSlash(c, q) <=> (m < Len(b) /\ b[m + 1] = "/")
    BY <1>4, <1>10, SkipsAlike
  <2> QED
    BY <1>1, <1>4, <2>1
<1>14. g[i] \in Seq(D) /\ <<slash>> \in Seq(D)
  <2>1. Parts(g, b, U, loc, D)
    BY <1>1
  <2> QED
    BY <1>1, <1>6, <2>1, StandsPlain
<1>15. g[m] = g[i] \o (IF SkipsDoubleSlash(c, q) THEN from
                       ELSE (prefix \o loc) \o <<slash>>)
  <2>0. Parts(g, b, U, loc, D)
    BY <1>1
  <2>1. PICK u, v : u = g[i] /\ v = <<slash>>
    OBVIOUS
  <2>2. u \in Seq(D) /\ v \in Seq(D) /\ prefix \in Seq(D) /\ loc \in Seq(D)
    BY <1>1, <1>14, <2>1
  <2>3. CASE m \notin U
    <3>1. Copies(g, b, m, D)
      BY <1>4, <2>0, <2>3, Copied
    <3>2. g[m] = (u \o prefix) \o v
      <4>1. g[m] = g[m - 1] \o <<b[m]>>
        BY <3>1 DEF Copies
      <4> QED
        BY <1>4, <2>1, <4>1
    <3>3. Joined(u, prefix, v)
      BY <2>2, Assoc
    <3>4. g[m] = u \o from
      BY <1>1, <2>1, <3>2, <3>3 DEF Joined
    <3> QED
      BY <1>13, <2>1, <2>3, <3>4
  <2>4. CASE m \in U
    <3>1. PutsLocation(g, b, loc, m, D)
      BY <1>4, <2>0, <2>4, Located
    <3>2. g[m] = (u \o prefix) \o (loc \o v)
      <4>1. g[m] = g[m - 1] \o (loc \o <<b[m]>>)
        BY <3>1 DEF PutsLocation
      <4> QED
        BY <1>4, <2>1, <4>1
    <3>3. PICK w : w = loc \o v
      OBVIOUS
    <3>4. w \in Seq(D)
      BY <2>2, <3>3, ConcatProperties
    <3>5. Joined(u, prefix, w)
      <4>1. u \in Seq(D) /\ prefix \in Seq(D) /\ w \in Seq(D)
        BY <2>2, <3>4
      <4> QED
        BY <4>1, Assoc
    <3>6. Joined(prefix, loc, v)
      BY <2>2, Assoc
    <3>7. g[m] = u \o ((prefix \o loc) \o v)
      BY <3>2, <3>3, <3>5, <3>6 DEF Joined
    <3> QED
      BY <1>13, <2>1, <2>4, <3>7
  <2> QED
    BY <2>3, <2>4
<1>16. s = [pos |-> q, new_body |-> g[m]]
  BY <1>12, <1>15
<1>17. Stands(s, m, 0, at, g, loc)
  <2>1. Parts(g, b, U, loc, D)
    BY <1>1
  <2>2. g[m] \o SubSeq(loc, 1, 0) = g[m]
    BY <1>6, <2>1, StandsPlain
  <2> QED
    BY <1>11, <1>16, <2>2 DEF Stands
<1>18. Clear(b, from, m)
  <2>1. Len(from) \in Nat \ {0}
    BY <1>5
  <2>2. Clear(b, from, i + Len(from))
    BY <1>1, <1>5, <1>6, <2>1, ClearBehind
  <2> QED
    BY <1>6, <2>2
<1>19. 0 \in 0 .. Len(loc)
  BY <1>2
<1>20. InPlace(s, b, S, loc, from, at, g)
  BY <1>6, <1>17, <1>18, <1>19 DEF InPlace
<1> QED
  BY <1>9, <1>11, <1>16, <1>20

(* The search goes on, or is over. *)
Advances(s, t, c) == s.pos >= t.pos + 1 \/ (t.pos > Len(c) /\ s = t)

LEMMA SearchStep ==
  ASSUME NEW D, NEW b, NEW S, NEW prefix, NEW slash, NEW loc, NEW from,
         NEW c, NEW at, NEW U, NEW g,
         Pass(D, b, S, prefix, slash, loc, from, c, at, U, g),
         NEW t, InPlace(t, b, S, loc, from, at, g),
         NEW s, s = Search(t, c, prefix, <<slash>>, loc)
  PROVE  InPlace(s, b, S, loc, from, at, g) /\ Advances(s, t, c)
<1>1. Layout(at, c, b, S, loc)
  BY DEF Pass
<1>2. /\ Len(b) \in Nat /\ Len(c) \in Nat /\ Len(loc) \in Nat
      /\ at \in [0 .. Len(b) -> Nat] /\ at[Len(b)] = Len(c)
  BY <1>1 DEF Layout
<1>3. PICK i \in 0 .. Len(b), j \in 0 .. Len(loc) :
        /\ Clear(b, from, i) /\ (j # 0 => i < Len(b) /\ i + 1 \in S)
        /\ Stands(t, i, j, at, g, loc)
  BY DEF InPlace
<1>4. at[i] \in Nat /\ t.pos = at[i] + j + 1 /\ t.pos \in Nat
  <2>1. at[i] \in Nat
    BY <1>2
  <2>2. t.pos = at[i] + j + 1
    BY <1>3 DEF Stands
  <2> QED
    BY <1>2, <2>1, <2>2
<1>5. CASE i = Len(b)
  <2>1. j = 0
    BY <1>2, <1>3, <1>5
  <2>2. t.pos > Len(c) /\ ~(t.pos <= Len(c))
    BY <1>2, <1>4, <1>5, <2>1
  <2>3. s = t
    BY <2>2 DEF Search
  <2> QED
    BY <2>2, <2>3 DEF Advances
<1>6. CASE i # Len(b) /\ i + 1 \in S
  <2>1. i \in 0 .. Len(b) - 1
    BY <1>2, <1>6
  <2>2. InPlace(s, b, S, loc, from, at, g) /\ s.pos = t.pos + 1
    <3>1. /\ i + 1 \in S /\ j \in 0 .. Len(loc) /\ Clear(b, from, i)
          /\ Stands(t, i, j, at, g, loc)
      BY <1>3, <1>6
    <3> QED
      BY <2>1, <3>1, StepInLocation
  <2>3. s.pos >= t.pos + 1
    BY <1>4, <2>2
  <2> QED
    BY <2>2, <2>3 DEF Advances
<1>7. CASE i # Len(b) /\ i + 1 \notin S
  <2>1. i \in 0 .. Len(b) - 1
    BY <1>2, <1>7
  <2>2. Clear(b, from, i) /\ Stands(t, i, 0, at, g, loc)
    BY <1>3, <1>7
  <2>3. CASE IsAt(b, i + 1, from)
    <3>1. InPlace(s, b, S, loc, from, at, g) /\ s.pos >= t.pos + 1
      BY <1>7, <2>1, <2>2, <2>3, StepFound
    <3> QED
      BY <3>1 DEF Advances
  <2>4. CASE ~IsAt(b, i + 1, from)
    <3>1. InPlace(s, b, S, loc, from, at, g) /\ s.pos = t.pos + 1
      BY <1>7, <2>1, <2>2, <2>4, StepPlain
    <3>2. s.pos >= t.pos + 1
      BY <1>4, <3>1
    <3> QED
      BY <3>1, <3>2 DEF Advances
  <2> QED
    BY <2>3, <2>4
<1> QED
  BY <1>5, <1>6, <1>7

(* Behind the last character everything has been copied. *)
LEMMA SearchEnd ==
  ASSUME NEW D, NEW b, NEW S, NEW prefix, NEW slash, NEW loc, NEW from,
         NEW c, NEW at, NEW U, NEW g,
         Pass(D, b, S, prefix, slash, loc, from, c, at, U, g),
         NEW t, InPlace(t, b, S, loc, from, at, g)
  PROVE  t.pos \in Nat /\ (t.pos > Len(c) => t.new_body = g[Len(b)])
<1>1. Layout(at, c, b, S, loc) /\ Parts(g, b, U, loc, D)
  BY DEF Pass
<1>2. /\ Len(b) \in Nat /\ Len(c) \in Nat /\ Len(loc) \in Nat
      /\ at \in [0 .. Len(b) -> Nat] /\ at[Len(b)] = Len(c)
  BY <1>1 DEF Layout
<1>3. PICK i \in 0 .. Len(b), j \in 0 .. Len(loc) :
        /\ Clear(b, from, i) /\ (j # 0 => i < Len(b) /\ i + 1 \in S)
        /\ Stands(t, i, j, at, g, loc)
  BY DEF InPlace
<1>4. at[i] \in Nat /\ t.pos = at[i] + j + 1 /\ t.pos \in Nat
  <2>1. at[i] \in Nat
    BY <1>2
  <2>2. t.pos = at[i] + j + 1
    BY <1>3 DEF Stands
  <2> QED
    BY <1>2, <2>1, <2>2
<1>5. CASE i = Len(b)
  <2>1. j = 0
    BY <1>2, <1>3, <1>5
  <2>2. g[i] \o SubSeq(loc, 1, 0) = g[i]
    BY <1>1, <1>3, StandsPlain
  <2>3. t.new_body = g[i] \o SubSeq(loc, 1, 0)
    BY <1>3, <2>1 DEF Stands
  <2> QED
    BY <1>4, <1>5, <2>2, <2>3
<1>6. CASE i # Len(b)
  <2>1. PICK m : m = i + 1
    OBVIOUS
  <2>2. m \in 1 .. Len(b) /\ m - 1 = i /\ m \in 0 .. Len(b)
    BY <1>2, <1>6, <2>1
  <2>3. /\ m \in S => at[m] = at[i] + Len(loc) + 1
        /\ m \notin S => at[m] = at[i] + 1
        /\ at[m] + (Len(b) - m) <= Len(c)
    BY <1>1, <2>2 DEF Layout
  <2>4. PICK x, y, z, l, n : x = at[i] /\ y = at[m] /\ z = Len(c)
                          /\ l = Len(loc) /\ n = Len(b)
    OBVIOUS
  <2>5. /\ x \in Nat /\ y \in Nat /\ z \in Nat /\ l \in Nat /\ n \in Nat
        /\ j \in 0 .. l /\ m \in 1 .. n /\ y + (n - m) <= z
        /\ (y = x + l + 1 \/ (y = x + 1 /\ j = 0))
    BY <1>2, <1>3, <1>4, <2>1, <2>2, <2>3, <2>4
  <2>6. ~(x + j + 1 > z)
    BY <2>5
  <2> QED
    BY <1>4, <2>4, <2>6
<1> QED
  BY <1>5, <1>6

(* The loop of replaced_absolute_paths. *)
Searches(a, c, prefix, separator, loc) ==
  /\ a[0] = [pos |-> 1, new_body |-> <<>>]
  /\ \A i \in 1 .. Len(c) : a[i] = Search(a[i - 1], c, prefix, separator, loc)
  /\ replaced_absolute_paths(c, prefix, separator, loc) = a[Len(c)].new_body

LEMMA SearchLoop ==
  ASSUME NEW c, Len(c) \in Nat, NEW prefix, NEW separator, NEW loc
  PROVE  \E a : Searches(a, c, prefix, separator, loc)
<1> DEFINE first == [pos |-> 1, new_body |-> <<>>]
           Turn(t) == Search(t, c, prefix, separator, loc)
           Loop(a, n) == a = [i \in 0 .. n |->
                                IF i = 0 THEN first ELSE Turn(a[i - 1])]
           T == {n \in Nat : \E a : Loop(a, n)}
<1>1. 0 \in T
  <2> HIDE DEF first, Turn
  <2>1. Loop([i \in 0 .. 0 |-> first], 0)
    OBVIOUS
  <2> HIDE DEF Loop
  <2> QED
    BY <2>1
<1>2. \A n \in Nat : n \in T => n + 1 \in T
  <2> SUFFICES ASSUME NEW n \in Nat, NEW a, Loop(a, n) PROVE n + 1 \in T
    OBVIOUS
  <2> DEFINE d == [i \in 0 .. n + 1 |->
                     IF i = n + 1 THEN Turn(a[n]) ELSE a[i]]
  <2> HIDE DEF first, Turn
  <2>1. Loop(d, n + 1)
    OBVIOUS
  <2> HIDE DEF Loop, d
  <2> QED
    BY <2>1
<1>3. Nat \subseteq T
  <2> HIDE DEF T
  <2> QED
    BY <1>1, <1>2, NumberInduction
<1>5. PICK a : Loop(a, Len(c))
  BY <1>3
<1> DEFINE search == CHOOSE a_1 : Loop(a_1, Len(c))
<1>6. Loop(search, Len(c))
  <2> HIDE DEF Loop
  <2> QED
    BY <1>5
<1>7. replaced_absolute_paths(c, prefix, separator, loc)
        = search[Len(c)].new_body
  BY DEF replaced_absolute_paths
<1> HIDE DEF search
<1>8. search[0] = first /\ \A i \in 1 .. Len(c) : search[i] = Turn(search[i - 1])
  <2> HIDE DEF first, Turn
  <2> QED
    BY <1>6
<1> QED
  BY <1>7, <1>8 DEF Searches

(* One pass puts the location in at the places of its links. *)
LEMMA PassEnds ==
  ASSUME NEW D, NEW b, NEW S, NEW prefix, NEW slash, NEW loc, NEW from,
         NEW c, NEW at, NEW U, NEW g,
         Pass(D, b, S, prefix, slash, loc, from, c, at, U, g)
  PROVE  replaced_absolute_paths(c, prefix, <<slash>>, loc) = g[Len(b)]
<1>1. Layout(at, c, b, S, loc) /\ Parts(g, b, U, loc, D)
  BY DEF Pass
<1>2. Len(b) \in Nat /\ Len(c) \in Nat /\ Len(loc) \in Nat /\ at[0] = 0
  BY <1>1 DEF Layout
<1>3. PICK a : Searches(a, c, prefix, <<slash>>, loc)
  BY <1>2, SearchLoop
<1>4. InPlace(a[0], b, S, loc, from, at, g) /\ a[0].pos = 1
  <2>1. a[0] = [pos |-> 1, new_body |-> <<>>]
    BY <1>3 DEF Searches
  <2>2. 0 \in 0 .. Len(b) /\ 0 \in 0 .. Len(loc)
    BY <1>2
  <2>3. g[0] \o SubSeq(loc, 1, 0) = g[0] /\ g[0] = <<>>
    BY <1>1, <2>2, StandsPlain DEF Parts
  <2>4. at[0] + 0 + 1 = 1
    BY <1>2
  <2>5. Stands(a[0], 0, 0, at, g, loc)
    BY <2>1, <2>3, <2>4 DEF Stands
  <2>6. Clear(b, from, 0)
    BY DEF Clear
  <2> QED
    BY <2>1, <2>2, <2>5, <2>6 DEF InPlace
<1> DEFINE Good(k) == k <= Len(c) =>
             /\ InPlace(a[k], b, S, loc, from, at, g)
             /\ a[k].pos >= k + 1 \/ a[k].pos > Len(c)
           T == {k \in Nat : Good(k)}
<1>5. 0 \in T
  BY <1>4
<1>6. ASSUME NEW k \in Nat, k \in T PROVE k + 1 \in T
  <2> SUFFICES ASSUME k + 1 <= Len(c) PROVE Good(k + 1)
    <3> HIDE DEF Good
    <3>1. CASE k + 1 <= Len(c)
      BY <3>1
    <3>2. CASE ~(k + 1 <= Len(c))
      BY <3>2 DEF Good
    <3> QED
      BY <3>1, <3>2
  <2>1. PICK m, t, s : m = k + 1 /\ t = a[k] /\ s = a[m]
    OBVIOUS
  <2>2. m \in 1 .. Len(c) /\ m - 1 = k /\ k <= Len(c)
    BY <1>2, <2>1
  <2>3. s = Search(t, c, prefix, <<slash>>, loc)
    BY <1>3, <2>1, <2>2 DEF Searches
  <2>4. InPlace(t, b, S, loc, from, at, g)
        /\ (t.pos >= k + 1 \/ t.pos > Len(c))
    BY <1>6, <2>1, <2>2
  <2> HIDE DEF Good, T
  <2>5. InPlace(s, b, S, loc, from, at, g) /\ Advances(s, t, c)
    BY <2>3, <2>4, SearchStep
  <2>6. t.pos \in Nat /\ s.pos \in Nat
    BY <2>4, <2>5, SearchEnd
  <2>7. s.pos >= m + 1 \/ s.pos > Len(c)
    <3>1. PICK x, y : x = t.pos /\ y = s.pos
      OBVIOUS
    <3>2. /\ x \in Nat /\ y \in Nat /\ (x >= k + 1 \/ x > Len(c))
          /\ (y >= x + 1 \/ (x > Len(c) /\ y = x))
      BY <2>4, <2>5, <2>6, <3>1 DEF Advances
    <3>3. y >= m + 1 \/ y > Len(c)
      BY <1>2, <2>1, <3>2
    <3> QED
      BY <3>1, <3>3
  <2> QED
    BY <2>1, <2>5, <2>7 DEF Good
<1>7. Nat \subseteq T
  <2> HIDE DEF T
  <2> QED
    BY <1>5, <1>6, NumberInduction
<1>8. Len(c) \in T
  BY <1>2, <1>7
<1>9. PICK t : t = a[Len(c)]
  OBVIOUS
<1>10. InPlace(t, b, S, loc, from, at, g) /\ (t.pos >= Len(c) + 1 \/ t.pos > Len(c))
  BY <1>2, <1>8, <1>9
<1> HIDE DEF T, Good
<1>11. t.pos \in Nat /\ (t.pos > Len(c) => t.new_body = g[Len(b)])
  BY <1>10, SearchEnd
<1>12. t.pos > Len(c)
  BY <1>2, <1>10, <1>11
<1> QED
  BY <1>3, <1>9, <1>11, <1>12 DEF Searches

(* A pass over a body with the location put in at S. *)
LEMMA PassIs ==
  ASSUME NEW D, NEW b, NEW S, NEW prefix, NEW slash, NEW loc,
         b \in Seq(D), loc \in Seq(D), prefix \in Seq(D), slash \in D,
         Apart(b, S, prefix, slash, loc),
         NEW U, U = S \cup LinksBehind(b, prefix, slash)
  PROVE  replaced_absolute_paths(Inserted(b, S, loc), prefix, <<slash>>, loc)
           = Inserted(b, U, loc)
<1>1. PICK f : Parts(f, b, S, loc, D) /\ Inserted(b, S, loc) = f[Len(b)]
  BY InsertedIs
<1>2. PICK g : Parts(g, b, U, loc, D) /\ Inserted(b, U, loc) = g[Len(b)]
  BY InsertedIs
<1>3. PICK c, from : c = f[Len(b)] /\ from = prefix \o <<slash>>
  OBVIOUS
<1>4. c \in Seq(D)
  <2>1. Len(b) \in Nat
    BY LenProperties
  <2>2. Len(b) \in 0 .. Len(b)
    BY <2>1
  <2> QED
    BY <1>1, <1>3, <2>2 DEF Parts
<1>5. PICK at : Layout(at, c, b, S, loc)
  BY <1>1, <1>3, LayoutIs
<1>6. Pass(D, b, S, prefix, slash, loc, from, c, at, U, g)
  BY <1>2, <1>3, <1>4, <1>5 DEF Pass
<1>7. replaced_absolute_paths(c, prefix, <<slash>>, loc) = g[Len(b)]
  BY <1>6, PassEnds
<1> QED
  BY <1>1, <1>2, <1>3, <1>7

(* With no place nothing is put in. *)
LEMMA NothingInserted ==
  ASSUME NEW D, NEW b, NEW loc, b \in Seq(D), loc \in Seq(D)
  PROVE  Inserted(b, {}, loc) = b
<1>1. PICK f : Parts(f, b, {}, loc, D) /\ Inserted(b, {}, loc) = f[Len(b)]
  BY InsertedIs
<1>2. Len(b) \in Nat
  BY LenProperties
<1> DEFINE T == {k \in Nat : k <= Len(b) => f[k] = SubSeq(b, 1, k)}
<1>3. 0 \in T
  <2>1. f[0] = <<>> /\ SubSeq(b, 1, 0) = <<>>
    BY <1>1, SubSeqEmpty DEF Parts
  <2> QED
    BY <2>1
<1>4. ASSUME NEW k \in Nat, k \in T PROVE k + 1 \in T
  <2> SUFFICES ASSUME k + 1 <= Len(b) PROVE f[k + 1] = SubSeq(b, 1, k + 1)
    OBVIOUS
  <2>1. PICK m : m = k + 1
    OBVIOUS
  <2>2. m \in 1 .. Len(b) /\ m - 1 = k /\ k <= Len(b) /\ 1 \in 1 .. Len(b)
    BY <1>2, <2>1
  <2>3. f[k] = SubSeq(b, 1, k)
    BY <1>4, <2>2
  <2> HIDE DEF T
  <2>4. f[m] = f[m - 1] \o <<b[m]>>
    BY <1>1, <2>2 DEF Parts, Put
  <2>5. SubSeq(b, 1, m) = SubSeq(b, 1, m - 1) \o <<b[m]>>
    BY <2>2, SubSeqRecursiveSecond
  <2> QED
    BY <2>1, <2>2, <2>3, <2>4, <2>5
<1>5. Nat \subseteq T
  <2> HIDE DEF T
  <2> QED
    BY <1>3, <1>4, NumberInduction
<1>6. f[Len(b)] = SubSeq(b, 1, Len(b))
  BY <1>2, <1>5
<1> QED
  BY <1>1, <1>6, SubSeqFull

(* What is in front of the slash of a link. *)
LEMMA BeforeLink ==
  ASSUME NEW D, NEW b \in Seq(D), NEW prefix \in Seq(D), NEW slash,
         Len(prefix) \in {1, 2}, NEW s \in LinksBehind(b, prefix, slash)
  PROVE  b[s] = slash /\ b[s - 1] = prefix[Len(prefix)]
<1>1. PICK l : l = Len(prefix)
  OBVIOUS
<1>2. l \in {1, 2} /\ DOMAIN prefix = 1 .. l /\ l \in 1 .. l
      /\ DOMAIN b = 1 .. Len(b) /\ Len(b) \in Nat
  BY <1>1, LenProperties
<1>3. /\ s \in 1 .. Len(b) /\ IsAt(b, s - l, prefix) /\ b[s] = slash
  BY <1>1, <1>2 DEF LinksBehind
<1>4. b[(s - l) + l - 1] = prefix[l]
  BY <1>2, <1>3 DEF IsAt
<1>5. (s - l) + l - 1 = s - 1
  BY <1>2, <1>3
<1> QED
  BY <1>1, <1>3, <1>4, <1>5

(* The four passes. *)
LEMMA LinksOnce ==
  ASSUME NEW D, NEW b, NEW loc, b \in Seq(D), loc \in Seq(D),
         {"/", "2f", "href", "src", "url(", "quote"} \subseteq D,
         \A j \in 1 .. Len(loc) : loc[j] \notin {"href", "src", "url("}
  PROVE  prepare_proxied_resp(b, loc) = Inserted(b, Links(b), loc)
<1>1. PICK h, r, u, e : /\ h = <<"href">> /\ r = <<"src">>
                        /\ u = <<"url(", "quote">> /\ e = <<"url(">>
  OBVIOUS
<1>2. /\ h \in Seq(D) /\ Len(h) = 1 /\ h[1] = "href"
      /\ r \in Seq(D) /\ Len(r) = 1 /\ r[1] = "src"
      /\ u \in Seq(D) /\ Len(u) = 2 /\ u[1] = "url(" /\ u[2] = "quote"
      /\ e \in Seq(D) /\ Len(e) = 1 /\ e[1] = "url("
      /\ "/" \in D /\ "2f" \in D
  BY <1>1
<1>3. PICK H, R, Q, E : /\ H = LinksBehind(b, h, "/")
                        /\ R = LinksBehind(b, r, "/")
                        /\ Q = LinksBehind(b, u, "/")
                        /\ E = LinksBehind(b, e, "2f")
  OBVIOUS
<1>4. /\ \A s \in H : b[s] = "/" /\ b[s - 1] = "href"
      /\ \A s \in R : b[s] = "/" /\ b[s - 1] = "src"
      /\ \A s \in Q : b[s] = "/" /\ b[s - 1] = "quote"
  <2>1. ASSUME NEW s \in H PROVE b[s] = "/" /\ b[s - 1] = "href"
    <3>1. b[s] = "/" /\ b[s - 1] = h[Len(h)]
      BY <1>2, <1>3, BeforeLink
    <3> QED
      BY <1>2, <3>1
  <2>2. ASSUME NEW s \in R PROVE b[s] = "/" /\ b[s - 1] = "src"
    <3>1. b[s] = "/" /\ b[s - 1] = r[Len(r)]
      BY <1>2, <1>3, BeforeLink
    <3> QED
      BY <1>2, <3>1
  <2>3. ASSUME NEW s \in Q PROVE b[s] = "/" /\ b[s - 1] = "quote"
    <3>0. s \in LinksBehind(b, u, "/") /\ u \in Seq(D) /\ Len(u) \in {1, 2}
      BY <1>2, <1>3
    <3>1. b[s] = "/" /\ b[s - 1] = u[Len(u)]
      BY <3>0, BeforeLink
    <3> QED
      BY <1>2, <3>1
  <2> QED
    BY <2>1, <2>2, <2>3
<1>5. Apart(b, {}, h, "/", loc)
  BY <1>2 DEF Apart
<1>6. Apart(b, H, r, "/", loc)
  BY <1>2, <1>4 DEF Apart
<1>7. Apart(b, H \cup R, u, "/", loc)
  BY <1>2, <1>4 DEF Apart
<1>8. Apart(b, H \cup R \cup Q, e, "2f", loc)
  BY <1>2, <1>4 DEF Apart
<1>9. replaced_absolute_paths(b, h, <<"/">>, loc) = Inserted(b, H, loc)
  <2>1. H = {} \cup LinksBehind(b, h, "/")
    BY <1>3
  <2>2. replaced_absolute_paths(Inserted(b, {}, loc), h, <<"/">>, loc)
          = Inserted(b, H, loc)
    BY <1>2, <1>5, <2>1, PassIs
  <2>3. Inserted(b, {}, loc) = b
    BY NothingInserted
  <2> QED
    BY <2>2, <2>3
<1>10. replaced_absolute_paths(Inserted(b, H, loc), r, <<"/">>, loc)
         = Inserted(b, H \cup R, loc)
  <2>1. PICK U : U = H \cup R
    OBVIOUS
  <2>2. U = H \cup LinksBehind(b, r, "/")
    BY <1>3, <2>1
  <2>3. replaced_absolute_paths(Inserted(b, H, loc), r, <<"/">>, loc)
          = Inserted(b, U, loc)
    BY <1>2, <1>6, <2>2, PassIs
  <2> QED
    BY <2>1, <2>3
<1>11. replaced_absolute_paths(Inserted(b, H \cup R, loc), u, <<"/">>, loc)
         = Inserted(b, H \cup R \cup Q, loc)
  <2>1. PICK S, U : S = H \cup R /\ U = H \cup R \cup Q
    OBVIOUS
  <2>2. U = S \cup LinksBehind(b, u, "/") /\ Apart(b, S, u, "/", loc)
    BY <1>3, <1>7, <2>1
  <2>3. replaced_absolute_paths(Inserted(b, S, loc), u, <<"/">>, loc)
          = Inserted(b, U, loc)
    BY <1>2, <2>2, PassIs
  <2> QED
    BY <2>1, <2>3
<1>12. replaced_absolute_paths(Inserted(b, H \cup R \cup Q, loc), e, <<"2f">>,
                               loc)
         = Inserted(b, H \cup R \cup Q \cup E, loc)
  <2>1. PICK S, U : S = H \cup R \cup Q /\ U = H \cup R \cup Q \cup E
    OBVIOUS
  <2>2. U = S \cup LinksBehind(b, e, "2f") /\ Apart(b, S, e, "2f", loc)
    BY <1>3, <1>8, <2>1
  <2>3. replaced_absolute_paths(Inserted(b, S, loc), e, <<"2f">>, loc)
          = Inserted(b, U, loc)
    BY <1>2, <2>2, PassIs
  <2> QED
    BY <2>1, <2>3
<1>13. Links(b) = H \cup R \cup Q \cup E
  BY <1>1, <1>3 DEF Links
<1> QED
  BY <1>1, <1>9, <1>10, <1>11, <1>12, <1>13 DEF prepare_proxied_resp
(* The four passes over what an upstream server has answered. *)
LEMMA LinksOfBody ==
  ASSUME NEW body \in Seq(STRING), NEW comps \in Seq(Names),
         NEW loc, loc = Slashed(comps)
  PROVE  \/ prepare_proxied_resp(body, loc) = Inserted(body, Links(body), loc)
         \/ \E i \in DOMAIN loc : loc[i] \in {"href", "src", "url("}
<1> DEFINE D == STRING \cup {"/", "2f", "href", "src", "url(", "quote"}
<1> SUFFICES ASSUME \A i \in DOMAIN loc : loc[i] \notin {"href", "src", "url("}
             PROVE  prepare_proxied_resp(body, loc)
                      = Inserted(body, Links(body), loc)
  OBVIOUS
<1>1. loc \in Seq(Letters)
  BY SlashedType
<1>2. STRING \subseteq D /\ Letters \subseteq D
  BY DEF Letters
<1>3. {"/", "2f", "href", "src", "url(", "quote"} \subseteq D
  OBVIOUS
<1> HIDE DEF D
<1>4. body \in Seq(D) /\ loc \in Seq(D)
  BY <1>1, <1>2, SeqMonotonic
<1>5. \A j \in 1 .. Len(loc) : loc[j] \notin {"href", "src", "url("}
  BY <1>4, LenProperties
<1> QED
  BY <1>3, <1>4, <1>5, LinksOnce
-----------------------------------------------------------------------------
(* No request is handled before the server serves. *)
LEMMA HandlersInitIInv == HandlersInit => HandlersIInv
<1> SUFFICES ASSUME HandlersInit PROVE HandlersIInv
  OBVIOUS
<1>1. IInv
  BY InitIInv DEF HandlersInit
<1>2. exchange = None /\ exchange.step = "none"
  BY DEF HandlersInit, None
<1> QED
  BY <1>1, <1>2
  DEF HandlersIInv, ExchangeIsServed, StaticStaysBelowRoot,
      ProxyIsTransparent, LinksRewrittenOnce

(* An exception in a handler leaves the registry as it is. *)
LEMMA CrashIInv ==
  ASSUME HandlersIInv, phase = "serving", Crash PROVE HandlersIInv'
<1>1. /\ phase' = "crashed" /\ exchange' = None
      /\ UNCHANGED <<config, next, location_to_handler_, type_to_handler_,
                     handler_to_prefixes_, freed>>
  BY DEF Crash
<1>2. IInv'
  BY <1>1
  DEF HandlersIInv, IInv, TypeOK, BlocksAreRegistered, RegistryIsOfBlocks,
      InOrder, FreedOnce
<1>3. exchange'.step = "none"
  BY <1>1 DEF None
<1> QED
  BY <1>1, <1>2, <1>3
  DEF HandlersIInv, ExchangeIsServed, StaticStaysBelowRoot,
      ProxyIsTransparent, LinksRewrittenOnce, None

(* Every step of the registry and of its handlers preserves HandlersIInv. *)
LEMMA HandlersNextIInv ==
  HandlersIInv /\ [HandlersNext]_allvars => HandlersIInv'
<1> SUFFICES ASSUME HandlersIInv, [HandlersNext]_allvars PROVE HandlersIInv'
  OBVIOUS
<1>i. /\ IInv /\ ExchangeIsServed /\ StaticStaysBelowRoot
      /\ ProxyIsTransparent /\ LinksRewrittenOnce
  BY DEF HandlersIInv
<1>u. UNCHANGED vars => IInv' /\ UNCHANGED <<config, phase>>
  BY <1>i, NextIInv DEF vars
<1>1. CASE exchange = None /\ Next /\ UNCHANGED exchange
  <2>1. IInv'
    BY <1>1, <1>i, NextIInv
  <2>2. exchange' = None /\ exchange'.step = "none"
    BY <1>1 DEF None
  <2> QED
    BY <2>1, <2>2
    DEF HandlersIInv, ExchangeIsServed, StaticStaysBelowRoot,
        ProxyIsTransparent, LinksRewrittenOnce, None
<1>2. ASSUME NEW request_uri \in Uris, phase = "serving", ServeFile(request_uri)
      PROVE  HandlersIInv'
  <2> DEFINE h == get_request_handler(request_uri)
             normal == convertToAbsolutePath(request_uri)
  <2>1. PICK rest \in Remainders(request_uri, h) :
          exchange' = [step |-> "file", handler |-> h, uri |-> request_uri,
                       file |-> File(h, rest)]
    BY <1>2 DEF ServeFile
  <2>2. /\ h \in DOMAIN config /\ config[h].type = "StaticHandler"
        /\ UNCHANGED vars
    BY <1>2 DEF ServeFile, IsHandler, Type
  <2>3. /\ normal \in Seq(Names) /\ Location(h) \in Seq(Names)
        /\ IsPrefix(Location(h), normal)
    BY <1>2, <1>i, <2>2, RoutedUnderLocation
  <2> DEFINE whole == \/ Location(h) = <<>>
                      \/ ~request_uri.absolute \/ HasRootName(request_uri)
  <2>4. \/ /\ Location(h) # <<>>
           /\ rest = SubSeq(normal, Len(Location(h)) + 1, Len(normal))
        \/ whole /\ rest = <<>>
    <3>1. \/ rest = relative(normal, Location(h))
          \/ (~request_uri.absolute \/ HasRootName(request_uri)) /\ rest = <<>>
      BY DEF Remainders
    <3>2. Location(h) = <<>> => relative(normal, Location(h)) = <<>>
      BY DEF relative
    <3>3. Location(h) # <<>> =>
            relative(normal, Location(h))
              = SubSeq(normal, Len(Location(h)) + 1, Len(normal))
      <4>1. PICK l, p : l = Location(h) /\ p = normal
        OBVIOUS
      <4>2. l # <<>> => relative(p, l) = SubSeq(p, Len(l) + 1, Len(p))
        BY <2>3, <4>1, RelativeIs
      <4> QED
        BY <4>1, <4>2
    <3> QED
      BY <3>1, <3>2, <3>3
  <2>5. request_uri \in Path /\ config[h].root \in Path
    BY <1>i, <2>2, RoutingAssumption, ConfigType DEF IInv, TypeOK
  <2>12. Root(h) # UB
    <3>1. h \in 1 .. next - 1 /\ config[h].type \in handler_types
      BY <1>2, <1>i, <2>2, RoutedUnderLocation
    <3> QED
      BY <1>i, <2>2, <3>1 DEF IInv, BlocksAreRegistered, Constructs, Root
  <2> HIDE DEF h, normal, whole
  <2>6. /\ exchange'.step = "file" /\ exchange'.handler = h
        /\ exchange'.uri = request_uri /\ exchange'.file = File(h, rest)
    BY <2>1
  <2>7. ExchangeIsServed'
    BY <1>2, <1>u, <2>2, <2>3, <2>5, <2>6 DEF ExchangeIsServed, Location
  <2>8. RootIsDirectory(h) =>
          /\ ~File(h, rest).glued
          /\ \/ /\ Location(h) # <<>>
                /\ File(h, rest).path = Root(h) \o SubSeq(normal,
                                          Len(Location(h)) + 1, Len(normal))
             \/ whole /\ File(h, rest).path = Root(h) \o <<>>
    BY <2>4 DEF File, RootIsDirectory
  <2>9. RootIsDirectory(h) =>
          /\ ~File(h, rest).glued
          /\ \/ /\ Location(h) # <<>>
                /\ File(h, rest).path = Root(h) \o SubSeq(normal,
                                          Len(Location(h)) + 1, Len(normal))
             \/ whole /\ File(h, rest).path = Root(h)
    <3>1. Root(h) \in Seq(Names)
      BY <2>5, <2>12, ConvertType DEF Root
    <3>2. Root(h) \o <<>> = Root(h)
      BY <3>1, ConcatEmptySeq
    <3> QED
      BY <2>8, <3>2
  <2>10. StaticStaysBelowRoot'
    BY <1>u, <2>2, <2>6, <2>9
    DEF StaticStaysBelowRoot, RootIsDirectory, Root, Location, normal, whole
  <2>11. ProxyIsTransparent' /\ LinksRewrittenOnce'
    BY <2>6 DEF ProxyIsTransparent, LinksRewrittenOnce
  <2> QED
    BY <1>u, <2>2, <2>7, <2>10, <2>11 DEF HandlersIInv
<1>3. ASSUME NEW request_uri \in Uris, phase = "serving", Forward(request_uri)
      PROVE  HandlersIInv'
  <2> DEFINE h == get_request_handler(request_uri)
             target == Text(request_uri)
  <2>1. /\ exchange' = [step |-> "forwarded", handler |-> h,
                        uri |-> request_uri,
                        target |-> proxied_target(target, LocationText(h))]
        /\ h \in DOMAIN config /\ UNCHANGED vars
    BY <1>3 DEF Forward, IsHandler
  <2>2. request_uri \in Path /\ Location(h) \in Seq(Names)
    BY <1>3, <1>i, <2>1, RoutedUnderLocation, RoutingAssumption
  <2> HIDE DEF h
  <2>3. ASSUME request_uri.absolute, IsPrefix(Location(h), request_uri.comps)
        PROVE  LET sent == proxied_target(target, LocationText(h))
               IN  /\ sent[1] = "/"
                   /\ \/ LocationText(h) \o sent = target
                      \/ LocationText(h) = target /\ sent = <<"/">>
    <3> DEFINE loc == Location(h)
               comps == SubSeq(request_uri.comps, Len(loc) + 1,
                               Len(request_uri.comps))
    <3>1. /\ request_uri.comps \in Seq(Names) /\ Len(loc) \in Nat
          /\ Len(loc) <= Len(request_uri.comps)
          /\ loc = SubSeq(request_uri.comps, 1, Len(loc))
      BY <2>2, <2>3 DEF Path, IsPrefix
    <3>2. comps \in Seq(Names) /\ request_uri.comps = loc \o comps
      <4> DEFINE all == request_uri.comps
                 l == Len(loc)
                 n == Len(all)
      <4>0. all \in Seq(Names) /\ l \in 0 .. n /\ n \in Nat
        BY <3>1
      <4>4. SubSeq(all, 1, l) = loc /\ comps = SubSeq(all, l + 1, n)
        BY <3>1
      <4>5. n = Len(all)
        OBVIOUS
      <4> HIDE DEF all, l, n
      <4>1. SubSeq(all, 1, l) \o SubSeq(all, l + 1, n) = SubSeq(all, 1, n)
        <5>1. /\ 1 \in 1 .. Len(all) + 1 /\ l \in 1 - 1 .. Len(all)
              /\ n \in l .. Len(all)
          BY <4>0, <4>5
        <5> QED
          BY <4>0, <5>1, ConcatAdjacentSubSeq, Zenon
      <4>2. SubSeq(all, 1, n) = all
        BY <4>0, <4>5, SubSeqFull
      <4>3. SubSeq(all, l + 1, n) \in Seq(Names)
        BY <4>0, <4>5, SubSeqProperties
      <4> QED
        BY <4>1, <4>2, <4>3, <4>4 DEF all
    <3> HIDE DEF comps
    <3>3. /\ proxied_target(target, Slashed(loc))
               = IF comps = <<>> THEN <<"/">> ELSE Slashed(comps)
          /\ loc = <<>> /\ comps = <<>> => target = <<"/">>
          /\ ~(loc = <<>> /\ comps = <<>>) =>
               target = Slashed(loc) \o Slashed(comps)
      <4>1. PICK l, c : l = loc /\ c = comps
        OBVIOUS
      <4>2. /\ l \in Seq(Names) /\ c \in Seq(Names)
            /\ request_uri.absolute /\ request_uri.comps = l \o c
        BY <2>2, <2>3, <3>2, <4>1
      <4>3. Below(request_uri, l, c)
        BY <4>2, TextBelow
      <4> QED
        BY <4>1, <4>3 DEF Below
    <3>4. /\ Slashed(loc) \in Seq(Letters)
          /\ comps # <<>> => Slashed(comps)[1] = "/"
          /\ Slashed(<<>>) = <<>>
      BY <2>2, <3>2, SlashedType, SlashedStarts
    <3>5. Slashed(loc) \o <<>> = Slashed(loc)
      BY <3>4, ConcatEmptySeq
    <3>6. <<>> \o <<"/">> = <<"/">>
      OBVIOUS
    <3>7. LocationText(h) = Slashed(loc)
      BY DEF LocationText
    <3> HIDE DEF loc, target
    <3>8. CASE comps = <<>> /\ loc = <<>>
      <4>1. /\ proxied_target(target, LocationText(h)) = <<"/">>
            /\ LocationText(h) = <<>> /\ target = <<"/">>
        BY <3>3, <3>4, <3>7, <3>8
      <4>2. <<"/">>[1] = "/"
        OBVIOUS
      <4> QED
        BY <3>6, <4>1, <4>2
    <3>9. CASE comps = <<>> /\ loc # <<>>
      BY <3>3, <3>4, <3>5, <3>7, <3>9
    <3>10. CASE comps # <<>>
      BY <3>3, <3>4, <3>7, <3>10
    <3> QED
      BY <3>8, <3>9, <3>10
  <2>4. /\ exchange'.step = "forwarded" /\ exchange'.handler = h
        /\ exchange'.uri = request_uri
        /\ exchange'.target = proxied_target(target, LocationText(h))
    BY <2>1
  <2>5. ExchangeIsServed'
    BY <1>3, <1>u, <2>1, <2>2, <2>4 DEF ExchangeIsServed, Location
  <2>6. StaticStaysBelowRoot' /\ LinksRewrittenOnce'
    BY <2>4 DEF StaticStaysBelowRoot, LinksRewrittenOnce
  <2>7. ProxyIsTransparent'
    BY <1>u, <2>1, <2>3, <2>4 DEF ProxyIsTransparent, Location, LocationText
  <2> QED
    BY <1>u, <2>1, <2>5, <2>6, <2>7 DEF HandlersIInv
<1>4. ASSUME NEW request_uri \in Uris, phase = "serving",
             SubstrThrows(request_uri) \/ BadTarget(request_uri)
      PROVE  HandlersIInv'
  BY <1>4, CrashIInv DEF SubstrThrows, BadTarget
<1>5. CASE UpstreamFails
  BY <1>5, <1>i, CrashIInv DEF UpstreamFails, ExchangeIsServed
<1>6. ASSUME NEW resp \in Responses, Reply(resp) PROVE HandlersIInv'
  <2>0. PICK h : h = exchange.handler
    OBVIOUS
  <2>10. PICK followed : followed = redirect(resp, h)
    OBVIOUS
  <2>1. /\ exchange' = [step |-> "replied", handler |-> h, upstream |-> resp,
                        location |-> followed,
                        body |-> prepare_proxied_resp(resp.body, LocationText(h))]
        /\ exchange.step = "forwarded" /\ UNCHANGED vars
    BY <1>6, <2>0, <2>10 DEF Reply
  <2>2. /\ phase = "serving" /\ h \in DOMAIN config
        /\ Location(h) \in Seq(Names)
    BY <1>i, <2>0, <2>1 DEF ExchangeIsServed
  <2>3. /\ exchange'.step = "replied" /\ exchange'.handler = h
        /\ exchange'.upstream = resp /\ exchange'.location = followed
    BY <2>1
  <2>4. ProxyIsTransparent'
    <3> DEFINE named == resp.location
    <3>1. CASE resp.redirect /\ named # NoHeader /\ named.absolute
      <4>1. named \in Path /\ named.comps \in Seq(Names)
        BY <3>1, ResponsesAssumption DEF Path
      <4>2. followed.absolute /\ followed.comps = Location(h) \o named.comps
        BY <2>10, <3>1, <4>1 DEF redirect, Path
      <4> HIDE DEF named
      <4>3. /\ IsPrefix(LocationText(h), Text(followed))
            /\ proxied_target(Text(followed), LocationText(h))
                 = IF named.comps = <<>> THEN <<"/">> ELSE Slashed(named.comps)
        <5>1. PICK loc, comps : loc = Location(h) /\ comps = named.comps
          OBVIOUS
        <5>2. /\ loc \in Seq(Names) /\ comps \in Seq(Names)
              /\ followed.absolute /\ followed.comps = loc \o comps
          BY <2>2, <4>1, <4>2, <5>1
        <5>3. /\ IsPrefix(Slashed(loc), Text(followed))
              /\ proxied_target(Text(followed), Slashed(loc))
                   = IF comps = <<>> THEN <<"/">> ELSE Slashed(comps)
          <6>1. Below(followed, loc, comps)
            BY <5>2, TextBelow
          <6> QED
            BY <6>1 DEF Below
        <5> QED
          BY <5>1, <5>3 DEF LocationText
      <4>4. Text(named) = IF named.comps = <<>> THEN <<"/">>
                          ELSE Slashed(named.comps)
        BY <3>1 DEF Text
      <4>5. LocationText(h)' = LocationText(h)
        BY <1>u, <2>1 DEF LocationText, Location
      <4> QED
        BY <2>3, <3>1, <4>3, <4>4, <4>5
        DEF ProxyIsTransparent, named
    <3>2. CASE ~(resp.redirect /\ named # NoHeader /\ named.absolute)
      <4>1. followed = named
        BY <2>10, <3>2 DEF redirect
      <4> QED
        BY <2>3, <3>2, <4>1 DEF ProxyIsTransparent
    <3> QED
      BY <3>1, <3>2
  <2>5. ExchangeIsServed' /\ StaticStaysBelowRoot'
    BY <1>u, <2>1, <2>2, <2>3
    DEF ExchangeIsServed, StaticStaysBelowRoot, Location
  <2>6. LinksRewrittenOnce'
    <3>1. PICK body, loc : body = resp.body /\ loc = LocationText(h)
      OBVIOUS
    <3>2. prepare_proxied_resp(body, loc) = Inserted(body, Links(body), loc)
            \/ \E i \in DOMAIN loc : loc[i] \in {"href", "src", "url("}
      BY <2>2, <3>1, ResponsesAssumption, LinksOfBody DEF LocationText
    <3>3. exchange'.body = prepare_proxied_resp(body, loc)
      BY <2>1, <3>1
    <3>4. LocationText(h)' = loc
      BY <1>u, <2>1, <3>1 DEF LocationText, Location
    <3> QED
      BY <2>3, <3>1, <3>2, <3>3, <3>4 DEF LinksRewrittenOnce
  <2> QED
    BY <1>u, <2>1, <2>4, <2>5, <2>6 DEF HandlersIInv
<1>7. CASE Respond
  <2>1. exchange' = None /\ exchange'.step = "none" /\ UNCHANGED vars
    BY <1>7 DEF Respond, None
  <2> QED
    BY <1>u, <2>1
    DEF HandlersIInv, ExchangeIsServed, StaticStaysBelowRoot,
        ProxyIsTransparent, LinksRewrittenOnce, None
<1>8. CASE UNCHANGED allvars
  <2>1. UNCHANGED vars /\ UNCHANGED exchange
    BY <1>8 DEF allvars, vars
  <2>3. ExchangeIsServed' /\ StaticStaysBelowRoot'
    BY <1>i, <1>u, <2>1
    DEF ExchangeIsServed, StaticStaysBelowRoot, Location, Root,
        RootIsDirectory
  <2>4. ProxyIsTransparent'
    BY <1>i, <1>u, <2>1
    DEF ProxyIsTransparent, Location, LocationText
  <2>5. LinksRewrittenOnce'
    BY <1>i, <1>u, <2>1 DEF LinksRewrittenOnce, Location, LocationText
  <2> QED
    BY <1>u, <2>1, <2>3, <2>4, <2>5 DEF HandlersIInv
<1> QED
  BY <1>1, <1>2, <1>3, <1>4, <1>5, <1>6, <1>7, <1>8 DEF HandlersNext
-----------------------------------------------------------------------------
(* HandlersIInv holds in every state of the registry and its handlers,     *)
(* whatever locations the configuration has and whatever is requested.     *)
THEOREM Invariance == HandlersSpec => []HandlersIInv
  BY HandlersInitIInv, HandlersNextIInv, PTL DEF HandlersSpec

(* The maps of the registry keep their types: the handlers in them are     *)
(* numbers of blocks and the lists of prefixes are lists of paths.         *)
THEOREM TypeCorrect == HandlersSpec => []TypeOK
<1>1. HandlersIInv => TypeOK
  BY DEF HandlersIInv, IInv
<1> QED
  BY <1>1, Invariance, PTL

(* convertToAbsolutePath keeps of every path exactly the names that no     *)
(* later ".." takes back, in order, and is undefined exactly when the path *)
(* leads above the root directory.                                         *)
THEOREM PathsAreNormalised == HandlersSpec => []NormalisedRight
<1>1. HandlersIInv => NormalisedRight
  BY AllNormalised DEF HandlersIInv, IInv
<1> QED
  BY <1>1, Invariance, PTL

(* get_request_handler finds the handler of the longest configured         *)
(* location that the normal target lies under, that of the last block      *)
(* among equals, and null exactly when there is none.                      *)
THEOREM RoutesToLongestPrefix == HandlersSpec => []LongestPrefixWins
<1>1. HandlersIInv => LongestPrefixWins
  BY LongestPrefix DEF HandlersIInv
<1> QED
  BY <1>1, Invariance, PTL

(* get_handler_type finds, for every handler that a request may be routed  *)
(* to, the type that its block is configured with.                         *)
THEOREM StatusNamesTheTypes == HandlersSpec => []TypeIsConfigured
<1>1. HandlersIInv => TypeIsConfigured
  BY TypeOfHandler DEF HandlersIInv
<1> QED
  BY <1>1, Invariance, PTL

(* ~server deletes no handler twice, and every one in the map of locations *)
(* once, however often a location is configured.                           *)
THEOREM EachHandlerFreedOnce == HandlersSpec => []FreedOnce
<1>1. HandlersIInv => FreedOnce
  BY DEF HandlersIInv, IInv
<1> QED
  BY <1>1, Invariance, PTL

(* A static handler whose root is a directory never names a file outside   *)
(* it, whatever dots, double slashes and components the target has: it is  *)
(* the root with what the target has behind the location, or the root.     *)
THEOREM StaticServesBelowRoot == HandlersSpec => []StaticStaysBelowRoot
<1>1. HandlersIInv => StaticStaysBelowRoot
  BY DEF HandlersIInv
<1> QED
  BY <1>1, Invariance, PTL

(* What the reverse proxy forwards, of a target that begins with the       *)
(* location, and what it does to a redirect to a path are inverses: the    *)
(* text of the location goes and comes back.                               *)
THEOREM ProxyUndoesItself == HandlersSpec => []ProxyIsTransparent
<1>1. HandlersIInv => ProxyIsTransparent
  BY DEF HandlersIInv
<1> QED
  BY <1>1, Invariance, PTL

(* The links of a proxied page lead back through the proxy: in bodies of   *)
(* any length, the four passes of prepare_proxied_resp put the location in *)
(* front of every link with an absolute path, once, and change nothing     *)
(* else.                                                                   *)
THEOREM LinksAreRewritten == HandlersSpec => []LinksRewrittenOnce
<1>1. HandlersIInv => LinksRewrittenOnce
  BY DEF HandlersIInv
<1> QED
  BY <1>1, Invariance, PTL
=============================================================================
