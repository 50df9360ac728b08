--------------------------- MODULE Storage_proofs ---------------------------
(* Proofs about the StorageManager and the PersistentStore.  What they      *)
(* promise is a bound on a sum over applications, namespaces or keys; the   *)
(* lemmas about sums come first and both proofs rest on them.               *)
(*                                                                          *)
(* StorageManager: the weight of an application, its quota or, if that is   *)
(* more, what it has used, is what no call lets grow beyond what            *)
(* CreateStorage has made sure of (LighterFits, EnoughFits, FitsKept); a    *)
(* start alone may, if it makes an entry grow.  That the entries and the    *)
(* properties agree is inductive by itself (QuotasKept).                    *)
(*                                                                          *)
(* PersistentStore: StoreInv.  The tables are within their bounds, and so is*)
(* the backup, which a start may take for them.                             *)
EXTENDS StorageManager, FiniteSetTheorems, WellFoundedInduction, TLAPS

(* The parameters and the state of the PersistentStore.                      *)
CONSTANTS Ns, Key, Length, Thread, maxSize, limit, Limit, StoreFailing
VARIABLES tables, backup, corrupt, start, caller

PS == INSTANCE PersistentStore WITH Failing <- StoreFailing

-----------------------------------------------------------------------------
(* Sums over a finite set.  MapThenSumSet takes an operator, a lemma cannot: *)
(* Sum is the same fold of a function, and the lemmas below bring each sum   *)
(* of the modules to this form.                                              *)
Pick(S) == CHOOSE x \in S : TRUE

Fold(f, S, g) == [T \in SUBSET S |-> IF T = {} THEN 0 ELSE f[Pick(T)] + g[T \ {Pick(T)}]]

Partial(f, S) == CHOOSE g : g = Fold(f, S, g)

Sum(f, S) == Partial(f, S)[S]

(* What fails for a set fails for a smaller one, down to the empty set.      *)
LEMMA LeastSet ==
  ASSUME NEW S, IsFiniteSet(S), NEW Bad \in SUBSET (SUBSET S),
         \A T \in Bad : T # {} /\ T \ {Pick(T)} \in Bad
  PROVE  Bad = {}
<1> SUFFICES ASSUME Bad # {} PROVE FALSE
  OBVIOUS
<1> DEFINE Sizes == {Cardinality(T) : T \in Bad}
<1>1. \A T \in Bad : IsFiniteSet(T) /\ Cardinality(T) \in Nat
  BY FS_Subset, FS_CardinalityType
<1>2. Sizes \subseteq Nat /\ Sizes # {}
  BY <1>1
<1>3. PICK n \in Sizes : \A m \in Sizes : ~(<<m, n>> \in OpToRel(<, Nat))
  <2> HIDE DEF Sizes
  <2> QED BY <1>2, NatLessThanWellFounded, WFMin, Zenon
<1>4. PICK T \in Bad : n = Cardinality(T)
  BY DEF Sizes
<1>5. Pick(T) \in T
  BY DEF Pick
<1>6. Cardinality(T \ {Pick(T)}) = n - 1
  BY <1>1, <1>4, <1>5, FS_RemoveElement
<1>7. n - 1 \in Sizes
  BY <1>6
<1>8. n \in Nat /\ n - 1 \in Nat /\ n - 1 < n
  <2> HIDE DEF Sizes
  <2> QED BY <1>2, <1>7
<1>9. <<n - 1, n>> \in OpToRel(<, Nat)
  BY <1>8 DEF OpToRel
<1> QED
  BY <1>3, <1>7, <1>9

(* The fold exists for every finite set.                                     *)
LEMMA FoldExists ==
  ASSUME NEW S, IsFiniteSet(S), NEW f
  PROVE  Partial(f, S) = Fold(f, S, Partial(f, S))
<1> DEFINE Small(n) == {T \in SUBSET S : Cardinality(T) <= n}
           Upto(n, g) == g = [T \in Small(n) |-> IF T = {} THEN 0 ELSE f[Pick(T)] + g[T \ {Pick(T)}]]
           Bad == {n \in Nat : ~ \E g : Upto(n, g)}
<1>0. \A T \in SUBSET S : IsFiniteSet(T) /\ Cardinality(T) \in Nat /\ (Cardinality(T) = 0 => T = {})
  BY FS_Subset, FS_CardinalityType, FS_EmptySet
<1>1. Bad = {}
  <2> SUFFICES ASSUME Bad # {} PROVE FALSE
    OBVIOUS
  <2>1. PICK n \in Bad : \A m \in Bad : ~(<<m, n>> \in OpToRel(<, Nat))
    <3>1. Bad \subseteq Nat
      OBVIOUS
    <3> HIDE DEF Bad
    <3> QED BY <3>1, NatLessThanWellFounded, WFMin, Zenon
  <2>2. n # 0
    <3> SUFFICES ASSUME n = 0 PROVE FALSE
      OBVIOUS
    <3> DEFINE g == [T \in Small(0) |-> 0]
    <3>1. \A T \in Small(0) : T = {}
      BY <1>0
    <3>2. Upto(0, g)
      BY <3>1
    <3> QED BY <3>2
  <2>3. n - 1 \in Nat /\ <<n - 1, n>> \in OpToRel(<, Nat)
    BY <2>2 DEF OpToRel
  <2>4. PICK h : Upto(n - 1, h)
    <3>1. n - 1 \notin Bad
      BY <2>1, <2>3
    <3> QED BY <3>1, <2>3
  <2> DEFINE g == [T \in Small(n) |-> IF T = {} THEN 0 ELSE f[Pick(T)] + h[T \ {Pick(T)}]]
  <2>5. ASSUME NEW T \in Small(n), T # {}
        PROVE  T \ {Pick(T)} \in Small(n - 1) /\ T \ {Pick(T)} \in Small(n)
    <3>1. Pick(T) \in T
      BY <2>5 DEF Pick
    <3>2. Cardinality(T \ {Pick(T)}) = Cardinality(T) - 1
      BY <1>0, <3>1, FS_RemoveElement
    <3> QED BY <1>0, <3>2
  <2>6. \A T \in Small(n - 1) : g[T] = h[T]
    <3>1. ASSUME NEW T \in Small(n - 1) PROVE g[T] = h[T]
      <4>1. T \in Small(n)
        BY <1>0
      <4>2. h[T] = IF T = {} THEN 0 ELSE f[Pick(T)] + h[T \ {Pick(T)}]
        <5> HIDE DEF Small
        <5> QED BY <2>4
      <4> HIDE DEF Small
      <4> QED BY <4>1, <4>2
    <3> QED BY <3>1
  <2>7. Upto(n, g)
    <3>1. ASSUME NEW T \in Small(n), T # {}
          PROVE  g[T \ {Pick(T)}] = h[T \ {Pick(T)}]
      <4> HIDE DEF Small, g
      <4> QED BY <3>1, <2>5, <2>6
    <3> DEFINE G == [T \in Small(n) |-> IF T = {} THEN 0 ELSE f[Pick(T)] + g[T \ {Pick(T)}]]
    <3>2. \A T \in Small(n) : g[T] = G[T]
      <4> HIDE DEF Small
      <4> QED BY <3>1
    <3> HIDE DEF Small
    <3> QED BY <3>2
  <2> QED
    <3> HIDE DEF Upto
    <3> QED BY <2>7
<1>2. Cardinality(S) \in Nat /\ Small(Cardinality(S)) = SUBSET S
  BY <1>0, FS_Subset
<1>3. PICK g : Upto(Cardinality(S), g)
  <2> HIDE DEF Upto
  <2> QED BY <1>1, <1>2
<1>4. g = Fold(f, S, g)
  BY <1>2, <1>3 DEF Fold
<1> QED
  BY <1>4 DEF Partial

FoldsTo(F, f, S) ==
  \A T \in SUBSET S :
    /\ T = {} => F[T] = 0
    /\ T # {} => /\ Pick(T) \in T /\ Pick(T) \in S /\ T \ {Pick(T)} \in SUBSET S
                 /\ F[T] = f[Pick(T)] + F[T \ {Pick(T)}]

LEMMA Unfold ==
  ASSUME NEW S, IsFiniteSet(S), NEW f
  PROVE  FoldsTo(Partial(f, S), f, S)
<1>1. Partial(f, S) = Fold(f, S, Partial(f, S))
  BY FoldExists
<1>2. \A T \in SUBSET S : T # {} => Pick(T) \in T
  BY DEF Pick
<1> QED
  BY <1>1, <1>2 DEF Fold, FoldsTo

(* A sum of integers is one.                                                 *)
LEMMA SumIsInt ==
  ASSUME NEW S, IsFiniteSet(S), NEW f \in [S -> Int]
  PROVE  (\A T \in SUBSET S : Partial(f, S)[T] \in Int) /\ Sum(f, S) \in Int
<1> DEFINE F == Partial(f, S)
           Bad == {T \in SUBSET S : F[T] \notin Int}
<1>0. FoldsTo(F, f, S)
  BY Unfold
<1>1. ASSUME NEW T \in Bad
      PROVE  T # {} /\ T \ {Pick(T)} \in Bad
  <2> HIDE DEF F
  <2>0. F[{}] = 0
    BY <1>0 DEF FoldsTo
  <2>1. T # {}
    BY <2>0
  <2>2. Pick(T) \in S /\ T \ {Pick(T)} \in SUBSET S /\ F[T] = f[Pick(T)] + F[T \ {Pick(T)}]
    BY <1>0, <2>1 DEF FoldsTo
  <2>3. f[Pick(T)] \in Int
    BY <2>2
  <2> QED BY <2>1, <2>2, <2>3
<1>2. Bad = {}
  <2> HIDE DEF Bad
  <2>1. Bad \in SUBSET (SUBSET S)
    BY DEF Bad
  <2> QED BY <1>1, <2>1, LeastSet
<1> QED
  BY <1>2 DEF F, Sum

(* A larger function has no smaller sum.                                     *)
LEMMA SumGrows ==
  ASSUME NEW S, IsFiniteSet(S), NEW f \in [S -> Int], NEW g \in [S -> Int],
         \A x \in S : f[x] <= g[x]
  PROVE  Sum(f, S) <= Sum(g, S)
<1> DEFINE F == Partial(f, S)
           G == Partial(g, S)
           Bad == {T \in SUBSET S : ~(F[T] <= G[T])}
<1>0. \A T \in SUBSET S : F[T] \in Int /\ G[T] \in Int
  BY SumIsInt
<1>f. FoldsTo(F, f, S) /\ FoldsTo(G, g, S)
  BY Unfold
<1>1. ASSUME NEW T \in Bad
      PROVE  T # {} /\ T \ {Pick(T)} \in Bad
  <2> HIDE DEF F, G
  <2>0. F[{}] = 0 /\ G[{}] = 0
    BY <1>f DEF FoldsTo
  <2>1. T # {}
    BY <2>0
  <2>2. /\ Pick(T) \in S /\ T \ {Pick(T)} \in SUBSET S
        /\ F[T] = f[Pick(T)] + F[T \ {Pick(T)}] /\ G[T] = g[Pick(T)] + G[T \ {Pick(T)}]
    BY <1>f, <2>1 DEF FoldsTo
  <2>3. f[Pick(T)] <= g[Pick(T)] /\ f[Pick(T)] \in Int /\ g[Pick(T)] \in Int
    BY <2>2
  <2> QED BY <1>0, <2>1, <2>2, <2>3
<1>2. Bad = {}
  <2> HIDE DEF Bad
  <2>1. Bad \in SUBSET (SUBSET S)
    BY DEF Bad
  <2> QED BY <1>1, <2>1, LeastSet
<1>3. F[S] <= G[S]
  <2> HIDE DEF F, G
  <2> QED BY <1>2
<1> QED
  BY <1>3 DEF Sum

(* The sum of two functions, element by element.                             *)
LEMMA SumAdds ==
  ASSUME NEW S, IsFiniteSet(S), NEW f \in [S -> Int], NEW g \in [S -> Int], NEW h \in [S -> Int],
         \A x \in S : h[x] = f[x] + g[x]
  PROVE  Sum(h, S) = Sum(f, S) + Sum(g, S)
<1> DEFINE F == Partial(f, S)
           G == Partial(g, S)
           H == Partial(h, S)
           Bad == {T \in SUBSET S : H[T] # F[T] + G[T]}
<1>0. \A T \in SUBSET S : F[T] \in Int /\ G[T] \in Int /\ H[T] \in Int
  BY SumIsInt
<1>f. FoldsTo(F, f, S) /\ FoldsTo(G, g, S) /\ FoldsTo(H, h, S)
  BY Unfold
<1>1. ASSUME NEW T \in Bad
      PROVE  T # {} /\ T \ {Pick(T)} \in Bad
  <2> HIDE DEF F, G, H
  <2>0. F[{}] = 0 /\ G[{}] = 0 /\ H[{}] = 0
    BY <1>f DEF FoldsTo
  <2>1. T # {}
    <3>1. H[T] # F[T] + G[T]
      OBVIOUS
    <3>2. T = {} => 0 # 0 + 0
      BY <2>0, <3>1, Zenon
    <3> QED BY <3>2
  <2>2. /\ Pick(T) \in S /\ T \ {Pick(T)} \in SUBSET S
        /\ F[T] = f[Pick(T)] + F[T \ {Pick(T)}] /\ G[T] = g[Pick(T)] + G[T \ {Pick(T)}]
        /\ H[T] = h[Pick(T)] + H[T \ {Pick(T)}]
    BY <1>f, <2>1 DEF FoldsTo
  <2>3. h[Pick(T)] = f[Pick(T)] + g[Pick(T)] /\ f[Pick(T)] \in Int /\ g[Pick(T)] \in Int
    BY <2>2
  <2> QED BY <1>0, <2>1, <2>2, <2>3
<1>2. Bad = {}
  <2> HIDE DEF Bad
  <2>1. Bad \in SUBSET (SUBSET S)
    BY DEF Bad
  <2> QED BY <1>1, <2>1, LeastSet
<1>3. H[S] = F[S] + G[S]
  <2> HIDE DEF F, G, H
  <2> QED BY <1>2
<1> QED
  BY <1>3 DEF Sum

(* The sum of a function that is zero but at one element.                    *)
LEMMA SumOfOne ==
  ASSUME NEW S, IsFiniteSet(S), NEW a \in S, NEW d \in Int, NEW f \in [S -> Int],
         f = [x \in S |-> IF x = a THEN d ELSE 0]
  PROVE  Sum(f, S) = d
<1> DEFINE F == Partial(f, S)
           Bad == {T \in SUBSET S : F[T] # IF a \in T THEN d ELSE 0}
<1>0. \A T \in SUBSET S : F[T] \in Int
  BY SumIsInt
<1>f. FoldsTo(F, f, S)
  BY Unfold
<1>1. ASSUME NEW T \in Bad
      PROVE  T # {} /\ T \ {Pick(T)} \in Bad
  <2> HIDE DEF F
  <2>1. T # {}
    BY <1>0, <1>f DEF FoldsTo
  <2>2. /\ Pick(T) \in T /\ T \ {Pick(T)} \in SUBSET S
        /\ F[T] = f[Pick(T)] + F[T \ {Pick(T)}]
    BY <1>f, <2>1 DEF FoldsTo
  <2>3. CASE Pick(T) = a
    <3>1. f[Pick(T)] = d /\ a \in T /\ a \notin T \ {Pick(T)}
      BY <2>2, <2>3
    <3>2. F[T \ {Pick(T)}] # 0
      BY <1>0, <2>2, <3>1
    <3> QED BY <2>1, <2>2, <3>1, <3>2
  <2>4. CASE Pick(T) # a
    <3>1. f[Pick(T)] = 0 /\ (a \in T <=> a \in T \ {Pick(T)})
      BY <2>2, <2>4
    <3>2. F[T \ {Pick(T)}] = F[T]
      BY <1>0, <2>2, <3>1
    <3> QED BY <2>1, <2>2, <3>1, <3>2
  <2> QED BY <2>3, <2>4
<1>2. Bad = {}
  <2> HIDE DEF Bad
  <2>1. Bad \in SUBSET (SUBSET S)
    BY DEF Bad
  <2> QED BY <1>1, <2>1, LeastSet
<1>3. F[S] = d
  <2> HIDE DEF F
  <2> QED BY <1>2
<1> QED
  BY <1>3 DEF Sum

(* What one element changes.                                                 *)
LEMMA SumChanges ==
  ASSUME NEW S, IsFiniteSet(S), NEW a \in S, NEW f \in [S -> Int], NEW g \in [S -> Int],
         \A x \in S \ {a} : g[x] = f[x]
  PROVE  Sum(g, S) = Sum(f, S) + (g[a] - f[a])
<1> DEFINE d == g[a] - f[a]
           e == [x \in S |-> IF x = a THEN d ELSE 0]
<1>1. e \in [S -> Int] /\ d \in Int
  OBVIOUS
<1>2. \A x \in S : g[x] = f[x] + e[x]
  OBVIOUS
<1>3. Sum(e, S) = d
  <2>1. e = [x \in S |-> IF x = a THEN d ELSE 0]
    OBVIOUS
  <2> HIDE DEF d, e
  <2> QED BY <1>1, <2>1, SumOfOne
<1>4. Sum(g, S) = Sum(f, S) + Sum(e, S)
  <2> HIDE DEF e
  <2> QED BY <1>1, <1>2, SumAdds
<1> QED
  BY <1>3, <1>4

(* Nothing adds up to nothing.                                               *)
LEMMA SumOfZeros ==
  ASSUME NEW S, IsFiniteSet(S), NEW f, f = [x \in S |-> 0]
  PROVE  f \in [S -> Int] /\ Sum(f, S) = 0
<1>1. f \in [S -> Int]
  OBVIOUS
<1>2. CASE S = {}
  <2>1. Partial(f, S)[{}] = 0
    BY Unfold DEF FoldsTo
  <2> QED BY <1>2, <2>1, Zenon DEF Sum
<1>3. ASSUME NEW a \in S PROVE Sum(f, S) = 0
  <2>1. f = [x \in S |-> IF x = a THEN 0 ELSE 0]
    OBVIOUS
  <2> QED BY <1>1, <2>1, SumOfOne
<1> QED
  BY <1>1, <1>2, <1>3

(* A sum of natural numbers is one, and no element exceeds it.               *)
LEMMA SumIsNat ==
  ASSUME NEW S, IsFiniteSet(S), NEW f \in [S -> Nat]
  PROVE  Sum(f, S) \in Nat /\ \A a \in S : f[a] <= Sum(f, S)
<1>1. f \in [S -> Int] /\ Sum(f, S) \in Int
  BY SumIsInt
<1> DEFINE Zero == [x \in S |-> 0]
<1>2. Zero \in [S -> Int] /\ \A x \in S : Zero[x] <= f[x]
  OBVIOUS
<1>3. Sum(Zero, S) = 0
  BY SumOfZeros
<1>4. Sum(Zero, S) <= Sum(f, S)
  <2> HIDE DEF Zero
  <2> QED BY <1>1, <1>2, SumGrows
<1>5. ASSUME NEW a \in S PROVE f[a] <= Sum(f, S)
  <2> DEFINE e == [x \in S |-> IF x = a THEN f[a] ELSE 0]
  <2>1. e \in [S -> Int] /\ f[a] \in Int /\ \A x \in S : e[x] <= f[x]
    OBVIOUS
  <2>2. Sum(e, S) = f[a]
    BY <2>1, SumOfOne
  <2>3. Sum(e, S) <= Sum(f, S)
    <3> HIDE DEF e
    <3> QED BY <1>1, <2>1, SumGrows
  <2> QED BY <2>2, <2>3
<1> QED
  BY <1>1, <1>3, <1>4, <1>5

-----------------------------------------------------------------------------
(* StorageManager.  Every call holds a lock, so the bound is kept by each:   *)
(* what an application weighs is its quota or, when it has used more, what   *)
(* it has used, and no call lets the sum of that exceed the file system.     *)
UsedBy(used) == [a \in App |-> IF used[a] = None THEN 0 ELSE used[a]]

Rest(info, used) ==
  [a \in App |-> IF info[a] > UsedBy(used)[a] THEN info[a] - UsedBy(used)[a] ELSE 0]

Weight(info, used) ==
  [a \in App |-> IF info[a] > UsedBy(used)[a] THEN info[a] ELSE UsedBy(used)[a]]

Fits(info, used) == Sum(Weight(info, used), App) <= Capacity

AppsAreFinite == IsFiniteSet(App)

LEMMA SpaceIsASum ==
  f_bfree = Capacity - Sum(UsedBy(usedKB), App)
<1>1. ASSUME NEW T \in SUBSET App, T # {}
      PROVE  Used(Pick(T)) = UsedBy(usedKB)[Pick(T)]
  BY <1>1 DEF UsedBy, Pick, Used
<1>2. ASSUME NEW g
      PROVE  [T \in SUBSET App |-> IF T = {} THEN 0 ELSE Used(Pick(T)) + g[T \ {Pick(T)}]]
               = Fold(UsedBy(usedKB), App, g)
  BY <1>1 DEF Fold
<1>3. (CHOOSE g : g = [T \in SUBSET App |-> IF T = {} THEN 0 ELSE Used(Pick(T)) + g[T \ {Pick(T)}]])
        = Partial(UsedBy(usedKB), App)
  BY <1>2, Zenon DEF Partial
<1>4. MapThenSumSet(Used, App)
        = (CHOOSE g : g = [T \in SUBSET App |-> IF T = {} THEN 0 ELSE Used(Pick(T)) + g[T \ {Pick(T)}]])[App]
  BY DEF MapThenSumSet, MapThenFoldSet, Pick
<1> QED
  BY <1>3, <1>4 DEF f_bfree, Sum

LEMMA ReservationIsASum ==
  ASSUME NEW info
  PROVE  ReservationSpaceKB(info) = Sum(Rest(info, usedKB), App)
<1>1. ASSUME NEW T \in SUBSET App, T # {}
      PROVE  Reserved(info, Pick(T)) = Rest(info, usedKB)[Pick(T)]
  BY <1>1 DEF UsedBy, Rest, Pick, Used, Reserved
<1>2. ASSUME NEW g
      PROVE  [T \in SUBSET App |-> IF T = {} THEN 0 ELSE Reserved(info, Pick(T)) + g[T \ {Pick(T)}]]
               = Fold(Rest(info, usedKB), App, g)
  BY <1>1 DEF Fold
<1>3. (CHOOSE g : g = [T \in SUBSET App |-> IF T = {} THEN 0 ELSE Reserved(info, Pick(T)) + g[T \ {Pick(T)}]])
        = Partial(Rest(info, usedKB), App)
  BY <1>2, Zenon DEF Partial
<1>4. ReservationSpaceKB(info)
        = (CHOOSE g : g = [T \in SUBSET App |-> IF T = {} THEN 0 ELSE Reserved(info, Pick(T)) + g[T \ {Pick(T)}]])[App]
  BY DEF ReservationSpaceKB, MapThenSumSet, MapThenFoldSet, Pick
<1> QED
  BY <1>3, <1>4 DEF Sum

Quotas == [App -> Size \cup {None, 0}]
Usages == [App -> Nat \cup {None}]

LEMMA Weights ==
  ASSUME SizeAssumption, AppsAreFinite, NEW info \in Quotas, NEW used \in Usages
  PROVE  /\ UsedBy(used) \in [App -> Nat] /\ Rest(info, used) \in [App -> Nat]
         /\ Weight(info, used) \in [App -> Nat]
         /\ Sum(UsedBy(used), App) \in Nat /\ Sum(Rest(info, used), App) \in Nat
         /\ Sum(Weight(info, used), App) = Sum(UsedBy(used), App) + Sum(Rest(info, used), App)
<1>1. /\ \A a \in App : info[a] \in Nat \cup {None} /\ used[a] \in Nat \cup {None}
      /\ None = -1
  <2>1. \A a \in App : info[a] \in Size \cup {None, 0} /\ used[a] \in Nat \cup {None}
    BY DEF Quotas, Usages
  <2>2. \A x \in Size \cup {None, 0} : x \in Nat \cup {None}
    <3>1. 0 \in Nat /\ Size \subseteq Nat
      BY DEF SizeAssumption
    <3> QED BY <3>1, Zenon
  <2> QED BY <2>1, <2>2 DEF None
<1>2. \A a \in App : UsedBy(used)[a] \in Nat
  BY <1>1 DEF UsedBy
<1>3. UsedBy(used) \in [App -> Nat]
  BY <1>2 DEF UsedBy
<1>4. \A a \in App : /\ Rest(info, used)[a] \in Nat /\ Weight(info, used)[a] \in Nat
                     /\ Weight(info, used)[a] = UsedBy(used)[a] + Rest(info, used)[a]
  <2> SUFFICES ASSUME NEW a \in App
               PROVE  /\ Rest(info, used)[a] \in Nat /\ Weight(info, used)[a] \in Nat
                      /\ Weight(info, used)[a] = UsedBy(used)[a] + Rest(info, used)[a]
    OBVIOUS
  <2> QED BY <1>1, <1>2 DEF Rest, Weight
<1>5. Rest(info, used) \in [App -> Nat] /\ Weight(info, used) \in [App -> Nat]
  BY <1>4 DEF Rest, Weight
<1>6. Sum(UsedBy(used), App) \in Nat /\ Sum(Rest(info, used), App) \in Nat
  BY <1>3, <1>5, SumIsNat DEF AppsAreFinite
<1>7. Sum(Weight(info, used), App) = Sum(UsedBy(used), App) + Sum(Rest(info, used), App)
  <2>1. UsedBy(used) \in [App -> Int] /\ Rest(info, used) \in [App -> Int] /\ Weight(info, used) \in [App -> Int]
    BY <1>3, <1>5
  <2> QED BY <1>4, <2>1, SumAdds DEF AppsAreFinite
<1> QED
  BY <1>3, <1>5, <1>6, <1>7

LEMMA FitsIsNoOvercommit ==
  ASSUME SizeAssumption, AppsAreFinite, TypeOK
  PROVE  /\ mStorageAppInfo \in Quotas /\ quotaSize \in Quotas /\ usedKB \in Usages
         /\ NoOvercommit <=> Fits(mStorageAppInfo, usedKB)
<1>1. mStorageAppInfo \in Quotas /\ quotaSize \in Quotas /\ usedKB \in Usages
  BY DEF TypeOK, Amount, Count, Quotas, Usages, SizeAssumption
<1>2. Capacity \in Nat
  BY DEF SizeAssumption
<1> QED
  BY <1>1, <1>2, Weights, SpaceIsASum, ReservationIsASum DEF NoOvercommit, Fits

(* A step that makes no application weigh more keeps the bound.              *)
LEMMA LighterFits ==
  ASSUME SizeAssumption, AppsAreFinite,
         NEW info \in Quotas, NEW used \in Usages, NEW info2 \in Quotas, NEW used2 \in Usages,
         Fits(info, used),
         \A a \in App : Weight(info2, used2)[a] <= Weight(info, used)[a]
  PROVE  Fits(info2, used2)
<1>1. Weight(info, used) \in [App -> Int] /\ Weight(info2, used2) \in [App -> Int]
  BY Weights
<1>2. Sum(Weight(info2, used2), App) <= Sum(Weight(info, used), App)
  BY <1>1, SumGrows DEF AppsAreFinite
<1>3. /\ Sum(Weight(info, used), App) \in Int /\ Sum(Weight(info2, used2), App) \in Int
      /\ Capacity \in Int
  BY <1>1, SumIsInt DEF AppsAreFinite, SizeAssumption
<1> QED
  BY <1>2, <1>3 DEF Fits

(* A quota for which there is enough storage fits.                           *)
LEMMA EnoughFits ==
  ASSUME SizeAssumption, AppsAreFinite, TypeOK, NEW a \in App, NEW size \in Size,
         hasEnoughStorageFreeSpace(Removed(mStorageAppInfo, a), size)
  PROVE  /\ Fits(Removed(mStorageAppInfo, a), usedKB)
         /\ Fits([Removed(mStorageAppInfo, a) EXCEPT ![a] = size], usedKB)
<1> DEFINE info == Removed(mStorageAppInfo, a)
           info2 == [info EXCEPT ![a] = size]
           W == Weight(info, usedKB)
           W2 == Weight(info2, usedKB)
<1>1. info \in Quotas /\ info2 \in Quotas /\ usedKB \in Usages /\ size \in Nat /\ Capacity \in Nat
  BY FitsIsNoOvercommit DEF Removed, Quotas, SizeAssumption
<1>2. /\ W \in [App -> Nat] /\ W2 \in [App -> Nat]
      /\ Sum(W, App) \in Nat
      /\ Sum(W, App) + size <= Capacity
  <2>1. Capacity - Sum(UsedBy(usedKB), App) - Sum(Rest(info, usedKB), App) >= size
    BY SpaceIsASum, ReservationIsASum DEF hasEnoughStorageFreeSpace
  <2> HIDE DEF info, info2
  <2>2. /\ W \in [App -> Nat] /\ W2 \in [App -> Nat]
        /\ Sum(UsedBy(usedKB), App) \in Nat /\ Sum(Rest(info, usedKB), App) \in Nat
        /\ Sum(W, App) = Sum(UsedBy(usedKB), App) + Sum(Rest(info, usedKB), App)
    BY <1>1, Weights
  <2> QED BY <1>1, <2>1, <2>2
<1>3. \A x \in App \ {a} : W2[x] = W[x]
  BY <1>1 DEF Weight, Quotas, Removed
<1>4. W2[a] - W[a] <= size
  <2>1. UsedBy(usedKB)[a] \in Nat
    BY <1>1, Weights
  <2>2. info2[a] = size /\ info[a] = -1
    BY FitsIsNoOvercommit DEF Removed, Quotas, None
  <2>3. W2[a] = (IF size > UsedBy(usedKB)[a] THEN size ELSE UsedBy(usedKB)[a]) /\ W[a] = UsedBy(usedKB)[a]
    BY <2>1, <2>2 DEF Weight
  <2> QED BY <1>1, <2>1, <2>3
<1>5. Sum(W2, App) = Sum(W, App) + (W2[a] - W[a])
  <2> HIDE DEF W, W2
  <2>1. W \in [App -> Int] /\ W2 \in [App -> Int]
    BY <1>2
  <2> QED BY <1>3, <2>1, SumChanges DEF AppsAreFinite
<1>6. Sum(W, App) <= Capacity /\ Sum(W2, App) <= Capacity
  <2> HIDE DEF W, W2
  <2>1. W2[a] - W[a] \in Int
    BY <1>2
  <2> QED BY <1>1, <1>2, <1>4, <1>5, <2>1
<1> QED
  BY <1>6 DEF Fits

(* What the conjuncts of the invariant come to, for the entry of one         *)
(* application.                                                              *)
LEMMA EntryOf ==
  ASSUME SizeAssumption, TypeOK, NEW a \in App
  PROVE  /\ None = -1 /\ Capacity \in Nat
         /\ mStorageAppInfo[a] \in Size \cup {None, 0} /\ mStorageAppInfo[a] \in Nat \cup {None}
         /\ quotaSize[a] \in Size \cup {None, 0} /\ quotaSize[a] \in Nat \cup {None}
         /\ usedKB[a] \in (0..Capacity) \cup {None} /\ Used(a) \in 0..Capacity
         /\ UsedBy(usedKB)[a] = Used(a)
<1>1. None = -1 /\ Capacity \in Nat /\ Size \subseteq Nat
  BY DEF None, SizeAssumption
<1>2. /\ mStorageAppInfo[a] \in Size \cup {None, 0} /\ quotaSize[a] \in Size \cup {None, 0}
      /\ usedKB[a] \in (0..Capacity) \cup {None}
  BY DEF TypeOK, Amount, Count
<1>3. Used(a) \in 0..Capacity
  BY <1>1, <1>2 DEF Used
<1>4. UsedBy(usedKB)[a] = Used(a)
  BY DEF UsedBy, Used
<1>5. mStorageAppInfo[a] \in Nat \cup {None} /\ quotaSize[a] \in Nat \cup {None}
  <2>1. 0 \in Nat
    OBVIOUS
  <2> QED BY <1>1, <1>2, <2>1, Zenon
<1> QED
  BY <1>1, <1>2, <1>3, <1>4, <1>5

LEMMA DeleteTypes ==
  ASSUME TypeOK, NEW a \in App, DeleteProperty(a) \/ ForgetProperty(a)
  PROVE  /\ quotaSize' \in [App -> Amount]
         /\ \A x \in App \ {a} : quotaSize'[x] = quotaSize[x]
<1>1. quotaSize' \in {quotaSize, Removed(quotaSize, a)}
  BY DEF DeleteProperty, MayFail, ForgetProperty
<1> QED
  BY <1>1 DEF Removed, TypeOK, Amount

(* What a start makes of the directories and properties it finds.            *)
LEMMA PopulatedTypes ==
  ASSUME NEW p \in [App -> Amount], NEW u, Populate(p, u)
  PROVE  /\ mStorageAppInfo' \in [App -> Amount] /\ failed' \subseteq App
         /\ \A a \in App : \/ mStorageAppInfo'[a] \in {None, 0}
                          \/ mStorageAppInfo'[a] = p[a]
         /\ \A a \in App \ failed' : mStorageAppInfo'[a] \in {None, Restored(p, a)}
<1>1. PICK skipped \in SUBSET App, unread \in SUBSET App :
        mStorageAppInfo' = Populated(p, u, skipped, unread) /\ failed' = unread
  BY DEF Populate
<1>2. \A a \in App : p[a] \in Amount
  OBVIOUS
<1>3. \A a \in App : Restored(p, a) \in {0, p[a]} /\ Restored(p, a) \in Amount
  BY <1>2 DEF Restored, Amount
<1>4. None \in Amount /\ 0 \in Amount
  BY DEF Amount
<1>5. \A a \in App : mStorageAppInfo'[a] = IF u[a] = None \/ a \in skipped THEN None
                                           ELSE IF a \in unread THEN 0 ELSE Restored(p, a)
  BY <1>1 DEF Populated
<1>6. mStorageAppInfo' \in [App -> Amount]
  BY <1>1, <1>3, <1>4 DEF Populated
<1> QED
  BY <1>1, <1>3, <1>5, <1>6

(* Types: Write alone adds to what is used, and only while something is free.*)
LEMMA TypesKept ==
  ASSUME SizeAssumption, AppsAreFinite, TypeOK, [Next]_storageVars
  PROVE  TypeOK'
<1>0. /\ mStorageAppInfo \in [App -> Amount] /\ quotaSize \in [App -> Amount]
      /\ usedKB \in [App -> Count \cup {None}] /\ failed \subseteq App
      /\ None \in Amount /\ 0 \in Amount /\ \A size \in Size : size \in Amount
  BY DEF TypeOK, Amount
<1>c. ASSUME NEW S, deleteDirectoryEntries(S)
      PROVE  usedKB' \in [App -> Count \cup {None}]
  <2>1. 0 \in Count
    BY DEF Count, SizeAssumption
  <2>2. PICK left \in [App -> Count] :
          usedKB' = [a \in App |-> IF a \in S /\ usedKB[a] > left[a] THEN left[a] ELSE usedKB[a]]
    BY <1>c, <2>1 DEF deleteDirectoryEntries
  <2>3. \A a \in App : left[a] \in Count /\ usedKB[a] \in Count \cup {None}
    BY <1>0, <2>2
  <2> QED BY <2>2, <2>3
<1>u. ASSUME NEW a \in App
      PROVE  Used(a) \in Count
  BY EntryOf DEF Count
<1>1. ASSUME NEW a \in App, NEW size \in Size, CreateStorage(a, size)
      PROVE  TypeOK'
  <2>1. mStorageAppInfo' \in [App -> Amount]
    BY <1>0, <1>1 DEF CreateStorage, Removed
  <2>2. usedKB' \in [App -> Count \cup {None}]
    BY <1>0, <1>1, <1>u DEF CreateStorage
  <2>3. quotaSize' \in [App -> Amount]
    <3>1. SetProperty(a, size) \/ ForgetProperty(a)
      BY <1>1 DEF CreateStorage
    <3> QED BY <1>0, <3>1, DeleteTypes DEF SetProperty
  <2>4. failed' \subseteq App
    BY <1>0, <1>1 DEF CreateStorage
  <2> QED BY <2>1, <2>2, <2>3, <2>4 DEF TypeOK
<1>2. ASSUME NEW a \in App, NEW size \in Size, KilledInCreateStorage(a, size)
      PROVE  TypeOK'
  <2>1. usedKB' \in [App -> Count \cup {None}]
    BY <1>0, <1>2, <1>u DEF KilledInCreateStorage
  <2>2. quotaSize' \in [App -> Amount] /\ Populate(quotaSize', usedKB')
    BY <1>2, DeleteTypes DEF KilledInCreateStorage
  <2> QED BY <2>1, <2>2, PopulatedTypes DEF TypeOK
<1>3. ASSUME NEW a \in App, GetStorage(a)
      PROVE  TypeOK'
  BY <1>0, <1>3, DeleteTypes DEF GetStorage, TypeOK, Removed
<1>4. ASSUME NEW a \in App, DeleteStorage(a)
      PROVE  TypeOK'
  <2>0. UNCHANGED failed
    BY <1>4 DEF DeleteStorage
  <2>1. CASE deleteDirectoryEntries({a}) /\ UNCHANGED <<mStorageAppInfo, quotaSize>>
    BY <1>0, <1>c, <2>0, <2>1 DEF TypeOK
  <2>2. CASE usedKB' = Removed(usedKB, a) /\ mStorageAppInfo' = Removed(mStorageAppInfo, a) /\ DeleteProperty(a)
    BY <1>0, <2>0, <2>2, DeleteTypes DEF TypeOK, Removed
  <2> QED BY <1>4, <2>1, <2>2 DEF DeleteStorage
<1>5. ASSUME NEW a \in App, Write(a)
      PROVE  TypeOK'
  <2>1. Sum(UsedBy(usedKB), App) < Capacity /\ Sum(UsedBy(usedKB), App) \in Nat
    <3>1. f_bfree > 0
      BY <1>5 DEF Write
    <3>2. Sum(UsedBy(usedKB), App) \in Nat /\ Capacity \in Nat
      BY FitsIsNoOvercommit, Weights DEF SizeAssumption
    <3> QED BY <3>1, <3>2, SpaceIsASum
  <2>2. UsedBy(usedKB) \in [App -> Nat]
    BY FitsIsNoOvercommit, Weights
  <2>3. UsedBy(usedKB)[a] <= Sum(UsedBy(usedKB), App)
    BY <2>2, SumIsNat DEF AppsAreFinite
  <2>4. usedKB[a] # None /\ usedKB[a] \in Nat /\ UsedBy(usedKB)[a] = usedKB[a] /\ Capacity \in Nat
    BY <1>5, EntryOf DEF Write, Used
  <2>5. usedKB[a] + 1 \in Count
    BY <2>1, <2>3, <2>4 DEF Count
  <2> QED BY <1>0, <1>5, <2>5 DEF Write, TypeOK
<1>6. ASSUME NEW a \in App, LoseDirectory(a)
      PROVE  TypeOK'
  BY <1>0, <1>6 DEF LoseDirectory, TypeOK, Removed
<1>7. ASSUME NEW S \in SUBSET App, Clear(S)
      PROVE  TypeOK'
  BY <1>0, <1>c, <1>7 DEF Clear, TypeOK
<1>8. CASE populateAppInfoCacheFromStoragePath
  BY <1>0, <1>8, PopulatedTypes DEF populateAppInfoCacheFromStoragePath, TypeOK
<1>9. ASSUME NEW a \in App, KilledInDeleteStorage(a)
      PROVE  TypeOK'
  <2>1. /\ quotaSize' \in [App -> Amount] /\ Populate(quotaSize', usedKB')
        /\ usedKB' \in [App -> Count \cup {None}]
    BY <1>0, <1>9 DEF KilledInDeleteStorage, Removed
  <2> QED BY <2>1, PopulatedTypes DEF TypeOK
<1>10. CASE UNCHANGED storageVars
  BY <1>0, <1>10 DEF storageVars, TypeOK
<1> QED
  BY <1>1, <1>2, <1>3, <1>4, <1>5, <1>6, <1>7, <1>8, <1>9, <1>10 DEF Next, Start

(* A smaller quota and less use, or none, weigh no more; nor does use within *)
(* the quota.                                                                *)
LEMMA WeightFalls ==
  ASSUME SizeAssumption, NEW x \in App,
         NEW info \in Quotas, NEW used \in Usages, NEW info2 \in Quotas, NEW used2 \in Usages,
         info2[x] <= info[x] \/ info2[x] <= 0,
         used2[x] <= used[x] \/ used2[x] <= info[x] \/ used2[x] <= 0
  PROVE  Weight(info2, used2)[x] <= Weight(info, used)[x]
<1>1. /\ None = -1
      /\ info[x] \in Nat \cup {None} /\ info2[x] \in Nat \cup {None}
      /\ used[x] \in Nat \cup {None} /\ used2[x] \in Nat \cup {None}
  <2>1. /\ info[x] \in Size \cup {None, 0} /\ info2[x] \in Size \cup {None, 0}
        /\ used[x] \in Nat \cup {None} /\ used2[x] \in Nat \cup {None}
    BY DEF Quotas, Usages
  <2>2. 0 \in Nat /\ Size \subseteq Nat
    BY DEF SizeAssumption
  <2>3. info[x] \in Nat \cup {None} /\ info2[x] \in Nat \cup {None}
    BY <2>1, <2>2, Zenon
  <2> QED BY <2>1, <2>3 DEF None
<1>2. /\ UsedBy(used)[x] = IF used[x] = None THEN 0 ELSE used[x]
      /\ UsedBy(used2)[x] = IF used2[x] = None THEN 0 ELSE used2[x]
  BY DEF UsedBy
<1>3. /\ Weight(info, used)[x] = IF info[x] > UsedBy(used)[x] THEN info[x] ELSE UsedBy(used)[x]
      /\ Weight(info2, used2)[x] = IF info2[x] > UsedBy(used2)[x] THEN info2[x] ELSE UsedBy(used2)[x]
  BY DEF Weight
<1> QED
  BY <1>1, <1>2, <1>3

(* A step that lets no entry grow but the one CreateStorage has found room   *)
(* for keeps the bound.                                                      *)
LEMMA FitsKept ==
  ASSUME SizeAssumption, AppsAreFinite, TypeOK, TypeOK', Fits(mStorageAppInfo, usedKB),
         [Next]_storageVars,
         ~(Start /\ \E a \in App : mStorageAppInfo'[a] > mStorageAppInfo[a])
  PROVE  Fits(mStorageAppInfo, usedKB)'
<1>0. /\ mStorageAppInfo \in Quotas /\ quotaSize \in Quotas /\ usedKB \in Usages
      /\ mStorageAppInfo' \in Quotas /\ quotaSize' \in Quotas /\ usedKB' \in Usages
      /\ None = -1
  <2>1. usedKB' \in Usages /\ usedKB \in Usages
    BY DEF TypeOK, Count, Usages, SizeAssumption
  <2> QED BY <2>1 DEF TypeOK, Amount, Quotas, None
<1>i. \A a \in App : /\ mStorageAppInfo[a] \in Int /\ mStorageAppInfo'[a] \in Int
                     /\ usedKB[a] \in Int /\ usedKB'[a] \in Int
  <2>1. \A a \in App : /\ mStorageAppInfo[a] \in Size \cup {None, 0} /\ mStorageAppInfo'[a] \in Size \cup {None, 0}
                       /\ usedKB[a] \in Nat \cup {None} /\ usedKB'[a] \in Nat \cup {None}
    BY <1>0 DEF Quotas, Usages
  <2>2. None \in Int /\ 0 \in Int /\ Nat \subseteq Int /\ \A x \in Size : x \in Int
    BY DEF SizeAssumption, None
  <2> QED BY <2>1, <2>2, Zenon
<1>l. ASSUME \A a \in App :
               /\ mStorageAppInfo'[a] <= mStorageAppInfo[a] \/ mStorageAppInfo'[a] <= 0
               /\ usedKB'[a] <= usedKB[a] \/ usedKB'[a] <= mStorageAppInfo[a] \/ usedKB'[a] <= 0
      PROVE  Fits(mStorageAppInfo, usedKB)'
  <2>1. \A a \in App : Weight(mStorageAppInfo', usedKB')[a] <= Weight(mStorageAppInfo, usedKB)[a]
    BY <1>0, <1>l, WeightFalls
  <2>2. Fits(mStorageAppInfo', usedKB')
    BY <1>0, <2>1, LighterFits
  <2> QED BY <2>2 DEF Fits, Weight, UsedBy
<1>c. ASSUME NEW S, deleteDirectoryEntries(S), UNCHANGED mStorageAppInfo
      PROVE  Fits(mStorageAppInfo, usedKB)'
  <2>1. ASSUME NEW a \in App
        PROVE  usedKB'[a] <= usedKB[a]
    <3>1. 0 \in Count
      BY DEF Count, SizeAssumption
    <3>2. PICK left \in [App -> Count] :
            usedKB' = [x \in App |-> IF x \in S /\ usedKB[x] > left[x] THEN left[x] ELSE usedKB[x]]
      BY <1>c, <3>1 DEF deleteDirectoryEntries
    <3>3. left[a] \in Nat /\ usedKB'[a] = IF a \in S /\ usedKB[a] > left[a] THEN left[a] ELSE usedKB[a]
      BY <3>2 DEF Count
    <3> QED BY <1>i, <3>3
  <2> QED BY <1>c, <1>i, <1>l, <2>1
<1>s. ASSUME Start, \A a \in App : usedKB'[a] <= usedKB[a] \/ usedKB'[a] <= 0
      PROVE  Fits(mStorageAppInfo, usedKB)'
  BY <1>i, <1>l, <1>s
<1>1. ASSUME NEW a \in App, NEW size \in Size, CreateStorage(a, size)
      PROVE  Fits(mStorageAppInfo, usedKB)'
  <2>1. CASE /\ hasEnoughStorageFreeSpace(Removed(mStorageAppInfo, a), size)
             /\ mStorageAppInfo' = [Removed(mStorageAppInfo, a) EXCEPT ![a] = size]
             /\ usedKB' = [usedKB EXCEPT ![a] = Used(a)]
    <3>1. Fits(mStorageAppInfo', usedKB)
      BY <2>1, EnoughFits
    <3>2. \A x \in App : usedKB'[x] <= usedKB[x] \/ usedKB'[x] <= 0
      BY <1>0, <1>i, <2>1 DEF Used, Usages
    <3>3. \A x \in App : Weight(mStorageAppInfo', usedKB')[x] <= Weight(mStorageAppInfo', usedKB)[x]
      BY <1>0, <1>i, <3>2, WeightFalls
    <3>4. Fits(mStorageAppInfo', usedKB')
      BY <1>0, <3>1, <3>3, LighterFits
    <3> QED BY <3>4 DEF Fits, Weight, UsedBy
  <2>2. CASE mStorageAppInfo' = Removed(mStorageAppInfo, a) /\ UNCHANGED usedKB
    <3>1. \A x \in App : mStorageAppInfo'[x] <= mStorageAppInfo[x] \/ mStorageAppInfo'[x] <= 0
      BY <1>0, <1>i, <2>2 DEF Removed, Quotas
    <3> QED BY <1>i, <1>l, <2>2, <3>1
  <2> QED BY <1>1, <2>1, <2>2 DEF CreateStorage
<1>2. ASSUME NEW a \in App, NEW size \in Size, KilledInCreateStorage(a, size)
      PROVE  Fits(mStorageAppInfo, usedKB)'
  <2>1. Start /\ usedKB' = [usedKB EXCEPT ![a] = Used(a)]
    BY <1>2 DEF KilledInCreateStorage, Start
  <2>2. \A x \in App : usedKB'[x] <= usedKB[x] \/ usedKB'[x] <= 0
    BY <1>0, <1>i, <2>1 DEF Used, Usages
  <2> QED BY <1>s, <2>1, <2>2
<1>3. ASSUME NEW a \in App, GetStorage(a)
      PROVE  Fits(mStorageAppInfo, usedKB)'
  <2>1. mStorageAppInfo' = Removed(mStorageAppInfo, a) /\ UNCHANGED usedKB
    BY <1>3 DEF GetStorage
  <2>2. \A x \in App : mStorageAppInfo'[x] <= mStorageAppInfo[x] \/ mStorageAppInfo'[x] <= 0
    BY <1>0, <1>i, <2>1 DEF Removed, Quotas
  <2> QED BY <1>i, <1>l, <2>1, <2>2
<1>4. ASSUME NEW a \in App, DeleteStorage(a)
      PROVE  Fits(mStorageAppInfo, usedKB)'
  <2>1. CASE deleteDirectoryEntries({a}) /\ UNCHANGED <<mStorageAppInfo, quotaSize>>
    BY <1>c, <2>1
  <2>2. CASE usedKB' = Removed(usedKB, a) /\ mStorageAppInfo' = Removed(mStorageAppInfo, a)
    <3>1. \A x \in App : /\ mStorageAppInfo'[x] <= mStorageAppInfo[x] \/ mStorageAppInfo'[x] <= 0
                         /\ usedKB'[x] <= usedKB[x] \/ usedKB'[x] <= 0
      BY <1>0, <1>i, <2>2 DEF Removed, Quotas, Usages
    <3> QED BY <1>l, <3>1
  <2> QED BY <1>4, <2>1, <2>2 DEF DeleteStorage
<1>5. ASSUME NEW a \in App, Write(a)
      PROVE  Fits(mStorageAppInfo, usedKB)'
  <2>1. /\ UNCHANGED mStorageAppInfo /\ usedKB' = [usedKB EXCEPT ![a] = @ + 1]
        /\ usedKB[a] < mStorageAppInfo[a]
    BY <1>5 DEF Write
  <2>2. \A x \in App : usedKB'[x] <= usedKB[x] \/ usedKB'[x] <= mStorageAppInfo[x]
    BY <1>0, <1>i, <2>1 DEF Usages
  <2> QED BY <1>i, <1>l, <2>1, <2>2
<1>6. ASSUME NEW a \in App, LoseDirectory(a)
      PROVE  Fits(mStorageAppInfo, usedKB)'
  <2>1. UNCHANGED mStorageAppInfo /\ usedKB' = Removed(usedKB, a)
    BY <1>6 DEF LoseDirectory
  <2>2. \A x \in App : usedKB'[x] <= usedKB[x] \/ usedKB'[x] <= 0
    BY <1>0, <1>i, <2>1 DEF Removed, Usages
  <2> QED BY <1>i, <1>l, <2>1, <2>2
<1>7. ASSUME NEW S \in SUBSET App, Clear(S)
      PROVE  Fits(mStorageAppInfo, usedKB)'
  BY <1>c, <1>7 DEF Clear
<1>8. CASE populateAppInfoCacheFromStoragePath
  <2>1. Start /\ UNCHANGED usedKB
    BY <1>8 DEF populateAppInfoCacheFromStoragePath, Start
  <2> QED BY <1>i, <1>s, <2>1
<1>9. ASSUME NEW a \in App, KilledInDeleteStorage(a)
      PROVE  Fits(mStorageAppInfo, usedKB)'
  <2>1. Start /\ usedKB' = Removed(usedKB, a)
    BY <1>9 DEF KilledInDeleteStorage, Start
  <2>2. \A x \in App : usedKB'[x] <= usedKB[x] \/ usedKB'[x] <= 0
    BY <1>0, <1>i, <2>1 DEF Removed, Usages
  <2> QED BY <1>s, <2>1, <2>2
<1>10. CASE UNCHANGED storageVars
  BY <1>10 DEF storageVars, Fits, Weight, UsedBy
<1> QED
  BY <1>1, <1>2, <1>3, <1>4, <1>5, <1>6, <1>7, <1>8, <1>9, <1>10 DEF Next, Start

(* TypeOK, for every number of applications: nothing uses more than the file *)
(* system holds, and no entry or property is of a size nobody asked for      *)
(* (RequestHandler).                                                         *)
THEOREM StorageTypeCorrect ==
  ASSUME SizeAssumption, AppsAreFinite
  PROVE  Spec => []TypeOK
<1>1. Init => TypeOK
  BY DEF Init, TypeOK, Amount
<1>2. TypeOK /\ [Next]_storageVars => TypeOK'
  BY TypesKept
<1> QED
  BY <1>1, <1>2, PTL DEF Spec

(* CallsDoNotOvercommit: whatever calls, failures, lost directories, kills   *)
(* and starts came before, and whatever the last start took for the quotas,  *)
(* no call promises more than the file system holds; only a start that gives *)
(* an application more than it had may, for any number of applications, any  *)
(* sizes and any capacity (RequestHandler::hasEnoughStorageFreeSpace).       *)
THEOREM CallsNeverOvercommit ==
  ASSUME SizeAssumption, AppsAreFinite
  PROVE  Spec => CallsDoNotOvercommit
<1>1. TypeOK => (NoOvercommit <=> Fits(mStorageAppInfo, usedKB))
  BY FitsIsNoOvercommit
<1>2. /\ TypeOK /\ TypeOK' /\ Fits(mStorageAppInfo, usedKB) /\ [Next]_storageVars
      => \/ Fits(mStorageAppInfo, usedKB)'
         \/ Start /\ \E a \in App : mStorageAppInfo'[a] > mStorageAppInfo[a]
  BY FitsKept
<1> QED
  BY <1>1, <1>2, StorageTypeCorrect, PTL DEF Spec, CallsDoNotOvercommit

(* RestartKeepsQuota is inductive by itself: a property that is not deleted  *)
(* belongs to an entry that is, and one that is not set to one that is       *)
(* marked.                                                                   *)
LEMMA QuotasKept ==
  ASSUME TypeOK, TypeOK', RestartKeepsQuota, [Next]_storageVars
  PROVE  RestartKeepsQuota'
<1>0. /\ mStorageAppInfo \in [App -> Amount] /\ quotaSize \in [App -> Amount]
      /\ usedKB \in [App -> Count \cup {None}]
  BY DEF TypeOK
<1>k. ASSUME failed \subseteq failed',
             \A x \in App \ failed' : mStorageAppInfo'[x] # None =>
               mStorageAppInfo'[x] = mStorageAppInfo[x] /\ quotaSize'[x] = quotaSize[x]
      PROVE  RestartKeepsQuota'
  BY <1>k DEF RestartKeepsQuota, Restored
<1>p. ASSUME Populate(quotaSize', usedKB')
      PROVE  RestartKeepsQuota'
  <2>1. \A a \in App \ failed' : mStorageAppInfo'[a] \in {None, Restored(quotaSize', a)}
    BY <1>p, PopulatedTypes DEF TypeOK
  <2> QED BY <2>1 DEF RestartKeepsQuota, Restored
<1>1. ASSUME NEW a \in App, NEW size \in Size, CreateStorage(a, size)
      PROVE  RestartKeepsQuota'
  <2>1. \A x \in App \ {a} : mStorageAppInfo'[x] = mStorageAppInfo[x]
    BY <1>0, <1>1 DEF CreateStorage, Removed
  <2>2. \A x \in App \ {a} : quotaSize'[x] = quotaSize[x]
    <3>1. SetProperty(a, size) \/ ForgetProperty(a)
      BY <1>1 DEF CreateStorage
    <3> QED BY <1>0, <3>1, DeleteTypes DEF SetProperty
  <2>3. \/ mStorageAppInfo'[a] = None
        \/ mStorageAppInfo'[a] = size /\ quotaSize'[a] = size
        \/ a \in failed'
    BY <1>0, <1>1 DEF CreateStorage, SetProperty, Removed
  <2>4. \A x \in App \ {a} : x \in failed => x \in failed'
    BY <1>1 DEF CreateStorage
  <2>5. ASSUME NEW x \in App \ failed', mStorageAppInfo'[x] # None
        PROVE  mStorageAppInfo'[x] = Restored(quotaSize', x)
    <3>1. CASE x = a
      <4>1. mStorageAppInfo'[a] = size /\ quotaSize'[a] = size
        BY <2>3, <2>5, <3>1
      <4> QED BY <2>5, <3>1, <4>1 DEF Restored
    <3>2. CASE x # a
      BY <2>1, <2>2, <2>4, <2>5, <3>2 DEF RestartKeepsQuota, Restored
    <3> QED BY <3>1, <3>2
  <2> QED BY <2>5 DEF RestartKeepsQuota, Restored
<1>2. ASSUME NEW a \in App, NEW size \in Size, KilledInCreateStorage(a, size)
      PROVE  RestartKeepsQuota'
  BY <1>2, <1>p DEF KilledInCreateStorage
<1>3. ASSUME NEW a \in App, GetStorage(a)
      PROVE  RestartKeepsQuota'
  BY <1>0, <1>3, <1>k, DeleteTypes DEF GetStorage, Removed
<1>4. ASSUME NEW a \in App, DeleteStorage(a)
      PROVE  RestartKeepsQuota'
  <2>1. CASE UNCHANGED <<mStorageAppInfo, quotaSize, failed>>
    BY <1>k, <2>1
  <2>2. CASE /\ mStorageAppInfo' = Removed(mStorageAppInfo, a)
             /\ DeleteProperty(a) /\ UNCHANGED failed
    BY <1>0, <1>k, <2>2, DeleteTypes DEF Removed
  <2> QED BY <1>4, <2>1, <2>2 DEF DeleteStorage
<1>5. ASSUME \/ \E a \in App : Write(a) \/ LoseDirectory(a)
             \/ \E S \in SUBSET App : Clear(S)
      PROVE  RestartKeepsQuota'
  BY <1>5, <1>k DEF Write, LoseDirectory, Clear
<1>6. ASSUME NEW a \in App, KilledInDeleteStorage(a)
      PROVE  RestartKeepsQuota'
  BY <1>6, <1>p DEF KilledInDeleteStorage
<1>7. CASE populateAppInfoCacheFromStoragePath
  <2>1. Populate(quotaSize', usedKB')
    BY <1>7 DEF populateAppInfoCacheFromStoragePath, Populate, Populated, Restored
  <2> QED BY <1>p, <2>1
<1>8. CASE UNCHANGED storageVars
  BY <1>8, <1>k DEF storageVars
<1> QED
  BY <1>1, <1>2, <1>3, <1>4, <1>5, <1>6, <1>7, <1>8 DEF Next, Start

(* RestartKeepsQuota: whatever fails and wherever the process is killed, the *)
(* entry and the property of an application agree unless its quota was last  *)
(* set, or read by a start, in vain, so the next start that reads the        *)
(* property changes no quota (populateAppInfoCacheFromStoragePath).          *)
THEOREM RestartsKeepQuotas ==
  ASSUME SizeAssumption, AppsAreFinite
  PROVE  Spec => []RestartKeepsQuota
<1>1. Init => RestartKeepsQuota
  BY DEF Init, RestartKeepsQuota
<1>2. TypeOK /\ TypeOK' /\ RestartKeepsQuota /\ [Next]_storageVars => RestartKeepsQuota'
  BY QuotasKept
<1> QED
  BY <1>1, <1>2, StorageTypeCorrect, PTL DEF Spec

-----------------------------------------------------------------------------
(* PersistentStore.  The triggers see one table at a time; what bounds the   *)
(* store is that no statement adds more than its trigger allowed for, and    *)
(* that a backup is only ever made of tables that are within the bounds.     *)
RowsOf(T, n) == [k \in Key |-> PS!Row(T.item[n][k])]

SizesOf(T) == [n \in Ns |-> Sum(RowsOf(T, n), Key)]

Bounded(T) ==
  /\ PS!TotalSize(T) <= maxSize
  /\ \A n \in Ns : PS!NsSize(T, n) <= limit

StoreInv ==
  /\ PS!TypeOK
  /\ Bounded(tables)
  /\ backup # PS!NoFile => Bounded(backup)

NamesAreFinite == IsFiniteSet(Ns) /\ IsFiniteSet(Key)

LEMMA NsSizeIsASum ==
  ASSUME NEW T, NEW n
  PROVE  PS!NsSize(T, n) = Sum(RowsOf(T, n), Key)
<1>1. ASSUME NEW S \in SUBSET Key, S # {}
      PROVE  PS!Row(T.item[n][Pick(S)]) = RowsOf(T, n)[Pick(S)]
  BY <1>1 DEF RowsOf, Pick
<1>2. ASSUME NEW g
      PROVE  [S \in SUBSET Key |-> IF S = {} THEN 0 ELSE PS!Row(T.item[n][Pick(S)]) + g[S \ {Pick(S)}]]
               = Fold(RowsOf(T, n), Key, g)
  BY <1>1 DEF Fold
<1>3. (CHOOSE g : g = [S \in SUBSET Key |-> IF S = {} THEN 0 ELSE PS!Row(T.item[n][Pick(S)]) + g[S \ {Pick(S)}]])
        = Partial(RowsOf(T, n), Key)
  BY <1>2, Zenon DEF Partial
<1>4. PS!NsSize(T, n)
        = (CHOOSE g : g = [S \in SUBSET Key |-> IF S = {} THEN 0 ELSE PS!Row(T.item[n][Pick(S)]) + g[S \ {Pick(S)}]])[Key]
  BY DEF PS!NsSize, PS!MapThenSumSet, PS!MapThenFoldSet, Pick
<1> QED
  BY <1>3, <1>4 DEF Sum

LEMMA SameCardinality ==
  ASSUME NEW S
  PROVE  PS!Cardinality(S) = Cardinality(S)
BY DEF PS!Cardinality, Cardinality

LEMMA TotalIsASum ==
  ASSUME NEW T
  PROVE  PS!TotalSize(T) = Sum(SizesOf(T), Ns) + Cardinality(T.namespace)
<1>1. ASSUME NEW S \in SUBSET Ns, S # {}
      PROVE  PS!NsSize(T, Pick(S)) = SizesOf(T)[Pick(S)]
  <2>1. Pick(S) \in Ns
    BY <1>1 DEF Pick
  <2> QED BY <2>1, NsSizeIsASum DEF SizesOf
<1>2. ASSUME NEW g
      PROVE  [S \in SUBSET Ns |-> IF S = {} THEN 0 ELSE PS!NsSize(T, Pick(S)) + g[S \ {Pick(S)}]]
               = Fold(SizesOf(T), Ns, g)
  BY <1>1 DEF Fold
<1>3. (CHOOSE g : g = [S \in SUBSET Ns |-> IF S = {} THEN 0 ELSE PS!NsSize(T, Pick(S)) + g[S \ {Pick(S)}]])
        = Partial(SizesOf(T), Ns)
  BY <1>2, Zenon DEF Partial
<1>4. PS!TotalSize(T)
        = (CHOOSE g : g = [S \in SUBSET Ns |-> IF S = {} THEN 0 ELSE PS!NsSize(T, Pick(S)) + g[S \ {Pick(S)}]])[Ns]
            + Cardinality(T.namespace)
  BY SameCardinality DEF PS!TotalSize, PS!MapThenSumSet, PS!MapThenFoldSet, Pick
<1> QED
  BY <1>3, <1>4 DEF Sum

(* The sizes of a table are natural numbers.                                 *)
LEMMA TableSizes ==
  ASSUME PS!LengthAssumption, NamesAreFinite, NEW T \in PS!Table
  PROVE  /\ \A n \in Ns : RowsOf(T, n) \in [Key -> Nat] /\ PS!NsSize(T, n) \in Nat
         /\ SizesOf(T) \in [Ns -> Nat] /\ \A n \in Ns : SizesOf(T)[n] = PS!NsSize(T, n)
         /\ Sum(SizesOf(T), Ns) \in Nat
         /\ IsFiniteSet(T.namespace) /\ Cardinality(T.namespace) \in Nat
<1>1. ASSUME NEW n \in Ns
      PROVE  RowsOf(T, n) \in [Key -> Nat] /\ PS!NsSize(T, n) \in Nat
  <2>1. ASSUME NEW k \in Key PROVE PS!Row(T.item[n][k]) \in Nat
    <3>1. T.item[n][k] \in Length \cup {PS!None}
      BY DEF PS!Table
    <3>2. T.item[n][k] \in Nat
      BY <3>1 DEF PS!None, PS!LengthAssumption
    <3> QED BY <3>2 DEF PS!Row
  <2>2. RowsOf(T, n) \in [Key -> Nat]
    BY <2>1 DEF RowsOf
  <2> QED BY <2>2, NsSizeIsASum, SumIsNat DEF NamesAreFinite
<1>2. SizesOf(T) \in [Ns -> Nat] /\ \A n \in Ns : SizesOf(T)[n] = PS!NsSize(T, n)
  BY <1>1, NsSizeIsASum DEF SizesOf
<1>3. Sum(SizesOf(T), Ns) \in Nat
  BY <1>2, SumIsNat DEF NamesAreFinite
<1>4. IsFiniteSet(T.namespace) /\ Cardinality(T.namespace) \in Nat
  <2>1. T.namespace \subseteq Ns
    BY DEF PS!Table
  <2> QED BY <2>1, FS_Subset, FS_CardinalityType DEF NamesAreFinite
<1> QED
  BY <1>1, <1>2, <1>3, <1>4

LEMMA EmptyBounded ==
  ASSUME PS!MaximumAssumption, NamesAreFinite
  PROVE  PS!Empty \in PS!Table /\ Bounded(PS!Empty)
<1>1. PS!Empty \in PS!Table
  BY DEF PS!Empty, PS!Table, PS!Absent
<1>2. ASSUME NEW n \in Ns PROVE Sum(RowsOf(PS!Empty, n), Key) = 0
  <2>1. RowsOf(PS!Empty, n) = [k \in Key |-> 0]
    BY DEF RowsOf, PS!Empty, PS!Absent, PS!Row
  <2> QED BY <2>1, SumOfZeros DEF NamesAreFinite
<1>3. Sum(SizesOf(PS!Empty), Ns) = 0
  <2>1. SizesOf(PS!Empty) = [n \in Ns |-> 0]
    BY <1>2 DEF SizesOf
  <2> QED BY <2>1, SumOfZeros DEF NamesAreFinite
<1>4. Cardinality(PS!Empty.namespace) = 0
  BY FS_EmptySet DEF PS!Empty
<1> QED
  BY <1>1, <1>2, <1>3, <1>4, NsSizeIsASum, TotalIsASum DEF Bounded, PS!MaximumAssumption

(* Deleting keeps the bounds.                                                *)
LEMMA SmallerBounded ==
  ASSUME PS!LengthAssumption, PS!MaximumAssumption, NamesAreFinite,
         NEW T \in PS!Table, NEW T2 \in PS!Table, Bounded(T),
         T2.namespace \subseteq T.namespace,
         \A n \in Ns, k \in Key : T2.item[n][k] \in {T.item[n][k], PS!None}
  PROVE  Bounded(T2)
<1>1. ASSUME NEW n \in Ns PROVE PS!NsSize(T2, n) <= PS!NsSize(T, n)
  <2>1. RowsOf(T, n) \in [Key -> Nat] /\ RowsOf(T2, n) \in [Key -> Nat]
    BY TableSizes
  <2>2. ASSUME NEW k \in Key PROVE RowsOf(T2, n)[k] <= RowsOf(T, n)[k]
    <3>1. RowsOf(T2, n)[k] \in {RowsOf(T, n)[k], 0}
      BY DEF RowsOf, PS!Row
    <3> QED BY <2>1, <3>1
  <2>3. RowsOf(T, n) \in [Key -> Int] /\ RowsOf(T2, n) \in [Key -> Int]
    BY <2>1
  <2> QED BY <2>2, <2>3, SumGrows, NsSizeIsASum DEF NamesAreFinite
<1>2. Sum(SizesOf(T2), Ns) <= Sum(SizesOf(T), Ns)
  <2>1. SizesOf(T) \in [Ns -> Int] /\ SizesOf(T2) \in [Ns -> Int]
        /\ \A n \in Ns : SizesOf(T2)[n] <= SizesOf(T)[n]
    BY <1>1, TableSizes
  <2> QED BY <2>1, SumGrows DEF NamesAreFinite
<1>3. Cardinality(T2.namespace) <= Cardinality(T.namespace)
  BY TableSizes, FS_Subset
<1>4. /\ Sum(SizesOf(T2), Ns) \in Nat /\ Sum(SizesOf(T), Ns) \in Nat
      /\ Cardinality(T2.namespace) \in Nat /\ Cardinality(T.namespace) \in Nat
      /\ \A n \in Ns : PS!NsSize(T2, n) \in Nat /\ PS!NsSize(T, n) \in Nat
      /\ maxSize \in Nat /\ limit \in Nat
  BY TableSizes DEF PS!MaximumAssumption
<1>5. PS!TotalSize(T2) <= maxSize
  BY <1>2, <1>3, <1>4, TotalIsASum DEF Bounded
<1>6. \A n \in Ns : PS!NsSize(T2, n) <= limit
  BY <1>1, <1>4 DEF Bounded
<1> QED
  BY <1>5, <1>6 DEF Bounded

(* A row that item_maxsize and item_limit_default let in.                    *)
LEMMA InsertBounded ==
  ASSUME PS!LengthAssumption, PS!MaximumAssumption, NamesAreFinite,
         NEW T \in PS!Table, NEW T2 \in PS!Table, Bounded(T),
         NEW n \in Ns, NEW k \in Key, NEW v \in Length,
         T2 = [T EXCEPT !.item[n][k] = v],
         PS!TotalSize(T) + PS!Row(v) <= maxSize,
         PS!NsSize(T, n) + PS!Row(v) <= limit
  PROVE  Bounded(T2)
<1> DEFINE old == PS!Row(T.item[n][k])
<1>1. PS!Row(v) \in Nat /\ old \in Nat
  <2>1. T.item[n][k] \in Length \cup {PS!None}
    BY DEF PS!Table
  <2>2. T.item[n][k] \in Nat /\ v \in Nat
    BY <2>1 DEF PS!None, PS!LengthAssumption
  <2> QED BY <2>2 DEF PS!Row
<1>2. /\ T2.namespace = T.namespace
      /\ T2.item[n] = [T.item[n] EXCEPT ![k] = v]
      /\ T2.item[n][k] = v
      /\ \A m \in Ns \ {n} : T2.item[m] = T.item[m]
      /\ \A j \in Key \ {k} : T2.item[n][j] = T.item[n][j]
  BY DEF PS!Table
<1>3. \A m \in Ns : /\ RowsOf(T, m) \in [Key -> Int] /\ RowsOf(T2, m) \in [Key -> Int]
                    /\ PS!NsSize(T, m) \in Nat /\ PS!NsSize(T2, m) \in Nat
  <2>1. \A m \in Ns : /\ RowsOf(T, m) \in [Key -> Nat] /\ RowsOf(T2, m) \in [Key -> Nat]
                      /\ PS!NsSize(T, m) \in Nat /\ PS!NsSize(T2, m) \in Nat
    BY TableSizes
  <2>2. \A f \in [Key -> Nat] : f \in [Key -> Int]
    OBVIOUS
  <2> QED BY <2>1, <2>2, Zenon
<1>4. PS!NsSize(T2, n) = PS!NsSize(T, n) + (PS!Row(v) - old)
  <2>1. /\ RowsOf(T2, n)[k] = PS!Row(v) /\ RowsOf(T, n)[k] = old
        /\ \A j \in Key \ {k} : RowsOf(T2, n)[j] = RowsOf(T, n)[j]
    BY <1>2 DEF RowsOf
  <2>2. Sum(RowsOf(T2, n), Key) = Sum(RowsOf(T, n), Key) + (RowsOf(T2, n)[k] - RowsOf(T, n)[k])
    BY <1>3, <2>1, SumChanges DEF NamesAreFinite
  <2> HIDE DEF old
  <2> QED BY <2>1, <2>2, NsSizeIsASum
<1>5. ASSUME NEW m \in Ns \ {n} PROVE PS!NsSize(T2, m) = PS!NsSize(T, m)
  <2>1. T2.item[m] = T.item[m]
    BY <1>2
  <2>2. RowsOf(T2, m) = RowsOf(T, m)
    BY <2>1, SMT DEF RowsOf
  <2> QED BY <2>2, NsSizeIsASum, Zenon
<1>6. Sum(SizesOf(T2), Ns) = Sum(SizesOf(T), Ns) + (PS!Row(v) - old)
  <2>1. /\ SizesOf(T) \in [Ns -> Int] /\ SizesOf(T2) \in [Ns -> Int]
        /\ \A m \in Ns : SizesOf(T2)[m] = PS!NsSize(T2, m) /\ SizesOf(T)[m] = PS!NsSize(T, m)
    <3>1. /\ SizesOf(T) \in [Ns -> Nat] /\ SizesOf(T2) \in [Ns -> Nat]
          /\ \A m \in Ns : SizesOf(T2)[m] = PS!NsSize(T2, m) /\ SizesOf(T)[m] = PS!NsSize(T, m)
      BY TableSizes
    <3> QED BY <3>1
  <2>2. \A m \in Ns \ {n} : SizesOf(T2)[m] = SizesOf(T)[m]
    BY <1>5, <2>1
  <2>3. SizesOf(T2)[n] - SizesOf(T)[n] = PS!Row(v) - old
    <3> HIDE DEF old
    <3>1. /\ SizesOf(T2)[n] = PS!NsSize(T2, n) /\ SizesOf(T)[n] = PS!NsSize(T, n)
          /\ PS!NsSize(T2, n) \in Nat /\ PS!NsSize(T, n) \in Nat
      BY <1>3, <2>1
    <3> QED BY <1>1, <1>4, <3>1
  <2>4. Sum(SizesOf(T2), Ns) = Sum(SizesOf(T), Ns) + (SizesOf(T2)[n] - SizesOf(T)[n])
    BY <2>1, <2>2, SumChanges DEF NamesAreFinite
  <2> HIDE DEF old
  <2> QED BY <2>3, <2>4
<1>7. /\ Sum(SizesOf(T), Ns) \in Nat /\ Cardinality(T.namespace) \in Nat
      /\ maxSize \in Nat /\ limit \in Nat
  BY TableSizes DEF PS!MaximumAssumption
<1> HIDE DEF old
<1>8. PS!TotalSize(T2) <= maxSize
  <2>1. PS!TotalSize(T) = Sum(SizesOf(T), Ns) + Cardinality(T.namespace)
    BY TotalIsASum
  <2>2. PS!TotalSize(T2) = Sum(SizesOf(T2), Ns) + Cardinality(T.namespace)
    BY <1>2, TotalIsASum
  <2> QED BY <1>1, <1>6, <1>7, <2>1, <2>2
<1>9. \A m \in Ns : PS!NsSize(T2, m) <= limit
  <2>1. PS!NsSize(T2, n) <= limit
    BY <1>1, <1>3, <1>4, <1>7
  <2> QED BY <1>5, <2>1 DEF Bounded
<1> QED
  BY <1>8, <1>9 DEF Bounded

(* The calls that are between their two statements.                          *)
LEMMA CallTypes ==
  ASSUME NEW c \in PS!Call
  PROVE  /\ c.call = "SetValue" => c.ns \in Ns /\ c.key \in Key /\ c.value \in Length
         /\ c.call = "SetNamespaceStorageLimit" => c.ns \in Ns /\ c.size \in Limit
         /\ c # PS!NoCall => c.ns \in Ns
<1>1. \/ c \in [call : {"SetValue"}, ns : Ns, key : Key, value : Length]
      \/ c \in [call : {"SetNamespaceStorageLimit"}, ns : Ns, size : Limit]
      \/ c = PS!NoCall
  BY DEF PS!Call
<1>2. CASE c \in [call : {"SetValue"}, ns : Ns, key : Key, value : Length]
  BY <1>2
<1>3. CASE c \in [call : {"SetNamespaceStorageLimit"}, ns : Ns, size : Limit]
  BY <1>3
<1>4. CASE c = PS!NoCall
  BY <1>4 DEF PS!NoCall
<1> QED
  BY <1>1, <1>2, <1>3, <1>4

LEMMA AddOne ==
  ASSUME NEW S, NEW x, IsFiniteSet(S)
  PROVE  /\ Cardinality(S \cup {x}) \in Nat
         /\ Cardinality(S \cup {x}) <= Cardinality(S) + 1
<1>1. Cardinality(S) \in Nat
  BY FS_CardinalityType
<1>2. Cardinality(S \cup {x}) = IF x \in S THEN Cardinality(S) ELSE Cardinality(S) + 1
  BY FS_AddElement, Zenon
<1>3. CASE x \in S
  BY <1>1, <1>2, <1>3
<1>4. CASE x \notin S
  BY <1>1, <1>2, <1>4
<1> QED
  BY <1>3, <1>4

LEMMA StoreStep ==
  ASSUME PS!LengthAssumption, PS!MaximumAssumption, NamesAreFinite,
         StoreInv, [PS!Next]_(PS!storeVars)
  PROVE  StoreInv'
<1>0. /\ tables \in PS!Table /\ backup \in PS!Table \cup {PS!NoFile} /\ corrupt \in BOOLEAN
      /\ start \in {"check", "destroyed", "backup", "up"} /\ caller \in [Thread -> PS!Call]
      /\ Bounded(tables) /\ (backup # PS!NoFile => Bounded(backup))
      /\ PS!NoCall \in PS!Call /\ PS!None \in Limit \cup {PS!None}
  BY DEF StoreInv, PS!TypeOK, PS!Call
<1>e. PS!Empty \in PS!Table /\ Bounded(PS!Empty)
  BY EmptyBounded
<1>k. ASSUME tables' \in PS!Table, Bounded(tables'), UNCHANGED <<backup, corrupt, start>>,
             caller' \in [Thread -> PS!Call]
      PROVE  StoreInv'
  BY <1>0, <1>k DEF StoreInv, PS!TypeOK
<1>1. ASSUME NEW t \in Thread, NEW c \in PS!Call \ {PS!NoCall}, PS!InsertNamespace(t, c)
      PROVE  StoreInv'
  <2>1. /\ tables' = [tables EXCEPT !.namespace = @ \cup {c.ns}] /\ UNCHANGED <<backup, corrupt, start>>
        /\ caller' = [caller EXCEPT ![t] = c] /\ PS!TotalSize(tables) + 1 <= maxSize
    BY <1>1 DEF PS!InsertNamespace, PS!ns_maxsize
  <2>2. c.ns \in Ns
    BY CallTypes
  <2>3. tables' \in PS!Table /\ caller' \in [Thread -> PS!Call]
    BY <1>0, <2>1, <2>2 DEF PS!Table
  <2>4. tables'.item = tables.item /\ tables'.namespace = tables.namespace \cup {c.ns}
    BY <1>0, <2>1 DEF PS!Table
  <2>5. \A n \in Ns : RowsOf(tables', n) = RowsOf(tables, n)
    BY <2>4, Zenon DEF RowsOf
  <2>6. SizesOf(tables') = SizesOf(tables)
    BY <2>5 DEF SizesOf
  <2>7. /\ Cardinality(tables.namespace \cup {c.ns}) \in Nat
        /\ Cardinality(tables.namespace \cup {c.ns}) <= Cardinality(tables.namespace) + 1
    <3>1. IsFiniteSet(tables.namespace) /\ Cardinality(tables.namespace) \in Nat
      BY <1>0, TableSizes
    <3> QED BY <3>1, AddOne, Zenon
  <2>8. PS!TotalSize(tables') <= maxSize
    <3>1. Sum(SizesOf(tables), Ns) \in Nat /\ Cardinality(tables.namespace) \in Nat /\ maxSize \in Nat
      BY <1>0, TableSizes DEF PS!MaximumAssumption
    <3>2. PS!TotalSize(tables) = Sum(SizesOf(tables), Ns) + Cardinality(tables.namespace)
      BY TotalIsASum
    <3>3. PS!TotalSize(tables') = Sum(SizesOf(tables), Ns) + Cardinality(tables.namespace \cup {c.ns})
      BY <2>4, <2>6, TotalIsASum
    <3> QED BY <2>1, <2>7, <3>1, <3>2, <3>3
  <2>9. Bounded(tables')
    BY <1>0, <2>5, <2>8, NsSizeIsASum DEF Bounded
  <2> QED BY <1>k, <2>1, <2>3, <2>9
<1>2. ASSUME NEW t \in Thread, PS!InsertItem(t)
      PROVE  StoreInv'
  <2> DEFINE c == caller[t]
  <2>1. /\ UNCHANGED <<backup, corrupt, start>> /\ caller' = [caller EXCEPT ![t] = PS!NoCall]
        /\ c.ns \in Ns /\ c.key \in Key /\ c.value \in Length
    <3>1. c \in PS!Call /\ c.call = "SetValue"
      BY <1>0, <1>2 DEF PS!InsertItem
    <3> HIDE DEF c
    <3>2. c.ns \in Ns /\ c.key \in Key /\ c.value \in Length
      BY <3>1, CallTypes
    <3> QED BY <1>2, <3>2 DEF PS!InsertItem
  <2>2. \/ tables' = tables
        \/ /\ tables' = [tables EXCEPT !.item[c.ns][c.key] = c.value]
           /\ ~PS!Refuses(c.ns, PS!Row(c.value))
    BY <1>2 DEF PS!InsertItem
  <2>3. caller' \in [Thread -> PS!Call]
    BY <1>0, <2>1
  <2>4. CASE tables' = tables
    BY <1>0, <1>k, <2>1, <2>3, <2>4
  <2>5. CASE /\ tables' = [tables EXCEPT !.item[c.ns][c.key] = c.value]
             /\ ~PS!Refuses(c.ns, PS!Row(c.value))
    <3>1. /\ PS!TotalSize(tables) + PS!Row(c.value) <= maxSize
          /\ PS!NsSize(tables, c.ns) + PS!Row(c.value) <= limit
      BY <2>5 DEF PS!Refuses, PS!item_maxsize, PS!item_limit_default
    <3> HIDE DEF c
    <3>2. tables' \in PS!Table
      BY <1>0, <2>1, <2>5 DEF PS!Table
    <3>3. Bounded(tables')
      BY <1>0, <2>1, <2>5, <3>1, <3>2, InsertBounded
    <3> QED BY <1>k, <2>1, <2>3, <3>2, <3>3
  <2> QED BY <2>2, <2>4, <2>5
<1>3. ASSUME NEW t \in Thread, PS!InsertLimit(t)
      PROVE  StoreInv'
  <2> DEFINE c == caller[t]
  <2>1. /\ UNCHANGED <<backup, corrupt, start>> /\ caller' = [caller EXCEPT ![t] = PS!NoCall]
        /\ c.ns \in Ns /\ c.size \in Limit
    <3>1. c \in PS!Call /\ c.call = "SetNamespaceStorageLimit"
      BY <1>0, <1>3 DEF PS!InsertLimit
    <3> HIDE DEF c
    <3>2. c.ns \in Ns /\ c.size \in Limit
      BY <3>1, CallTypes
    <3> QED BY <1>3, <3>2 DEF PS!InsertLimit
  <2>2. tables' = tables \/ tables' = [tables EXCEPT !.limits[c.ns] = c.size]
    BY <1>3 DEF PS!InsertLimit
  <2> HIDE DEF c
  <2>3. /\ tables' \in PS!Table /\ caller' \in [Thread -> PS!Call]
        /\ tables'.namespace = tables.namespace /\ tables'.item = tables.item
    BY <1>0, <2>1, <2>2 DEF PS!Table
  <2>4. Bounded(tables')
    BY <1>0, <2>3, SmallerBounded
  <2> QED BY <1>k, <2>1, <2>3, <2>4
<1>4. ASSUME NEW n \in Ns, NEW k \in Key, PS!DeleteKey(n, k)
      PROVE  StoreInv'
  <2>1. tables' = [tables EXCEPT !.item[n][k] = PS!None] /\ UNCHANGED <<backup, corrupt, start, caller>>
    BY <1>4 DEF PS!DeleteKey
  <2>2. /\ tables' \in PS!Table /\ tables'.namespace = tables.namespace
        /\ \A m \in Ns, j \in Key : tables'.item[m][j] \in {tables.item[m][j], PS!None}
    BY <1>0, <2>1 DEF PS!Table
  <2>3. Bounded(tables')
    BY <1>0, <2>2, SmallerBounded
  <2> QED BY <1>0, <1>k, <2>1, <2>2, <2>3
<1>5. ASSUME NEW n \in Ns, PS!DeleteNamespace(n)
      PROVE  StoreInv'
  <2>1. /\ tables' = [namespace |-> tables.namespace \ {n},
                      item      |-> [tables.item EXCEPT ![n] = PS!Absent],
                      limits    |-> [tables.limits EXCEPT ![n] = PS!None]]
        /\ UNCHANGED <<backup, corrupt, start, caller>>
    BY <1>5 DEF PS!DeleteNamespace
  <2>2. PS!Absent \in [Key -> Length \cup {PS!None}] /\ \A k \in Key : PS!Absent[k] = PS!None
    BY DEF PS!Absent
  <2>3. /\ tables' \in PS!Table /\ tables'.namespace \subseteq tables.namespace
        /\ \A m \in Ns, j \in Key : tables'.item[m][j] \in {tables.item[m][j], PS!None}
    BY <1>0, <2>1, <2>2 DEF PS!Table
  <2>4. Bounded(tables')
    BY <1>0, <2>3, SmallerBounded
  <2> QED BY <1>0, <1>k, <2>1, <2>3, <2>4
<1>6. CASE PS!Kill
  <2>1. /\ UNCHANGED <<tables, backup>> /\ corrupt' \in BOOLEAN /\ start' = "check"
        /\ caller' \in [Thread -> PS!Call]
    BY <1>0, <1>6 DEF PS!Kill
  <2> QED BY <1>0, <2>1 DEF StoreInv, PS!TypeOK
<1>7. CASE PS!IntegrityCheck
  <2>1. /\ UNCHANGED <<backup, caller>> /\ corrupt' = FALSE /\ start' \in {"destroyed", "backup"}
        /\ tables' = tables \/ tables' = PS!Empty
    BY <1>7 DEF PS!IntegrityCheck
  <2>2. tables' \in PS!Table /\ Bounded(tables')
    BY <1>0, <1>e, <2>1
  <2> QED BY <1>0, <2>1, <2>2 DEF StoreInv, PS!TypeOK
<1>8. CASE PS!Backup
  <2>1. /\ UNCHANGED <<corrupt, caller>> /\ start' = "up"
        /\ \/ backup' = tables /\ UNCHANGED tables
           \/ UNCHANGED backup /\ tables' = IF backup = PS!NoFile THEN PS!Empty ELSE backup
    BY <1>8 DEF PS!Backup
  <2>2. tables' \in PS!Table /\ Bounded(tables')
    BY <1>0, <1>e, <2>1
  <2>3. backup' \in PS!Table \cup {PS!NoFile} /\ (backup' # PS!NoFile => Bounded(backup'))
    BY <1>0, <2>1
  <2> QED BY <1>0, <2>1, <2>2, <2>3 DEF StoreInv, PS!TypeOK
<1>9. CASE UNCHANGED PS!storeVars
  BY <1>0, <1>9 DEF PS!storeVars, StoreInv, PS!TypeOK
<1> QED
  BY <1>1, <1>2, <1>3, <1>4, <1>5, <1>6, <1>7, <1>8, <1>9 DEF PS!Next

LEMMA StoreInit ==
  ASSUME PS!LengthAssumption, PS!MaximumAssumption, NamesAreFinite, PS!Init
  PROVE  StoreInv
<1>1. tables = PS!Empty /\ backup = PS!NoFile
  BY DEF PS!Init
<1>2. PS!TypeOK
  BY <1>1, EmptyBounded DEF PS!Init, PS!TypeOK, PS!Call
<1> QED BY <1>1, <1>2, EmptyBounded DEF StoreInv

LEMMA StoreInvariant ==
  ASSUME PS!LengthAssumption, PS!MaximumAssumption, NamesAreFinite
  PROVE  PS!Spec => []StoreInv
<1>1. PS!Init => StoreInv
  BY StoreInit
<1>2. StoreInv /\ [PS!Next]_(PS!storeVars) => StoreInv'
  BY StoreStep
<1> QED
  BY <1>1, <1>2, PTL DEF PS!Spec

LEMMA StoreSuffices == StoreInv => PS!StoreIsBounded
  BY DEF StoreInv, Bounded, PS!StoreIsBounded

(* TypeOK of the PersistentStore: among others, who is between the two       *)
(* statements of a call has a namespace, a key and a value to go on with.    *)
THEOREM StoreTypeCorrect ==
  ASSUME PS!LengthAssumption, PS!MaximumAssumption, NamesAreFinite
  PROVE  PS!Spec => []PS!TypeOK
<1>1. StoreInv => PS!TypeOK
  BY DEF StoreInv
<1> QED
  BY <1>1, StoreInvariant, PTL

(* StoreIsBounded: whatever two callers do between each other's statements,  *)
(* whatever is deleted, and whatever a start after a kill or with a corrupt  *)
(* file restores, the tables never outgrow _maxSize nor a namespace _limit,  *)
(* for any names, keys, lengths, limits and number of callers (Store2::Open).*)
THEOREM StoreStaysBounded ==
  ASSUME PS!LengthAssumption, PS!MaximumAssumption, NamesAreFinite
  PROVE  PS!Spec => []PS!StoreIsBounded
<1>1. StoreInv => PS!StoreIsBounded
  BY StoreSuffices
<1> QED
  BY <1>1, StoreInvariant, PTL
=============================================================================
