------------------------- MODULE WindowPlannerProofs -------------------------
(***************************************************************************)
(* Proofs about WindowPlanner: the account that Q-CAST and the baselines   *)
(* keep of a window is sound, so that what they return is feasible and     *)
(* complete; the nominal layout respects the dependencies; and the two     *)
(* accounts of Q-CAST, by paths and by plans, agree.                       *)
(***************************************************************************)
EXTENDS WindowPlanner, FiniteSetTheorems, TLAPS

-----------------------------------------------------------------------------
(* Induction, for properties given as the set of the numbers that have them *)

LEMMA ByInduction ==
  ASSUME NEW S, 0 \in S, \A n \in Nat : n \in S => n + 1 \in S
  PROVE  \A n \in Nat : n \in S
<1> DEFINE T == {n \in Nat : n \notin S}
<1>1. CASE T = {}
  BY <1>1
<1>2. CASE T # {}
  <2>1. T \subseteq Nat
    OBVIOUS
  <2> HIDE DEF T
  <2>2. \E n \in T : \A m \in T : ~(<<m, n>> \in OpToRel(<, Nat))
    BY <1>2, <2>1, NatLessThanWellFounded, WFMin
  <2>4. PICK n \in T : \A m \in T : ~(m < n)
    BY <2>1, <2>2 DEF OpToRel
  <2>3. n \in Nat /\ n \notin S /\ n # 0 /\ n - 1 \in Nat
    BY DEF T
  <2>5. n - 1 \in S
    BY <2>3, <2>4 DEF T
  <2> QED BY <2>3, <2>5
<1> QED BY <1>1, <1>2

LEMMA GreatestInteger ==
  ASSUME NEW S \in SUBSET Int, IsFiniteSet(S), S # {}
  PROVE  Max(S) \in S /\ \A a \in S : a <= Max(S)
<1> DEFINE Good == {n \in Nat : \A T \in SUBSET Int : IsFiniteSet(T) /\ Cardinality(T) = n + 1
                                  => \E m \in T : \A a \in T : a <= m}
<1>1. 0 \in Good
  <2> SUFFICES ASSUME NEW T \in SUBSET Int, IsFiniteSet(T), Cardinality(T) = 1
               PROVE  \E m \in T : \A a \in T : a <= m
    OBVIOUS
  <2>1. PICK x : T = {x}
    BY FS_Singleton
  <2>2. x \in Int
    BY <2>1
  <2> QED BY <2>1, <2>2
<1>2. \A n \in Nat : n \in Good => n + 1 \in Good
  <2> SUFFICES ASSUME NEW n \in Nat, n \in Good, NEW T \in SUBSET Int, IsFiniteSet(T),
                      Cardinality(T) = n + 2
               PROVE  \E m \in T : \A a \in T : a <= m
    OBVIOUS
  <2>1. PICK x : x \in T
    BY FS_EmptySet
  <2>2. IsFiniteSet(T \ {x}) /\ Cardinality(T \ {x}) = n + 1
    BY <2>1, FS_RemoveElement
  <2>3. PICK m \in T \ {x} : \A a \in T \ {x} : a <= m
    BY <2>2
  <2>4. x \in Int /\ m \in Int
    BY <2>1
  <2> QED BY <2>1, <2>3, <2>4
<1>3. \A n \in Nat : n \in Good
  <2> HIDE DEF Good
  <2> QED BY <1>1, <1>2, ByInduction
<1>4. Cardinality(S) \in Nat /\ Cardinality(S) # 0
  BY FS_CardinalityType, FS_EmptySet
<1>5. \E m \in S : \A a \in S : a <= m
  BY <1>3, <1>4
<1> QED BY <1>5 DEF Max

LEMMA LeastInteger ==
  ASSUME NEW S \in SUBSET Int, IsFiniteSet(S), S # {}
  PROVE  Min(S) \in S /\ \A a \in S : Min(S) <= a
<1> DEFINE T == {-a : a \in S}
           f == [a \in S |-> -a]
<1>1. f \in Surjection(S, T)
  BY DEF Surjection
<1>2. IsFiniteSet(T) /\ T \in SUBSET Int /\ T # {}
  <2>1. IsFiniteSet(T)
    <3> HIDE DEF T, f
    <3> QED BY <1>1, FS_Surjection
  <2>2. T \in SUBSET Int
    OBVIOUS
  <2>3. T # {}
    OBVIOUS
  <2> QED BY <2>1, <2>2, <2>3
<1>3. Max(T) \in T /\ \A a \in T : a <= Max(T)
  BY <1>2, GreatestInteger
<1>4. PICK m \in S : Max(T) = -m
  BY <1>3
<1>5. \A a \in S : m <= a
  <2> SUFFICES ASSUME NEW a \in S PROVE m <= a
    OBVIOUS
  <2>1. -a <= -m /\ a \in Int /\ m \in Int
    BY <1>3, <1>4
  <2> QED BY <2>1
<1> QED BY <1>5 DEF Min

LEMMA TwoIntegers ==
  ASSUME NEW a \in Int, NEW b \in Int
  PROVE  /\ Max({a, b}) \in Int /\ a <= Max({a, b}) /\ b <= Max({a, b})
         /\ Min({a, b}) \in Int /\ Min({a, b}) <= a /\ Min({a, b}) <= b
         /\ Max({a, b}) \in {a, b} /\ Min({a, b}) \in {a, b}
<1>1. IsFiniteSet({a, b})
  <2>1. IsFiniteSet({a} \cup {b})
    BY FS_AddElement, FS_Singleton
  <2> QED BY <2>1, {a} \cup {b} = {a, b}
<1> QED BY <1>1, GreatestInteger, LeastInteger

-----------------------------------------------------------------------------
(* What a set of variables uses, added up                                  *)

\* One step of the sum: any element, then the others.
AnyOf(T) == CHOOSE v \in T : TRUE

Step(g, T, x) == IF T = {} THEN 0 ELSE Units(AnyOf(T), x) + g[T \ {AnyOf(T)}]

LEMMA AnyOfIn == ASSUME NEW T, T # {} PROVE AnyOf(T) \in T
BY DEF AnyOf

\* g adds up every part of S.
Adds(g, S, x) == g = [T \in SUBSET S |-> Step(g, T, x)]

LEMMA TakenDef ==
  ASSUME NEW S, NEW x
  PROVE  Taken(x, S) = (CHOOSE g : Adds(g, S, x))[S]
BY DEF Taken, MapThenSumSet, MapThenFoldSet, Adds, Step, AnyOf

LEMMA OneLess ==
  ASSUME NEW S, IsFiniteSet(S), NEW T \in SUBSET S
  PROVE  /\ IsFiniteSet(T) /\ Cardinality(T) \in Nat
         /\ Cardinality(T) = 0 <=> T = {}
         /\ T # {} => AnyOf(T) \in T
         /\ \A v \in T : T \ {v} \in SUBSET S /\ Cardinality(T \ {v}) = Cardinality(T) - 1
<1>1. IsFiniteSet(T) /\ Cardinality(T) \in Nat
  BY FS_Subset, FS_CardinalityType
<1>2. Cardinality(T) = 0 <=> T = {}
  BY <1>1, FS_EmptySet
<1>3. T # {} => AnyOf(T) \in T
  BY AnyOfIn
<1>4. ASSUME NEW v \in T PROVE T \ {v} \in SUBSET S /\ Cardinality(T \ {v}) = Cardinality(T) - 1
  BY <1>1, FS_RemoveElement
<1> QED BY <1>1, <1>2, <1>3, <1>4

LEMMA SumExists ==
  ASSUME NEW S, NEW x, IsFiniteSet(S)
  PROVE  \E g : Adds(g, S, x)
<1> DEFINE Small(n) == {T \in SUBSET S : Cardinality(T) <= n}
           Good == {n \in Nat : \E g : g = [T \in Small(n) |-> Step(g, T, x)]}
<1>1. 0 \in Good
  <2>1. \A T \in Small(0) : T = {}
    BY OneLess
  <2> DEFINE g == [T \in Small(0) |-> 0]
  <2>2. \A T \in Small(0) : g[T] = Step(g, T, x)
    BY <2>1 DEF Step
  <2>3. g = [T \in Small(0) |-> Step(g, T, x)]
    BY <2>2
  <2> QED BY <2>3
<1>2. \A n \in Nat : n \in Good => n + 1 \in Good
  <2> SUFFICES ASSUME NEW n \in Nat, n \in Good PROVE n + 1 \in Good
    OBVIOUS
  <2>1. PICK g : g = [T \in Small(n) |-> Step(g, T, x)]
    OBVIOUS
  <2> DEFINE h == [T \in Small(n + 1) |-> Step(g, T, x)]
  <2>2. ASSUME NEW T \in Small(n + 1), T # {}
        PROVE  T \ {AnyOf(T)} \in Small(n)
    BY <2>2, OneLess
  <2>3. ASSUME NEW T \in Small(n) PROVE T \in Small(n + 1) /\ h[T] = g[T]
    <3>1. T \in Small(n + 1)
      BY OneLess
    <3> QED BY <2>1, <3>1
  <2>4. ASSUME NEW T \in Small(n + 1) PROVE h[T] = Step(h, T, x)
    <3>1. h[T] = Step(g, T, x)
      OBVIOUS
    <3> HIDE DEF h, Small
    <3> QED BY <2>2, <2>3, <3>1 DEF Step
  <2>5. h = [T \in Small(n + 1) |-> Step(h, T, x)]
    <3>1. h = [T \in Small(n + 1) |-> h[T]]
      OBVIOUS
    <3> HIDE DEF h, Small
    <3> QED BY <2>4, <3>1
  <2>6. n + 1 \in Nat
    OBVIOUS
  <2> HIDE DEF h, Small
  <2> QED BY <2>5, <2>6
<1>3. Cardinality(S) \in Good
  <2>1. Cardinality(S) \in Nat
    BY FS_CardinalityType
  <2> HIDE DEF Good
  <2> QED BY <1>1, <1>2, <2>1, ByInduction
<1>4. Small(Cardinality(S)) = SUBSET S
  BY FS_Subset
<1> QED BY <1>3, <1>4 DEF Adds

\* The sum over a subset is the same whichever set it is taken as a part of.
LEMMA SumUnique ==
  ASSUME NEW S, NEW R \in SUBSET S, NEW x, IsFiniteSet(S),
         NEW g, Adds(g, S, x), NEW h, Adds(h, R, x)
  PROVE  g[R] = h[R]
<1> DEFINE Same(n) == \A T \in SUBSET R : Cardinality(T) = n => g[T] = h[T]
           Good == {n \in Nat : Same(n)}
<1>1. \A T \in SUBSET R : g[T] = Step(g, T, x) /\ h[T] = Step(h, T, x)
  BY DEF Adds
<1>2. 0 \in Good
  <2>1. \A T \in SUBSET R : Cardinality(T) = 0 => T = {}
    BY OneLess
  <2> QED BY <1>1, <2>1 DEF Step
<1>3. \A n \in Nat : n \in Good => n + 1 \in Good
  <2>1. ASSUME NEW n \in Nat, Same(n) PROVE Same(n + 1)
    <3> SUFFICES ASSUME NEW T \in SUBSET R, Cardinality(T) = n + 1 PROVE g[T] = h[T]
      OBVIOUS
    <3>1. T # {} /\ T \ {AnyOf(T)} \in SUBSET R /\ Cardinality(T \ {AnyOf(T)}) = n
      BY OneLess
    <3> QED BY <1>1, <2>1, <3>1 DEF Step
  <2> HIDE DEF Same
  <2> QED BY <2>1
<1>4. Cardinality(R) \in Good
  <2>1. Cardinality(R) \in Nat
    BY OneLess
  <2> HIDE DEF Good
  <2> QED BY <1>2, <1>3, <2>1, ByInduction
<1> QED BY <1>4

\* The function the sum over S is taken from.
SumOf(S, x) == CHOOSE g : Adds(g, S, x)

LEMMA SumOfDef ==
  ASSUME NEW S, NEW x, IsFiniteSet(S)
  PROVE  /\ Adds(SumOf(S, x), S, x)
         /\ Taken(x, S) = SumOf(S, x)[S]
         /\ SumOf(S, x)[S] = Step(SumOf(S, x), S, x)
<1>1. Adds(SumOf(S, x), S, x)
  BY SumExists, Zenon DEF SumOf
<1>2. Taken(x, S) = SumOf(S, x)[S]
  BY TakenDef DEF SumOf
<1>3. SumOf(S, x)[S] = Step(SumOf(S, x), S, x)
  BY <1>1 DEF Adds
<1> QED BY <1>1, <1>2, <1>3

LEMMA TakenNone == ASSUME NEW x PROVE Taken(x, {}) = 0
BY SumOfDef, FS_EmptySet DEF Step

LEMMA TakenSome ==
  ASSUME NEW S, NEW x, IsFiniteSet(S), S # {}
  PROVE  Taken(x, S) = Units(AnyOf(S), x) + Taken(x, S \ {AnyOf(S)})
<1>1. ASSUME NEW R \in SUBSET S PROVE SumOf(S, x)[R] = Taken(x, R)
  BY FS_Subset, SumOfDef, SumUnique
<1>2. SumOf(S, x)[S \ {AnyOf(S)}] = Taken(x, S \ {AnyOf(S)})
  BY <1>1
<1> QED BY <1>2, SumOfDef DEF Step

LEMMA TakenNat ==
  ASSUME NEW S, NEW x, IsFiniteSet(S), \A v \in S : Units(v, x) \in Nat
  PROVE  Taken(x, S) \in Nat
<1> DEFINE Natural(n) == \A T \in SUBSET S : Cardinality(T) = n => Taken(x, T) \in Nat
           Good == {n \in Nat : Natural(n)}
<1>1. 0 \in Good
  BY OneLess, TakenNone
<1>2. \A n \in Nat : n \in Good => n + 1 \in Good
  <2> SUFFICES ASSUME NEW n \in Nat, Natural(n) PROVE Natural(n + 1)
    OBVIOUS
  <2> SUFFICES ASSUME NEW T \in SUBSET S, Cardinality(T) = n + 1 PROVE Taken(x, T) \in Nat
    OBVIOUS
  <2>1. IsFiniteSet(T) /\ T # {} /\ AnyOf(T) \in S
    BY OneLess
  <2>2. T \ {AnyOf(T)} \in SUBSET S /\ Cardinality(T \ {AnyOf(T)}) = n
    BY OneLess
  <2>3. Taken(x, T) = Units(AnyOf(T), x) + Taken(x, T \ {AnyOf(T)})
    BY <2>1, TakenSome
  <2> QED BY <2>1, <2>2, <2>3
<1>3. Cardinality(S) \in Good
  <2>1. Cardinality(S) \in Nat
    BY FS_CardinalityType
  <2> HIDE DEF Good
  <2> QED BY <1>1, <1>2, <2>1, ByInduction
<1> QED BY <1>3

LEMMA TakenWithout ==
  ASSUME NEW S, NEW x, NEW w \in S, IsFiniteSet(S), \A v \in S : Units(v, x) \in Nat
  PROVE  Taken(x, S) = Taken(x, S \ {w}) + Units(w, x)
<1> DEFINE Splits(n) == \A T \in SUBSET S : Cardinality(T) = n
                          => \A v \in T : Taken(x, T) = Taken(x, T \ {v}) + Units(v, x)
           Good == {n \in Nat : Splits(n)}
<1>1. \A T \in SUBSET S : IsFiniteSet(T) /\ Taken(x, T) \in Nat
  BY FS_Subset, TakenNat
<1>2. 0 \in Good
  BY OneLess
<1>3. \A n \in Nat : n \in Good => n + 1 \in Good
  <2>1. ASSUME NEW n \in Nat, Splits(n), NEW T \in SUBSET S, Cardinality(T) = n + 1, NEW v \in T
        PROVE  Taken(x, T) = Taken(x, T \ {v}) + Units(v, x)
    <3>1. PICK c \in T : c = AnyOf(T)
      BY <2>1, OneLess
    <3>2. Taken(x, T) = Units(c, x) + Taken(x, T \ {c})
      BY <1>1, <3>1, TakenSome
    <3>3. CASE c = v
      <4>1. Units(v, x) \in Nat /\ Taken(x, T \ {v}) \in Nat
        BY <1>1
      <4> QED BY <3>2, <3>3, <4>1
    <3>4. CASE c # v
      <4>1. T \ {c} \in SUBSET S /\ Cardinality(T \ {c}) = n /\ v \in T \ {c}
        BY <2>1, <3>4, OneLess
      <4>2. T \ {v} \in SUBSET S /\ Cardinality(T \ {v}) = n /\ c \in T \ {v}
        BY <2>1, <3>4, OneLess
      <4>3. Taken(x, T \ {c}) = Taken(x, (T \ {c}) \ {v}) + Units(v, x)
        BY <2>1, <4>1
      <4>4. Taken(x, T \ {v}) = Taken(x, (T \ {v}) \ {c}) + Units(c, x)
        BY <2>1, <4>2
      <4>5. Taken(x, (T \ {c}) \ {v}) = Taken(x, (T \ {v}) \ {c})
        <5>1. (T \ {c}) \ {v} = (T \ {v}) \ {c}
          OBVIOUS
        <5> QED BY <5>1, Zenon
      <4>6. Units(v, x) \in Nat /\ Units(c, x) \in Nat /\ Taken(x, (T \ {v}) \ {c}) \in Nat
        BY <1>1
      <4> QED BY <3>2, <4>3, <4>4, <4>5, <4>6
    <3> QED BY <3>3, <3>4
  <2>2. ASSUME NEW n \in Nat, Splits(n) PROVE Splits(n + 1)
    <3> SUFFICES ASSUME NEW T \in SUBSET S, Cardinality(T) = n + 1
                 PROVE  \A v \in T : Taken(x, T) = Taken(x, T \ {v}) + Units(v, x)
      OBVIOUS
    <3> HIDE DEF Splits
    <3> QED BY <2>1, <2>2
  <2> HIDE DEF Splits
  <2> QED BY <2>2
<1>4. Cardinality(S) \in Good
  <2>1. Cardinality(S) \in Nat
    BY FS_CardinalityType
  <2> HIDE DEF Good
  <2> QED BY <1>2, <1>3, <2>1, ByInduction
<1> QED BY <1>4

LEMMA TakenWith ==
  ASSUME NEW S, NEW x, NEW w, IsFiniteSet(S), w \notin S,
         \A v \in S \cup {w} : Units(v, x) \in Nat
  PROVE  Taken(x, S \cup {w}) = Taken(x, S) + Units(w, x)
<1>1. IsFiniteSet(S \cup {w}) /\ (S \cup {w}) \ {w} = S
  BY FS_AddElement
<1> QED BY <1>1, TakenWithout
-----------------------------------------------------------------------------
(* The layout of a DAG, step by step                                       *)

\* The operators an instance of TimeExpansion brings along are the usual ones.
LEMMA SameCardinality == ASSUME NEW dag, NEW S PROVE Plan(dag)!Cardinality(S) = Cardinality(S)
BY DEF Plan!Cardinality, Cardinality

LEMMA SameFinite == ASSUME NEW dag, NEW S PROVE Plan(dag)!IsFiniteSet(S) <=> IsFiniteSet(S)
BY DEF Plan!IsFiniteSet, IsFiniteSet

LayoutStep(f, n, dag) ==
  IF n = 0 THEN [o \in DOMAIN dag |-> Plan(dag)!Unplaced] ELSE Plan(dag)!PlaceNext(f[n - 1], DOMAIN dag)

\* f lists the rounds after each of the first N operations of the order.
LaysOut(f, N, dag) == f = [n \in 0 .. N |-> LayoutStep(f, n, dag)]

LEMMA LayoutDef ==
  ASSUME NEW dag
  PROVE  Plan(dag)!Layout(DOMAIN dag)
           = (CHOOSE f : LaysOut(f, Cardinality(DOMAIN dag), dag))[Cardinality(DOMAIN dag)]
<1>1. Plan(dag)!Layout(DOMAIN dag)
        = (CHOOSE f : LaysOut(f, Plan(dag)!Cardinality(DOMAIN dag), dag))[Plan(dag)!Cardinality(DOMAIN dag)]
  BY Zenon DEF LaysOut, LayoutStep, Plan!Layout
<1> QED BY <1>1, SameCardinality

LEMMA LayoutExists ==
  ASSUME NEW dag, NEW N \in Nat
  PROVE  \E f : LaysOut(f, N, dag)
<1> DEFINE Good == {n \in Nat : \E f : LaysOut(f, n, dag)}
<1>1. 0 \in Good
  <2> DEFINE f == [n \in 0 .. 0 |-> [o \in DOMAIN dag |-> Plan(dag)!Unplaced]]
  <2>1. \A n \in 0 .. 0 : f[n] = LayoutStep(f, n, dag)
    BY DEF LayoutStep
  <2>2. LaysOut(f, 0, dag)
    BY <2>1 DEF LaysOut
  <2> QED BY <2>2
<1>2. ASSUME NEW n \in Nat, n \in Good PROVE n + 1 \in Good
  <2>1. PICK f : LaysOut(f, n, dag)
    BY <1>2
  <2> DEFINE g == [m \in 0 .. n + 1 |-> LayoutStep(f, m, dag)]
  <2>2. \A m \in 0 .. n : f[m] = g[m]
    BY <2>1 DEF LaysOut
  <2>3. \A m \in 0 .. n + 1 : LayoutStep(f, m, dag) = LayoutStep(g, m, dag)
    <3> HIDE DEF g
    <3> QED BY <2>2 DEF LayoutStep
  <2>4. LaysOut(g, n + 1, dag)
    BY <2>3 DEF LaysOut
  <2>5. n + 1 \in Nat
    OBVIOUS
  <2> HIDE DEF g
  <2> QED BY <2>4, <2>5
<1>3. N \in Good
  <2> HIDE DEF Good
  <2> QED BY <1>1, <1>2, ByInduction
<1> QED BY <1>3

\* The rounds after the first n operations of the order.
RoundsAfter(n, dag) == (CHOOSE f : LaysOut(f, Cardinality(DOMAIN dag), dag))[n]

LEMMA LayoutSteps ==
  ASSUME NEW dag, IsFiniteSet(DOMAIN dag)
  PROVE  /\ Plan(dag)!Layout(DOMAIN dag) = RoundsAfter(Cardinality(DOMAIN dag), dag)
         /\ RoundsAfter(0, dag) = [o \in DOMAIN dag |-> -1]
         /\ \A n \in 1 .. Cardinality(DOMAIN dag) :
              RoundsAfter(n, dag) = Plan(dag)!PlaceNext(RoundsAfter(n - 1, dag), DOMAIN dag)
<1> DEFINE N == Cardinality(DOMAIN dag)
           F == CHOOSE f : LaysOut(f, N, dag)
<1>1. N \in Nat
  BY FS_CardinalityType
<1>2. LaysOut(F, N, dag)
  <2> HIDE DEF N
  <2> QED BY <1>1, LayoutExists, Zenon
<1>3. \A n \in 0 .. N : F[n] = LayoutStep(F, n, dag)
  <2> HIDE DEF N, F
  <2> QED BY <1>2 DEF LaysOut
<1>4. \A n \in 0 .. N : RoundsAfter(n, dag) = F[n]
  BY Zenon DEF RoundsAfter
<1>5. RoundsAfter(0, dag) = [o \in DOMAIN dag |-> -1]
  <2> HIDE DEF N, F
  <2> QED BY <1>1, <1>3, <1>4 DEF LayoutStep, Plan!Unplaced
<1>6. ASSUME NEW n \in 1 .. N
      PROVE  RoundsAfter(n, dag) = Plan(dag)!PlaceNext(RoundsAfter(n - 1, dag), DOMAIN dag)
  <2>1. n \in 0 .. N /\ n - 1 \in 0 .. N /\ n # 0
    BY <1>1
  <2> HIDE DEF N, F
  <2> QED BY <1>3, <1>4, <2>1 DEF LayoutStep
<1> QED BY <1>5, <1>6, LayoutDef DEF RoundsAfter

LEMMA LayoutDomain ==
  ASSUME NEW dag, IsFiniteSet(DOMAIN dag)
  PROVE  DOMAIN Plan(dag)!Layout(DOMAIN dag) = DOMAIN dag
<1> DEFINE N == Cardinality(DOMAIN dag)
           Good == {n \in Nat : n <= N => DOMAIN RoundsAfter(n, dag) = DOMAIN dag}
<1>1. N \in Nat
  BY FS_CardinalityType
<1>2. 0 \in Good
  BY LayoutSteps
<1>3. ASSUME NEW n \in Nat, n \in Good PROVE n + 1 \in Good
  <2>1. ASSUME n + 1 <= N PROVE DOMAIN RoundsAfter(n + 1, dag) = DOMAIN dag
    <3>1. DOMAIN RoundsAfter(n, dag) = DOMAIN dag
      BY <1>1, <1>3, <2>1
    <3>2. RoundsAfter(n + 1, dag) = Plan(dag)!PlaceNext(RoundsAfter(n, dag), DOMAIN dag)
      BY <1>1, <2>1, LayoutSteps
    <3> QED BY <3>1, <3>2 DEF Plan!PlaceNext
  <2>2. n + 1 \in Nat
    OBVIOUS
  <2> HIDE DEF N
  <2> QED BY <2>1, <2>2
<1>4. N \in Good
  <2> HIDE DEF Good
  <2> QED BY <1>1, <1>2, <1>3, ByInduction
<1> QED BY <1>1, <1>4, LayoutSteps

-----------------------------------------------------------------------------
(* Plans and variables                                                     *)

LEMMA GreatestImage ==
  ASSUME NEW S, IsFiniteSet(S), S # {}, NEW f, \A s \in S : f[s] \in Int
  PROVE  /\ Max({f[s] : s \in S}) \in Int
         /\ \E s \in S : Max({f[s_1] : s_1 \in S}) = f[s]
         /\ \A s \in S : f[s] <= Max({f[s_1] : s_1 \in S})
<1> DEFINE T == {f[s] : s \in S}
<1>1. T \in SUBSET Int /\ T # {}
  OBVIOUS
<1>2. IsFiniteSet(T)
  <2> DEFINE g == [s \in S |-> f[s]]
  <2>1. g \in Surjection(S, T)
    BY DEF Surjection
  <2> HIDE DEF g, T
  <2> QED BY <2>1, FS_Surjection
<1>3. Max(T) \in T /\ \A a \in T : a <= Max(T)
  <2> HIDE DEF T
  <2> QED BY <1>1, <1>2, GreatestInteger
<1> QED BY <1>1, <1>3

\* What the time expansion makes of a candidate it accepts.
GoodPlan(p) ==
  /\ p.duration \in Nat
  /\ \A y \in DOMAIN p.use : y \in Resource \X Nat /\ y[2] < p.duration /\ p.use[y] \in Nat

LEMMA AcceptedRounds ==
  ASSUME NEW c, Accepted(c)
  PROVE  LET round == Plan(c.dag)!Layout(DOMAIN c.dag)
         IN  /\ IsFiniteSet(DOMAIN round) /\ DOMAIN round = DOMAIN c.dag
             /\ c.terminals # {} /\ c.terminals \subseteq DOMAIN round
             /\ \A o \in DOMAIN round : round[o] \in Nat /\ \E e \in c.terminals : round[o] <= round[e]
<1> DEFINE ops == DOMAIN c.dag
           round == Plan(c.dag)!Layout(ops)
<1>1. Plan(c.dag)!NominalRounds[ops] = round
  BY DEF Plan!NominalRounds
<1>2. /\ IsFiniteSet(ops) /\ c.terminals # {} /\ c.terminals \subseteq ops
      /\ \A o \in ops : \E e \in c.terminals : round[o] \in 0 .. round[e]
  <2> HIDE DEF round
  <2> QED BY <1>1, SameFinite DEF Accepted, Plan!Expandable
<1>3. DOMAIN round = ops
  BY <1>2, LayoutDomain
<1>4. ASSUME NEW o \in ops PROVE round[o] \in Nat /\ \E e \in c.terminals : round[o] <= round[e]
  <2> HIDE DEF round
  <2>1. PICK e \in c.terminals : round[o] \in 0 .. round[e]
    BY <1>2
  <2>2. PICK d \in c.terminals : round[e] \in 0 .. round[d]
    BY <1>2
  <2> QED BY <2>1, <2>2
<1> QED BY <1>2, <1>3, <1>4

LEMMA UsageNatural ==
  ASSUME NEW dag, NEW round, IsFiniteSet(DOMAIN round), NEW r, NEW t
  PROVE  Plan(dag)!UsageIn(round, r, t) \in Nat
<1> DEFINE A == {o \in DOMAIN round : round[o] = t /\ r \in Plan(dag)!Demand[o]}
           B == {o \in DOMAIN round : r \in Plan(dag)!Hold[o] /\ Plan(dag)!HeldIn(o, t, round, DOMAIN round)}
<1>1. Plan(dag)!UsageIn(round, r, t) = Plan(dag)!Cardinality(A) + Plan(dag)!Cardinality(B)
  BY DEF Plan!UsageIn
<1>2. Cardinality(A) \in Nat /\ Cardinality(B) \in Nat
  BY FS_Subset, FS_CardinalityType
<1> HIDE DEF A, B
<1> QED BY <1>1, <1>2, SameCardinality

LEMMA ExpandedGood ==
  ASSUME NEW c, Accepted(c)
  PROVE  GoodPlan(Expanded(c))
<1> DEFINE round == Plan(c.dag)!Layout(DOMAIN c.dag)
           last == Max({round[o] : o \in DOMAIN round})
           end == Max({round[o] : o \in c.terminals})
           use == [x \in Resource \X (0 .. last) |-> Plan(c.dag)!UsageIn(round, x[1], x[2])]
           busy == {x \in DOMAIN use : use[x] > 0}
<1>1. /\ IsFiniteSet(DOMAIN round) /\ c.terminals # {} /\ c.terminals \subseteq DOMAIN round
      /\ \A o \in DOMAIN round : round[o] \in Nat /\ \E e \in c.terminals : round[o] <= round[e]
  BY AcceptedRounds
<1>2. end \in Nat /\ last \in Nat /\ last <= end
  <2> HIDE DEF round
  <2>1. IsFiniteSet(c.terminals) /\ DOMAIN round # {}
    BY <1>1, FS_Subset
  <2>2. \A o \in DOMAIN round : round[o] \in Int
    BY <1>1
  <2>3. end \in Int /\ (\E e \in c.terminals : end = round[e]) /\ \A e \in c.terminals : round[e] <= end
    BY <1>1, <2>1, <2>2, GreatestImage
  <2>4. last \in Int /\ \E o \in DOMAIN round : last = round[o]
    BY <1>1, <2>1, <2>2, GreatestImage
  <2> HIDE DEF last, end
  <2> QED BY <1>1, <2>3, <2>4
<1>3. Expanded(c).duration = 1 + end /\ Expanded(c).use = [x \in busy |-> use[x]]
  BY DEF Expanded
<1>4. ASSUME NEW y \in busy PROVE y \in Resource \X Nat /\ y[2] < 1 + end /\ use[y] \in Nat
  <2>1. y \in Resource \X (0 .. last)
    OBVIOUS
  <2>2. use[y] = Plan(c.dag)!UsageIn(round, y[1], y[2])
    BY <2>1
  <2>3. use[y] \in Nat
    <3> HIDE DEF round, use
    <3> QED BY <1>1, <2>2, UsageNatural
  <2> HIDE DEF last, end, use, busy
  <2> QED BY <1>2, <2>1, <2>3
<1> HIDE DEF last, end, use, busy
<1> QED BY <1>2, <1>3, <1>4 DEF GoodPlan

GoodVariable(v) ==
  /\ v.request \in Request /\ v.start \in Nat /\ GoodPlan(v.plan)
  /\ Arrival[v.request] <= v.start
  /\ Limit(v.request) \in Int /\ Limit(v.request) <= LastSlot
  /\ v.start + v.plan.duration <= Limit(v.request)

LEMMA VariablesGood ==
  ASSUME NEW r \in Request, NEW plan, GoodPlan(plan), NEW first \in Nat, NEW last \in Nat, NEW held,
         NEW v \in VariablesOf(r, plan, first, last, held)
  PROVE  /\ GoodVariable(v) /\ Fits(v, held) /\ v.request = r
         /\ v.plan = plan /\ first <= v.start /\ v.start <= last - 1
<1>1. /\ v.request = r /\ v.plan = plan /\ Fits(v, held)
      /\ v.start \in Max({Arrival[r], first}) .. Min({last - 1, Limit(r) - plan.duration})
  BY DEF VariablesOf
<1>2. Arrival[r] \in Nat /\ Deadline[r] \in Nat /\ LastSlot \in Nat
  BY PlannerAssumption
<1>3. Limit(r) \in Int /\ Limit(r) <= LastSlot
  BY <1>2, TwoIntegers DEF Limit
<1>4. plan.duration \in Nat
  BY DEF GoodPlan
<1>5. Max({Arrival[r], first}) \in Int /\ Arrival[r] <= Max({Arrival[r], first}) /\ first <= Max({Arrival[r], first})
  <2>1. Arrival[r] \in Int /\ first \in Int
    BY <1>2
  <2> QED BY <2>1, TwoIntegers
<1>6. /\ Min({last - 1, Limit(r) - plan.duration}) \in Int
      /\ Min({last - 1, Limit(r) - plan.duration}) <= Limit(r) - plan.duration
      /\ Min({last - 1, Limit(r) - plan.duration}) <= last - 1
  <2>1. last - 1 \in Int /\ Limit(r) - plan.duration \in Int
    BY <1>3, <1>4
  <2> QED BY <2>1, TwoIntegers
<1>7. /\ v.start \in Int /\ Max({Arrival[r], first}) <= v.start
      /\ v.start <= Min({last - 1, Limit(r) - plan.duration})
  BY <1>1, <1>5, <1>6
<1>8. /\ v.start \in Nat /\ Arrival[r] <= v.start /\ v.start + plan.duration <= Limit(r)
      /\ first <= v.start /\ v.start <= last - 1
  BY <1>2, <1>3, <1>4, <1>5, <1>6, <1>7
<1> QED BY <1>1, <1>3, <1>8 DEF GoodVariable

LEMMA UnitsNatural ==
  ASSUME NEW v, GoodVariable(v), NEW x
  PROVE  Units(v, x) \in Nat
BY DEF GoodVariable, GoodPlan, Units

\* Amounts of every resource in every slot, within the capacities.
Within == {held \in [Resource \X Slots -> Nat] : \A x \in Resource \X Slots : held[x] <= Capacity[x[1]]}

LEMMA WithStaysWithin ==
  ASSUME NEW v, GoodVariable(v), NEW held \in Within, Fits(v, held)
  PROVE  /\ With(v, held) \in Within
         /\ \A x \in Resource \X Slots : /\ With(v, held)[x] = held[x] + Units(v, x)
                                         /\ held[x] <= With(v, held)[x]
<1> DEFINE new == With(v, held)
<1>1. DOMAIN held = Resource \X Slots /\ \A x \in Resource \X Slots : held[x] \in Nat /\ held[x] <= Capacity[x[1]]
  BY DEF Within
<1>2. DOMAIN new = Resource \X Slots /\ \A x \in Resource \X Slots : new[x] = held[x] + Units(v, x)
  BY <1>1 DEF With
<1>3. ASSUME NEW x \in Resource \X Slots
      PROVE  new[x] \in Nat /\ held[x] <= new[x] /\ new[x] <= Capacity[x[1]]
  <2>1. held[x] \in Nat /\ Units(v, x) \in Nat
    BY <1>1, UnitsNatural
  <2>2. CASE Units(v, x) = 0
    <3>1. new[x] = held[x]
      BY <1>2, <2>1, <2>2
    <3> HIDE DEF new
    <3> QED BY <1>1, <2>1, <3>1
  <2>3. CASE Units(v, x) # 0
    <3> DEFINE y == <<x[1], x[2] - v.start>>
    <3>1. y \in DOMAIN v.plan.use /\ Units(v, x) = v.plan.use[y]
      BY <2>3 DEF Units
    <3>2. v.plan.use[y] + held[<<y[1], y[2] + v.start>>] <= Capacity[y[1]]
      BY <3>1 DEF Fits
    <3>3. y[1] = x[1] /\ <<y[1], y[2] + v.start>> = x
      <4>1. PICK s \in Slots : x[2] = s /\ x = <<x[1], s>>
        OBVIOUS
      <4>2. s \in Int /\ v.start \in Int
        BY PlannerAssumption DEF GoodVariable, Slots
      <4>3. (s - v.start) + v.start = s
        BY <4>2
      <4> QED BY <4>1, <4>3
    <3> HIDE DEF y, new
    <3> QED BY <1>2, <2>1, <3>1, <3>2, <3>3
  <2> QED BY <2>2, <2>3
<1>4. new \in [Resource \X Slots -> Nat]
  <2>1. new = [x \in Resource \X Slots |-> new[x]]
    BY <1>1 DEF With
  <2> HIDE DEF new
  <2> QED BY <1>3, <2>1
<1> QED BY <1>2, <1>3, <1>4 DEF Within

-----------------------------------------------------------------------------
(* Capacities                                                              *)

LEMMA EdgesFinite == IsFiniteSet(Edge)
<1> DEFINE pair == [p \in Node \X Node |-> {p[1], p[2]}]
           all == {{a, b} : a, b \in Node}
<1>1. pair \in Surjection(Node \X Node, all)
  <2>1. ASSUME NEW e \in all PROVE \E p \in Node \X Node : pair[p] = e
    <3>1. PICK a \in Node, b \in Node : e = {a, b}
      OBVIOUS
    <3>2. <<a, b>> \in Node \X Node /\ pair[<<a, b>>] = e
      BY <3>1
    <3> HIDE DEF pair
    <3> QED BY <3>2
  <2>2. pair \in [Node \X Node -> all]
    OBVIOUS
  <2> HIDE DEF pair, all
  <2> QED BY <2>1, <2>2 DEF Surjection
<1>2. IsFiniteSet(Node \X Node)
  BY FS_Product, PlannerAssumption
<1>3. IsFiniteSet(all)
  <2> HIDE DEF pair, all
  <2> QED BY <1>1, <1>2, FS_Surjection
<1> QED BY <1>3, FS_Subset, PlannerAssumption

LEMMA CapacityNatural == \A r \in Resource : Capacity[r] \in Nat
<1>1. ASSUME NEW n \in Node PROVE Plan(<<>>)!Degree(n) \in Nat
  <2> DEFINE near == {e \in Edge : n \in e}
  <2>1. Plan(<<>>)!Degree(n) = Plan(<<>>)!Cardinality(near)
    BY DEF Plan!Degree
  <2>2. Cardinality(near) \in Nat
    BY EdgesFinite, FS_Subset, FS_CardinalityType
  <2> HIDE DEF near
  <2> QED BY <2>1, <2>2, SameCardinality
<1>2. ASSUME NEW n \in Node PROVE Plan(<<>>)!MemorySize[n] \in Nat
  <2>1. Plan(<<>>)!Degree(n) * MemoryCapacity \in Nat /\ NodeMemoryCapacity \in Nat
    BY <1>1, PlannerAssumption
  <2> QED BY <2>1 DEF Plan!MemorySize
<1> SUFFICES ASSUME NEW r \in Resource PROVE Capacity[r] \in Nat
  OBVIOUS
<1>3. MemoryCapacity \in Nat /\ MaxWidth \in Nat
  BY PlannerAssumption
<1>4. Capacity[r] = CASE r[1] = "link" -> MemoryCapacity
                      [] r[1] = "genlane" -> MaxWidth
                      [] r[1] = "memory" -> Plan(<<>>)!MemorySize[r[2]]
                      [] OTHER -> 1
  BY DEF Capacity, Resource, Plan!Capacity
<1>5. r[1] = "memory" => r[2] \in Node
  BY DEF Resource, Plan!Resource
<1> QED BY <1>2, <1>3, <1>4, <1>5

\* Where a variable that is good uses a resource, there is an account of it.
LEMMA UsesSlots ==
  ASSUME NEW v, GoodVariable(v), NEW y \in DOMAIN v.plan.use
  PROVE  <<y[1], y[2] + v.start>> \in Resource \X Slots
<1>1. y \in Resource \X Nat /\ y[2] < v.plan.duration /\ v.plan.duration \in Nat
  BY DEF GoodVariable, GoodPlan
<1>2. /\ v.start \in Nat /\ v.start + v.plan.duration <= Limit(v.request)
      /\ Limit(v.request) \in Int /\ Limit(v.request) <= LastSlot /\ LastSlot \in Nat
  BY PlannerAssumption DEF GoodVariable
<1>3. y[1] \in Resource /\ y[2] \in Nat
  BY <1>1
<1>4. y[2] + v.start \in 0 .. LastSlot - 1
  BY <1>1, <1>2, <1>3
<1> QED BY <1>3, <1>4 DEF Slots

\* What fits beside more fits beside less.
LEMMA FitsBesideLess ==
  ASSUME NEW v, GoodVariable(v), NEW held \in Within, NEW more \in Within,
         \A x \in Resource \X Slots : held[x] <= more[x],
         Fits(v, more)
  PROVE  Fits(v, held)
<1> SUFFICES ASSUME NEW y \in DOMAIN v.plan.use
             PROVE  v.plan.use[y] + held[<<y[1], y[2] + v.start>>] <= Capacity[y[1]]
  BY DEF Fits
<1> DEFINE x == <<y[1], y[2] + v.start>>
<1>1. v.plan.use[y] + more[x] <= Capacity[y[1]]
  BY DEF Fits
<1>2. x \in Resource \X Slots
  BY UsesSlots
<1>3. v.plan.use[y] \in Nat /\ y[1] \in Resource
  BY DEF GoodVariable, GoodPlan
<1>4. Capacity[y[1]] \in Nat
  BY <1>3, CapacityNatural
<1> HIDE DEF x
<1>5. held[x] \in Nat /\ more[x] \in Nat /\ held[x] <= more[x]
  BY <1>2 DEF Within
<1> QED BY <1>1, <1>3, <1>4, <1>5 DEF x

\* One more variable is one more on the account.
LEMMA Adding ==
  ASSUME NEW S, IsFiniteSet(S), \A w \in S : GoodVariable(w),
         NEW v, GoodVariable(v), v \notin S,
         NEW base \in Within, NEW held \in Within, Fits(v, held),
         \A x \in Resource \X Slots : held[x] = base[x] + Taken(x, S)
  PROVE  /\ IsFiniteSet(S \cup {v}) /\ \A w \in S \cup {v} : GoodVariable(w)
         /\ With(v, held) \in Within
         /\ \A x \in Resource \X Slots : /\ With(v, held)[x] = base[x] + Taken(x, S \cup {v})
                                         /\ held[x] <= With(v, held)[x]
<1>1. IsFiniteSet(S \cup {v})
  BY FS_AddElement
<1>2. ASSUME NEW x \in Resource \X Slots
      PROVE  With(v, held)[x] = base[x] + Taken(x, S \cup {v}) /\ held[x] <= With(v, held)[x]
  <2>1. \A w \in S \cup {v} : Units(w, x) \in Nat
    BY UnitsNatural
  <2>2. Taken(x, S \cup {v}) = Taken(x, S) + Units(v, x)
    BY <2>1, TakenWith
  <2>3. Taken(x, S) \in Nat /\ Units(v, x) \in Nat /\ base[x] \in Nat
    BY <2>1, TakenNat DEF Within
  <2>4. With(v, held)[x] = held[x] + Units(v, x) /\ held[x] <= With(v, held)[x]
    BY WithStaysWithin
  <2> QED BY <2>2, <2>3, <2>4
<1> QED BY <1>1, <1>2, WithStaysWithin

-----------------------------------------------------------------------------
(* Routes: a path of the search is a simple path over the links it is given *)

WalkStep(W, n, links, a) ==
  IF n = 1 THEN {<<a>>}
  ELSE UNION {{Append(p, v) : v \in {w \in (UNION links) \ Range(p) : {Last(p), w} \in links}} : p \in W[n - 1]}

Walks(W, N, links, a) == W = [n \in 1 .. N |-> WalkStep(W, n, links, a)]

LEMMA WalksExist ==
  ASSUME NEW links, NEW a, NEW N \in Nat
  PROVE  \E W : Walks(W, N, links, a)
<1> DEFINE Good == {n \in Nat : \E W : Walks(W, n, links, a)}
<1>1. 0 \in Good
  <2> DEFINE W == [n \in 1 .. 0 |-> {}]
  <2>1. Walks(W, 0, links, a)
    BY DEF Walks
  <2> QED BY <2>1
<1>2. ASSUME NEW n \in Nat, n \in Good PROVE n + 1 \in Good
  <2>1. PICK W : Walks(W, n, links, a)
    BY <1>2
  <2> DEFINE V == [m \in 1 .. n + 1 |-> WalkStep(W, m, links, a)]
  <2>2. \A m \in 1 .. n : W[m] = V[m]
    BY <2>1 DEF Walks
  <2>3. ASSUME NEW m \in 1 .. n + 1 PROVE WalkStep(W, m, links, a) = WalkStep(V, m, links, a)
    <3>1. CASE m = 1
      BY <3>1 DEF WalkStep
    <3>2. CASE m # 1
      <4> HIDE DEF V
      <4>1. W[m - 1] = V[m - 1]
        BY <2>2, <3>2
      <4> QED BY <4>1, Zenon DEF WalkStep
    <3> QED BY <3>1, <3>2
  <2>4. Walks(V, n + 1, links, a)
    BY <2>3 DEF Walks
  <2>5. n + 1 \in Nat
    OBVIOUS
  <2> HIDE DEF V
  <2> QED BY <2>4, <2>5
<1>3. N \in Good
  <2> HIDE DEF Good
  <2> QED BY <1>1, <1>2, ByInduction
<1> QED BY <1>3

\* The walks from a, by their number of nodes.
WalksFrom(links, a) == CHOOSE W : Walks(W, Cardinality(UNION links), links, a)

LEMMA BetweenDef ==
  ASSUME NEW links, NEW a, NEW b
  PROVE  Between(links, a, b) =
           {p \in UNION {WalksFrom(links, a)[n] : n \in DOMAIN WalksFrom(links, a)} : Len(p) > 1 /\ Last(p) = b}
BY Zenon DEF Between, WalksFrom, Walks, WalkStep

\* A simple path over the links.
IsRoute(p, links) ==
  /\ p \in Seq(Node) /\ Len(p) > 1
  /\ \A k \in Hops(p) : Hop(p, k) \in links
  /\ \A k, l \in 1 .. Len(p) : p[k] = p[l] => k = l

SimpleWalk(p, n, links, a) ==
  /\ p \in Seq(Node \cup {a}) /\ Len(p) = n /\ p[1] = a
  /\ \A k \in Hops(p) : Hop(p, k) \in links
  /\ \A k, l \in 1 .. Len(p) : p[k] = p[l] => k = l

LEMMA WalkStepSimple ==
  ASSUME NEW links \in SUBSET Edge, NEW a, NEW n \in Nat \ {0}, NEW p, SimpleWalk(p, n, links, a),
         NEW v \in (UNION links) \ Range(p), {Last(p), v} \in links
  PROVE  SimpleWalk(Append(p, v), n + 1, links, a)
<1> DEFINE q == Append(p, v)
<1>1. v \in Node
  BY PlannerAssumption
<1>2. /\ p \in Seq(Node \cup {a}) /\ Len(p) = n /\ p[1] = a
      /\ \A k \in 1 .. n - 1 : {p[k], p[k + 1]} \in links
      /\ \A k, l \in 1 .. n : p[k] = p[l] => k = l
      /\ p[n] = Last(p)
  BY DEF SimpleWalk, Hops, Hop, Last
<1>3. q \in Seq(Node \cup {a}) /\ Len(q) = n + 1 /\ q[n + 1] = v /\ \A k \in 1 .. n : q[k] = p[k]
  BY <1>1, <1>2
<1>4. \A k \in 1 .. n : p[k] # v
  BY <1>2 DEF Range
<1> HIDE DEF q
<1>5. \A k \in 1 .. n : {q[k], q[k + 1]} \in links
  <2> SUFFICES ASSUME NEW k \in 1 .. n PROVE {q[k], q[k + 1]} \in links
    OBVIOUS
  <2>1. CASE k = n
    BY <1>2, <1>3, <2>1
  <2>2. CASE k # n
    <3>1. k \in 1 .. n - 1 /\ k + 1 \in 1 .. n
      BY <2>2
    <3> QED BY <1>2, <1>3, <3>1
  <2> QED BY <2>1, <2>2
<1>6. \A k, l \in 1 .. n + 1 : q[k] = q[l] => k = l
  <2> SUFFICES ASSUME NEW k \in 1 .. n + 1, NEW l \in 1 .. n + 1, q[k] = q[l] PROVE k = l
    OBVIOUS
  <2>1. k \in 1 .. n \/ k = n + 1
    OBVIOUS
  <2>2. l \in 1 .. n \/ l = n + 1
    OBVIOUS
  <2> QED BY <1>2, <1>3, <1>4, <2>1, <2>2
<1> QED BY <1>2, <1>3, <1>5, <1>6 DEF q, SimpleWalk, Hops, Hop

LEMMA BetweenRoutes ==
  ASSUME NEW links \in SUBSET Edge, NEW a, NEW b, NEW p \in Between(links, a, b)
  PROVE  IsRoute(p, links) /\ p[1] = a /\ p[Len(p)] = b
<1> DEFINE W == WalksFrom(links, a)
           N == Cardinality(UNION links)
           Good == {n \in Nat : n + 1 \in 1 .. N => \A w \in W[n + 1] : SimpleWalk(w, n + 1, links, a)}
<1>1. N \in Nat
  <2>1. UNION links \in SUBSET Node
    BY PlannerAssumption
  <2> QED BY <2>1, PlannerAssumption, FS_Subset, FS_CardinalityType
<1>2. Walks(W, N, links, a)
  <2> HIDE DEF N
  <2> QED BY <1>1, WalksExist, Zenon DEF WalksFrom, N
<1>3. DOMAIN W = 1 .. N /\ \A n \in 1 .. N : W[n] = WalkStep(W, n, links, a)
  <2> HIDE DEF W, N
  <2> QED BY <1>2 DEF Walks
<1> HIDE DEF W, N
<1>4. 0 \in Good
  <2> SUFFICES ASSUME 1 \in 1 .. N, NEW w \in W[1] PROVE SimpleWalk(w, 1, links, a)
    OBVIOUS
  <2>1. w = <<a>>
    BY <1>3 DEF WalkStep
  <2> QED BY <2>1 DEF SimpleWalk, Hops
<1>5. ASSUME NEW n \in Nat, n \in Good PROVE n + 1 \in Good
  <2>1. ASSUME n + 2 \in 1 .. N, NEW w \in W[n + 2] PROVE SimpleWalk(w, n + 2, links, a)
    <3>1. n + 1 \in 1 .. N /\ n + 2 # 1 /\ (n + 2) - 1 = n + 1
      BY <1>1, <2>1
    <3>2. W[n + 2] = UNION {{Append(q, v) : v \in {u \in (UNION links) \ Range(q) : {Last(q), u} \in links}} : q \in W[n + 1]}
      BY <1>3, <2>1, <3>1 DEF WalkStep
    <3>7. PICK q \in W[n + 1] : \E v \in (UNION links) \ Range(q) : {Last(q), v} \in links /\ w = Append(q, v)
      BY <2>1, <3>2
    <3>3. PICK v \in (UNION links) \ Range(q) : {Last(q), v} \in links /\ w = Append(q, v)
      BY <3>7
    <3>4. SimpleWalk(q, n + 1, links, a)
      BY <1>5, <3>1
    <3>8. n + 1 \in Nat \ {0}
      OBVIOUS
    <3>5. SimpleWalk(Append(q, v), (n + 1) + 1, links, a)
      BY <3>3, <3>4, <3>8, WalkStepSimple
    <3>6. (n + 1) + 1 = n + 2
      OBVIOUS
    <3> QED BY <3>3, <3>5, <3>6
  <2>2. n + 1 \in Nat /\ (n + 1) + 1 = n + 2
    OBVIOUS
  <2> QED BY <2>1, <2>2
<1>6. \A n \in Nat : n \in Good
  <2> HIDE DEF Good
  <2> QED BY <1>4, <1>5, ByInduction
<1>7. PICK n \in 1 .. N : p \in W[n]
  <2>1. p \in UNION {W[n] : n \in DOMAIN W}
    BY BetweenDef DEF W
  <2> QED BY <1>3, <2>1
<1>8. SimpleWalk(p, n, links, a)
  <2>1. n - 1 \in Nat /\ (n - 1) + 1 = n
    OBVIOUS
  <2> QED BY <1>6, <1>7, <2>1
<1>9. Len(p) > 1 /\ Last(p) = b
  BY BetweenDef
<1>10. a \in Node
  <2>1. {p[1], p[2]} \in links /\ p[1] = a
    BY <1>8, <1>9 DEF SimpleWalk, Hops, Hop
  <2> QED BY <2>1, PlannerAssumption
<1>11. Node \cup {a} = Node
  BY <1>10
<1> QED BY <1>8, <1>9, <1>11 DEF SimpleWalk, IsRoute, Last

LEMMA HeadAndTail ==
  ASSUME NEW S, NEW s \in Seq(S), s # <<>>
  PROVE  /\ Len(s) \in Nat /\ Len(s) > 0 /\ DOMAIN s = 1 .. Len(s) /\ 1 \in DOMAIN s
         /\ Head(s) = s[1] /\ s[1] \in S
         /\ Tail(s) \in Seq(S) /\ DOMAIN Tail(s) = 1 .. Len(s) - 1
         /\ \A k \in 1 .. Len(s) - 1 : Tail(s)[k] = s[k + 1] /\ k + 1 \in 1 .. Len(s)
         /\ Len(s) = 1 => Tail(s) = <<>>
<1>1. Len(s) \in Nat /\ Len(s) > 0 /\ DOMAIN s = 1 .. Len(s)
  OBVIOUS
<1>2. 1 \in DOMAIN s /\ Head(s) = s[1] /\ s[1] \in S
  BY <1>1
<1>3. Tail(s) \in Seq(S) /\ Len(Tail(s)) = Len(s) - 1 /\ DOMAIN Tail(s) = 1 .. Len(s) - 1
  BY <1>1
<1>4. \A k \in 1 .. Len(s) - 1 : Tail(s)[k] = s[k + 1] /\ k + 1 \in 1 .. Len(s)
  BY <1>1
<1>5. Len(s) = 1 => Tail(s) = <<>>
  BY <1>1, <1>3
<1> QED BY <1>1, <1>2, <1>3, <1>4, <1>5

-----------------------------------------------------------------------------
(* The inductive invariant of the planners                                 *)

\* The usage is what others hold and what the selected variables use.
Booked ==
  /\ reserved \in Within /\ usage \in Within
  /\ IsFiniteSet(chosen) /\ \A v \in chosen : GoodVariable(v)
  /\ \A v, w \in chosen : v.request = w.request => v = w
  /\ \A x \in Resource \X Slots : usage[x] = reserved[x] + Taken(x, chosen)

\* Each major path that waits is that of a request of its own, not served yet.
Waiting ==
  /\ majors \in Seq([request : Request, route : Seq(Node)])
  /\ \A k \in DOMAIN majors : majors[k].request \notin Served /\ IsRoute(majors[k].route, Edge)
  /\ \A k, l \in DOMAIN majors : majors[k].request = majors[l].request => k = l
  /\ phase = "recovery" => majors # <<>>
  /\ phase \in {"open", "select", "done"} => majors = <<>>

\* What has been tried cannot be added any more.
Tried ==
  /\ open \subseteq considered
  /\ \A v \in considered : GoodVariable(v) /\ (v \notin open => ~CanAdd(v))
  /\ phase = "done" /\ Baseline => open = {}

PlannerInv == asked \subseteq Request /\ slot \in Nat /\ Booked /\ Waiting /\ Tried

LEMMA ReservationsWithin == Reservations \subseteq Within
BY ReservationAssumption DEF Within

LEMMA PlannerInit_Inv == PlannerInit => PlannerInv
<1> SUFFICES ASSUME PlannerInit PROVE PlannerInv
  OBVIOUS
<1>1. asked \subseteq Request /\ slot \in Nat
  BY PlannerAssumption DEF PlannerInit
<1>2. Booked
  <2>1. reserved \in Within /\ usage = reserved /\ chosen = {}
    BY ReservationsWithin DEF PlannerInit
  <2>2. \A x \in Resource \X Slots : usage[x] = reserved[x] + Taken(x, chosen)
    BY <2>1, TakenNone DEF Within
  <2> QED BY <2>1, <2>2, FS_EmptySet DEF Booked
<1>3. Waiting
  BY DEF PlannerInit, Waiting
<1>4. Tried
  BY DEF PlannerInit, Tried
<1> QED BY <1>1, <1>2, <1>3, <1>4 DEF PlannerInv

LEMMA BestPathsRoutes ==
  ASSUME NEW a, NEW b, NEW p \in BestPaths(a, b)
  PROVE  /\ IsRoute(p, ResidualLinks(a, b)) /\ IsRoute(p, Edge)
         /\ p[1] = a /\ p[Len(p)] = b /\ CanReserve(p)
<1>1. ResidualLinks(a, b) \in SUBSET Edge
  BY DEF ResidualLinks
<1>2. p \in Between(ResidualLinks(a, b), a, b) /\ CanReserve(p)
  BY DEF BestPaths, ShortestRoutes
<1>3. IsRoute(p, ResidualLinks(a, b)) /\ p[1] = a /\ p[Len(p)] = b
  BY <1>1, <1>2, BetweenRoutes
<1> QED BY <1>1, <1>2, <1>3 DEF IsRoute

\* A variable that has been refused stays refused while more is taken.
LEMMA RefusedStays ==
  ASSUME NEW v, GoodVariable(v), ~CanAdd(v), usage \in Within, usage' \in Within,
         \A x \in Resource \X Slots : usage[x] <= usage'[x],
         Served \subseteq Served'
  PROVE  ~CanAdd(v)'
<1>1. CASE v.request \in Served
  BY <1>1 DEF CanAdd
<1>2. CASE ~Fits(v, usage)
  <2>1. ~Fits(v, usage')
    BY <1>2, FitsBesideLess
  <2> QED BY <2>1 DEF CanAdd, Fits
<1> QED BY <1>1, <1>2 DEF CanAdd

\* What the selection of one more variable, which can be added, does.
LEMMA Selecting ==
  ASSUME Booked, NEW v, GoodVariable(v), CanAdd(v),
         usage' = With(v, usage), chosen' = chosen \cup {v}, reserved' = reserved
  PROVE  /\ Booked'
         /\ Served' = Served \cup {v.request}
         /\ usage' \in Within
         /\ \A x \in Resource \X Slots : usage[x] <= usage'[x]
<1>1. v \notin chosen /\ v.request \notin Served /\ Fits(v, usage)
  BY DEF CanAdd, Served
<1>2. /\ IsFiniteSet(chosen \cup {v}) /\ \A w \in chosen \cup {v} : GoodVariable(w)
      /\ With(v, usage) \in Within
      /\ \A x \in Resource \X Slots : /\ With(v, usage)[x] = reserved[x] + Taken(x, chosen \cup {v})
                                      /\ usage[x] <= With(v, usage)[x]
  BY <1>1, Adding DEF Booked
<1>3. \A u, w \in chosen \cup {v} : u.request = w.request => u = w
  BY <1>1 DEF Booked, Served
<1>4. Booked'
  BY <1>2, <1>3 DEF Booked
<1>5. Served' = Served \cup {v.request}
  BY DEF Served
<1> QED BY <1>2, <1>4, <1>5

\* What leaves the selection alone leaves its account alone.
LEMMA BookedStays ==
  ASSUME Booked, UNCHANGED <<reserved, usage, chosen>>
  PROVE  Booked' /\ Served' = Served
BY DEF Booked, Served

\* What the majors wait for does not change while they stay as they are.
LEMMA WaitingStays ==
  ASSUME Waiting, majors' = majors, Served' = Served, phase' = "recovery" => majors # <<>>,
         phase' \in {"open", "select", "done"} => majors = <<>>
  PROVE  Waiting'
BY DEF Waiting

LEMMA TriedStays ==
  ASSUME Tried, considered' = considered, open' = open, method' = method,
         phase' = "done" /\ Baseline => open = {},
         \A v \in considered : GoodVariable(v) /\ ~CanAdd(v) => ~CanAdd(v)'
  PROVE  Tried'
BY DEF Tried, Baseline

LEMMA QcastRounds_Inv ==
  ASSUME PlannerInv, OpenRound \/ PickRecovery \/ EndMajors
  PROVE  PlannerInv'
<1>1. UNCHANGED <<method, asked, reserved, usage, chosen, majors, considered, open>>
  BY DEF OpenRound, PickRecovery, EndMajors, choiceVars
<1>2. Booked' /\ Served' = Served
  BY <1>1, BookedStays DEF PlannerInv
<1>3. slot' \in Nat
  BY DEF OpenRound, PickRecovery, EndMajors, PlannerInv
<1>4. (phase' = "recovery" => majors # <<>>) /\ (phase' \in {"open", "select", "done"} => majors = <<>>)
  BY DEF OpenRound, PickRecovery, EndMajors, PlannerInv, Waiting
<1>5. phase' # "done"
  BY DEF OpenRound, PickRecovery, EndMajors
<1>6. Waiting'
  BY <1>1, <1>2, <1>4, WaitingStays DEF PlannerInv
<1>7. \A v \in considered : ~CanAdd(v) => ~CanAdd(v)'
  BY <1>1, <1>2 DEF CanAdd, Fits
<1>8. Tried'
  BY <1>1, <1>5, <1>7, TriedStays DEF PlannerInv
<1> QED BY <1>1, <1>2, <1>3, <1>6, <1>8 DEF PlannerInv

LEMMA PickMajor_Inv ==
  ASSUME PlannerInv, PickMajor
  PROVE  PlannerInv'
<1>1. UNCHANGED <<method, asked, reserved, phase, slot, usage, chosen, considered, open>> /\ phase = "major"
  BY DEF PickMajor, choiceVars
<1>2. Booked' /\ Served' = Served
  BY <1>1, BookedStays DEF PlannerInv
<1>3. PICK m \in Majors : majors' = Append(majors, m)
  BY DEF PickMajor
<1>4. PICK r \in Searching, p \in UNION {BestPaths(Ends[q][1], Ends[q][2]) : q \in Searching} :
        m = [request |-> r, route |-> p]
  BY <1>3 DEF Majors
<1>5. r \in Request \ Served /\ \A k \in DOMAIN majors : majors[k].request # r
  BY <1>4 DEF Searching, Eligible, PlannerInv
<1>6. IsRoute(p, Edge)
  BY <1>4, BestPathsRoutes
<1>7. m \in [request : Request, route : Seq(Node)] /\ m.request = r /\ m.route = p
  BY <1>4, <1>5, <1>6 DEF IsRoute
<1>8. Waiting'
  <2> DEFINE n == Len(majors)
  <2>1. majors \in Seq([request : Request, route : Seq(Node)]) /\ DOMAIN majors = 1 .. n /\ n \in Nat
    BY DEF PlannerInv, Waiting
  <2>2. /\ majors' \in Seq([request : Request, route : Seq(Node)]) /\ DOMAIN majors' = 1 .. n + 1
        /\ \A k \in 1 .. n : majors'[k] = majors[k]
        /\ majors'[n + 1] = m
    BY <1>3, <1>7, <2>1
  <2>3. ASSUME NEW k \in 1 .. n + 1
        PROVE  majors'[k].request \notin Served /\ IsRoute(majors'[k].route, Edge)
    <3>1. k \in 1 .. n \/ k = n + 1
      BY <2>1
    <3>2. \A l \in 1 .. n : majors[l].request \notin Served /\ IsRoute(majors[l].route, Edge)
      BY <2>1 DEF PlannerInv, Waiting
    <3> QED BY <1>5, <1>6, <1>7, <2>2, <3>1, <3>2
  <2>4. ASSUME NEW k \in 1 .. n + 1, NEW l \in 1 .. n + 1, majors'[k].request = majors'[l].request
        PROVE  k = l
    <3>1. (k \in 1 .. n \/ k = n + 1) /\ (l \in 1 .. n \/ l = n + 1)
      BY <2>1
    <3>2. \A i, j \in 1 .. n : majors[i].request = majors[j].request => i = j
      BY <2>1 DEF PlannerInv, Waiting
    <3> QED BY <1>5, <1>7, <2>1, <2>2, <2>4, <3>1, <3>2
  <2> HIDE DEF n
  <2> QED BY <1>1, <1>2, <2>2, <2>3, <2>4 DEF Waiting
<1>9. \A v \in considered : ~CanAdd(v) => ~CanAdd(v)'
  BY <1>1, <1>2 DEF CanAdd, Fits
<1>10. Tried'
  BY <1>1, <1>9, TriedStays DEF PlannerInv
<1> QED BY <1>1, <1>2, <1>8, <1>10 DEF PlannerInv

LEMMA Commit_Inv ==
  ASSUME PlannerInv, Commit
  PROVE  PlannerInv'
<1> DEFINE c == Allocation(Head(majors), spare)
           r == Head(majors).request
           n == Len(majors)
<1>1. UNCHANGED <<method, asked, reserved, considered, open>> /\ phase = "recovery"
  BY DEF Commit
<1>2. /\ majors \in Seq([request : Request, route : Seq(Node)]) /\ majors # <<>>
      /\ n \in Nat /\ n > 0 /\ DOMAIN majors = 1 .. n /\ Head(majors) = majors[1]
      /\ r \in Request \ Served
  <2>1. majors \in Seq([request : Request, route : Seq(Node)]) /\ majors # <<>>
    BY <1>1 DEF PlannerInv, Waiting
  <2>2. n \in Nat /\ n > 0 /\ DOMAIN majors = 1 .. n /\ Head(majors) = majors[1] /\ 1 \in DOMAIN majors
    BY <2>1, HeadAndTail
  <2>3. majors[1] \in [request : Request, route : Seq(Node)] /\ majors[1].request \notin Served
    BY <2>1, <2>2, HeadAndTail DEF PlannerInv, Waiting
  <2> QED BY <2>1, <2>2, <2>3
<1>3. CASE ~Accepted(c)
  <2>1. UNCHANGED <<slot, majors, usage, chosen>> /\ phase' = "refused"
    BY <1>3 DEF Commit
  <2>2. Booked' /\ Served' = Served
    BY <1>1, <2>1, BookedStays DEF PlannerInv
  <2>3. Waiting'
    BY <2>1, <2>2, WaitingStays DEF PlannerInv
  <2>4. \A v \in considered : ~CanAdd(v) => ~CanAdd(v)'
    BY <2>1, <2>2 DEF CanAdd, Fits
  <2>5. Tried'
    BY <1>1, <2>1, <2>4, TriedStays DEF PlannerInv
  <2> QED BY <1>1, <2>1, <2>2, <2>3, <2>5 DEF PlannerInv
<1>4. CASE Accepted(c)
  <2> DEFINE vars == VariablesOf(r, Expanded(c), slot, slot + 1, usage)
  <2>1. /\ NextMajor
        /\ \/ UNCHANGED <<usage, chosen>>
           \/ \E v \in vars : usage' = With(v, usage) /\ chosen' = chosen \cup {v}
    BY <1>4 DEF Commit
  <2>2. slot \in Nat /\ slot + 1 \in Nat /\ GoodPlan(Expanded(c))
    BY <1>4, ExpandedGood DEF PlannerInv
  <2>3. \A v \in vars : GoodVariable(v) /\ Fits(v, usage) /\ v.request = r
    <3> HIDE DEF c, r
    <3> QED BY <1>2, <2>2, VariablesGood
  <2>4. /\ Booked' /\ Served \subseteq Served' /\ Served' \subseteq Served \cup {r} /\ usage' \in Within
        /\ \A x \in Resource \X Slots : usage[x] <= usage'[x]
    <3>1. CASE UNCHANGED <<usage, chosen>>
      <4>1. Booked' /\ Served' = Served
        BY <1>1, <3>1, BookedStays DEF PlannerInv
      <4>2. usage \in Within
        BY DEF PlannerInv, Booked
      <4> QED BY <3>1, <4>1, <4>2 DEF Within
    <3>2. ASSUME NEW v \in vars, usage' = With(v, usage), chosen' = chosen \cup {v}
          PROVE  /\ Booked' /\ Served' = Served \cup {r} /\ usage' \in Within
                 /\ \A x \in Resource \X Slots : usage[x] <= usage'[x]
      <4>1. GoodVariable(v) /\ CanAdd(v) /\ v.request = r
        BY <1>2, <2>3 DEF CanAdd
      <4> HIDE DEF vars, r
      <4> QED BY <1>1, <3>2, <4>1, Selecting DEF PlannerInv
    <3> HIDE DEF vars, r
    <3> QED BY <2>1, <3>1, <3>2
  <2>5. Waiting'
    <3>1. /\ majors' \in Seq([request : Request, route : Seq(Node)]) /\ DOMAIN majors' = 1 .. n - 1
          /\ \A k \in 1 .. n - 1 : majors'[k] = majors[k + 1] /\ k + 1 \in 1 .. n /\ k + 1 # 1
      BY <1>2, <2>1 DEF NextMajor
    <3>2. /\ \A k \in 1 .. n : majors[k].request \notin Served /\ IsRoute(majors[k].route, Edge)
          /\ \A k, l \in 1 .. n : majors[k].request = majors[l].request => k = l
      BY <1>2 DEF PlannerInv, Waiting
    <3>3. ASSUME NEW k \in 1 .. n - 1
          PROVE  majors'[k].request \notin Served' /\ IsRoute(majors'[k].route, Edge)
      <4>1. majors[k + 1].request # r
        BY <1>2, <3>1, <3>2
      <4> HIDE DEF r
      <4> QED BY <2>4, <3>1, <3>2, <4>1
    <3>4. ASSUME NEW k \in 1 .. n - 1, NEW l \in 1 .. n - 1, majors'[k].request = majors'[l].request
          PROVE  k = l
      <4>1. k + 1 \in 1 .. n /\ l + 1 \in 1 .. n /\ majors[k + 1].request = majors[l + 1].request
        BY <3>1, <3>4
      <4>2. k + 1 = l + 1
        BY <3>2, <4>1
      <4> HIDE DEF n
      <4> QED BY <1>2, <4>2
    <3>5. /\ phase' = "recovery" => majors' # <<>>
          /\ phase' \in {"open", "select", "done"} => majors' = <<>>
      <4>1. CASE n = 1
        <5>1. phase' = "open" /\ majors' = Tail(majors)
          BY <2>1, <4>1 DEF NextMajor
        <5>2. Tail(majors) = <<>>
          BY <1>2, <4>1, HeadAndTail
        <5> QED BY <5>1, <5>2
      <4>2. CASE n # 1
        <5>1. phase' = "recovery"
          BY <1>1, <2>1, <4>2 DEF NextMajor
        <5>2. 1 \in DOMAIN majors'
          BY <1>2, <3>1, <4>2
        <5> QED BY <5>1, <5>2
      <4> QED BY <4>1, <4>2
    <3> HIDE DEF n
    <3> QED BY <3>1, <3>3, <3>4, <3>5 DEF Waiting
  <2>6. \A v \in considered : GoodVariable(v) /\ ~CanAdd(v) => ~CanAdd(v)'
    <3>1. usage \in Within
      BY DEF PlannerInv, Booked
    <3> QED BY <2>4, <3>1, RefusedStays
  <2>7. phase' # "done" /\ slot' \in Nat
    BY <1>1, <2>1, <2>2 DEF NextMajor
  <2>8. Tried'
    BY <1>1, <2>6, <2>7, TriedStays DEF PlannerInv
  <2> QED BY <1>1, <2>4, <2>5, <2>7, <2>8 DEF PlannerInv
<1> QED BY <1>3, <1>4

LEMMA CanonicalAmong ==
  ASSUME NEW plans
  PROVE  Canonical(plans) \subseteq plans
<1> SUFFICES ASSUME NEW q \in plans PROVE (CHOOSE p \in plans : Equivalent(p, q)) \in plans
  BY DEF Canonical
<1>1. Equivalent(q, q)
  BY DEF Equivalent
<1> QED BY <1>1

LEMMA BuildProblem_Inv ==
  ASSUME PlannerInv, BuildProblem
  PROVE  PlannerInv'
<1>1. UNCHANGED <<method, asked, reserved, slot, majors, usage, chosen>>
  BY DEF BuildProblem, roundVars
<1>2. Booked' /\ Served' = Served
  BY <1>1, BookedStays DEF PlannerInv
<1>3. phase' # "recovery" /\ phase' # "done" /\ majors = <<>>
  BY DEF BuildProblem, PlannerInv, Waiting
<1>4. Waiting'
  BY <1>1, <1>2, <1>3, WaitingStays DEF PlannerInv
<1>5. CASE UNCHANGED <<considered, open>>
  <2>1. \A v \in considered : ~CanAdd(v) => ~CanAdd(v)'
    BY <1>1, <1>2 DEF CanAdd, Fits
  <2>2. Tried'
    BY <1>1, <1>3, <1>5, <2>1, TriedStays DEF PlannerInv
  <2> QED BY <1>1, <1>2, <1>4, <2>2 DEF PlannerInv
<1>6. CASE ~UNCHANGED <<considered, open>>
  <2>1. PICK routes :
          /\ \A r \in asked : \A c \in Catalogue(r, routes[r]) : Accepted(c)
          /\ considered' =
               UNION {UNION {VariablesOf(r, p, WindowStart, WindowEnd, reserved) :
                        p \in Canonical({Expanded(c) : c \in Catalogue(r, routes[r])})} : r \in asked}
          /\ open' = considered'
    BY <1>6 DEF BuildProblem
  <2>2. ASSUME NEW v \in considered' PROVE GoodVariable(v)
    <3>1. PICK r \in asked :
            v \in UNION {VariablesOf(r, p, WindowStart, WindowEnd, reserved) :
                           p \in Canonical({Expanded(c) : c \in Catalogue(r, routes[r])})}
      BY <2>1
    <3>2. PICK p \in Canonical({Expanded(c) : c \in Catalogue(r, routes[r])}) :
            v \in VariablesOf(r, p, WindowStart, WindowEnd, reserved)
      BY <3>1
    <3>3. PICK c \in Catalogue(r, routes[r]) : p = Expanded(c)
      BY <3>2, CanonicalAmong
    <3>4. GoodPlan(p) /\ r \in Request
      BY <2>1, <3>3, ExpandedGood DEF PlannerInv
    <3>5. WindowStart \in Nat /\ WindowEnd \in Nat
      BY PlannerAssumption
    <3> QED BY <3>2, <3>4, <3>5, VariablesGood
  <2>3. Tried'
    BY <1>3, <2>1, <2>2 DEF Tried
  <2> QED BY <1>1, <1>2, <1>4, <2>3 DEF PlannerInv
<1> QED BY <1>5, <1>6

LEMMA TryNext_Inv ==
  ASSUME PlannerInv, TryNext
  PROVE  PlannerInv'
<1>1. UNCHANGED <<method, asked, reserved, phase, slot, majors, considered>> /\ phase = "select"
  BY DEF TryNext, roundVars
<1>2. PICK v \in open : /\ open' = open \ {v}
                        /\ \/ CanAdd(v) /\ usage' = With(v, usage) /\ chosen' = chosen \cup {v}
                           \/ ~CanAdd(v) /\ UNCHANGED <<usage, chosen>>
  BY DEF TryNext, Untried
<1>3. v \in considered /\ GoodVariable(v)
  BY DEF PlannerInv, Tried
<1>4. /\ Booked' /\ Served \subseteq Served' /\ usage' \in Within
      /\ \A x \in Resource \X Slots : usage[x] <= usage'[x]
      /\ ~CanAdd(v)'
  <2>1. CASE CanAdd(v) /\ usage' = With(v, usage) /\ chosen' = chosen \cup {v}
    <3>1. /\ Booked' /\ Served' = Served \cup {v.request} /\ usage' \in Within
          /\ \A x \in Resource \X Slots : usage[x] <= usage'[x]
      BY <1>1, <1>3, <2>1, Selecting DEF PlannerInv
    <3> QED BY <3>1 DEF CanAdd
  <2>2. CASE ~CanAdd(v) /\ UNCHANGED <<usage, chosen>>
    <3>1. Booked' /\ Served' = Served
      BY <1>1, <2>2, BookedStays DEF PlannerInv
    <3>2. ~CanAdd(v)'
      BY <2>2, <3>1 DEF CanAdd, Fits
    <3>3. usage \in Within
      BY DEF PlannerInv, Booked
    <3> QED BY <2>2, <3>1, <3>2, <3>3 DEF Within
  <2> QED BY <1>2, <2>1, <2>2
<1>5. Waiting'
  <2>1. majors' = majors /\ majors = <<>> /\ phase' # "recovery"
    BY <1>1 DEF PlannerInv, Waiting
  <2> QED BY <2>1 DEF Waiting
<1>6. ASSUME NEW w \in considered, w \notin open' PROVE ~CanAdd(w)'
  <2>1. CASE w = v
    BY <1>4, <2>1
  <2>2. CASE w # v
    <3>1. GoodVariable(w) /\ ~CanAdd(w)
      BY <1>2, <1>6, <2>2 DEF PlannerInv, Tried
    <3>2. usage \in Within
      BY DEF PlannerInv, Booked
    <3> QED BY <1>4, <3>1, <3>2, RefusedStays
  <2> QED BY <2>1, <2>2
<1>7. Tried'
  <2>1. open' \subseteq considered' /\ \A w \in considered' : GoodVariable(w)
    BY <1>1, <1>2 DEF PlannerInv, Tried
  <2> QED BY <1>1, <1>6, <2>1 DEF Tried
<1> QED BY <1>1, <1>4, <1>5, <1>7 DEF PlannerInv

LEMMA Finish_Inv ==
  ASSUME PlannerInv, Finish
  PROVE  PlannerInv'
<1>1. UNCHANGED <<method, asked, reserved, slot, majors, usage, chosen, considered, open>> /\ phase' = "done"
  BY DEF Finish, roundVars, choiceVars
<1>2. Booked' /\ Served' = Served
  BY <1>1, BookedStays DEF PlannerInv
<1>3. majors = <<>>
  BY DEF Finish, PlannerInv, Waiting
<1>4. Waiting'
  BY <1>1, <1>2, <1>3, WaitingStays DEF PlannerInv
<1>5. \A v \in considered : ~CanAdd(v) => ~CanAdd(v)'
  BY <1>1, <1>2 DEF CanAdd, Fits
<1>6. Baseline => open = {}
  BY DEF Finish, Baseline
<1>7. Tried'
  BY <1>1, <1>5, <1>6, TriedStays DEF PlannerInv
<1> QED BY <1>1, <1>2, <1>4, <1>7 DEF PlannerInv

LEMMA PlannerStutters ==
  ASSUME PlannerInv, UNCHANGED plannerVars
  PROVE  PlannerInv'
<1>1. UNCHANGED <<method, asked, reserved, phase, slot, majors, usage, chosen, considered, open>>
  BY DEF plannerVars, roundVars, choiceVars
<1>2. Booked' /\ Served' = Served
  BY <1>1, BookedStays DEF PlannerInv
<1>3. Waiting'
  BY <1>1, <1>2, WaitingStays DEF PlannerInv, Waiting
<1>4. \A v \in considered : ~CanAdd(v) => ~CanAdd(v)'
  BY <1>1, <1>2 DEF CanAdd, Fits
<1>5. Tried'
  BY <1>1, <1>4, TriedStays DEF PlannerInv, Tried, Baseline
<1> QED BY <1>1, <1>2, <1>3, <1>5 DEF PlannerInv

\* The account of a window holds at every step of every planner: the usage is
\* what others hold and what the selected variables use, it stays within the
\* capacities, and what has been refused stays refused (plan_qcast_window,
\* _SelectionState).
THEOREM PlannerInvariant == PlannerSpec => []PlannerInv
<1>1. ASSUME PlannerInv, [PlannerNext]_plannerVars PROVE PlannerInv'
  <2>1. CASE OpenRound \/ PickRecovery \/ EndMajors
    BY <1>1, <2>1, QcastRounds_Inv
  <2>2. CASE PickMajor
    BY <1>1, <2>2, PickMajor_Inv
  <2>3. CASE Commit
    BY <1>1, <2>3, Commit_Inv
  <2>4. CASE BuildProblem
    BY <1>1, <2>4, BuildProblem_Inv
  <2>5. CASE TryNext
    BY <1>1, <2>5, TryNext_Inv
  <2>6. CASE Finish
    BY <1>1, <2>6, Finish_Inv
  <2>7. CASE Finished \/ UNCHANGED plannerVars
    BY <1>1, <2>7, PlannerStutters DEF Finished
  <2> QED BY <1>1, <2>1, <2>2, <2>3, <2>4, <2>5, <2>6, <2>7 DEF PlannerNext
<1> QED BY <1>1, PlannerInit_Inv, PTL DEF PlannerSpec

\* What a planner returns is feasible, whatever the requests, the network and
\* the reservations: one variable for a request, each within the time of its
\* request, all of them together within what the reservations leave.  The
\* RuntimeError the planners raise otherwise is unreachable.
THEOREM SelectionFeasibleAlways == PlannerSpec => []SelectionFeasible
<1>1. PlannerInv => SelectionFeasible
  <2> SUFFICES ASSUME PlannerInv PROVE SelectionFeasible
    OBVIOUS
  <2>1. \A v \in chosen : Arrival[v.request] <= v.start /\ Completion(v) <= Limit(v.request)
    BY DEF PlannerInv, Booked, GoodVariable, Completion
  <2>2. ASSUME NEW x \in DOMAIN reserved PROVE reserved[x] + Taken(x, chosen) <= Capacity[x[1]]
    BY DEF PlannerInv, Booked, Within
  <2> QED BY <2>1, <2>2 DEF PlannerInv, Booked, SelectionFeasible
<1> QED BY <1>1, PlannerInvariant, PTL

\* A baseline leaves out no variable that would still fit at the end, although
\* it looks at each of them once, when less was taken.
THEOREM NothingLeftOutAlways == PlannerSpec => []NothingLeftOut
<1>1. PlannerInv => NothingLeftOut
  BY DEF PlannerInv, Tried, NothingLeftOut
<1> QED BY <1>1, PlannerInvariant, PTL

-----------------------------------------------------------------------------
(* The nominal layout                                                      *)

LEMMA SameMax == ASSUME NEW dag, NEW S PROVE Plan(dag)!Max(S) = Max(S)
BY DEF Plan!Max, Max

LEMMA SameMin == ASSUME NEW dag, NEW S PROVE Plan(dag)!Min(S) = Min(S)
BY DEF Plan!Min, Min

\* The operations of a DAG that o waits for, and the nodes it touches.
Needs(o, dag) == Plan(dag)!Dependencies(o, DOMAIN dag)
Touched(o, dag) == Plan(dag)!Nodes[o]

\* A layout, complete or not: an operation comes after all it depends on, and
\* two swaps that share a node are in different rounds.
LaidOut(round, dag) ==
  /\ DOMAIN round = DOMAIN dag
  /\ \A o \in DOMAIN dag : round[o] \in Nat \/ round[o] = -1
  /\ \A o \in DOMAIN dag : round[o] # -1 => \A d \in Needs(o, dag) : round[d] \in Nat /\ round[d] < round[o]
  /\ \A o, p \in DOMAIN dag :
       dag[o].kind = "SWAP" /\ dag[p].kind = "SWAP" /\ o # p /\ round[o] = round[p] /\ round[o] # -1
         => Touched(o, dag) \cap Touched(p, dag) = {}

LEMMA NextIsReady ==
  ASSUME NEW dag, IsFiniteSet(DOMAIN dag), \A o \in DOMAIN dag : dag[o].rank \in Int,
         NEW round, Plan(dag)!Placeable(round, DOMAIN dag) # {}
  PROVE  Plan(dag)!NextInOrder(round, DOMAIN dag) \in Plan(dag)!Placeable(round, DOMAIN dag)
<1> DEFINE P == Plan(dag)!Placeable(round, DOMAIN dag)
           rank == [o \in DOMAIN dag |-> dag[o].rank]
           ranks == {rank[o] : o \in P}
<1>1. P \subseteq DOMAIN dag /\ IsFiniteSet(P)
  <2>1. P \subseteq DOMAIN dag
    BY DEF Plan!Placeable
  <2> QED BY <2>1, FS_Subset
<1>4. P # {}
  OBVIOUS
<1>2. \E o \in P : \A p \in P : rank[o] <= rank[p]
  <2> HIDE DEF P
  <2>1. ranks \in SUBSET Int /\ ranks # {}
    BY <1>1, <1>4
  <2>2. IsFiniteSet(ranks)
    <3> DEFINE g == [o \in P |-> rank[o]]
    <3>1. g \in Surjection(P, ranks)
      BY DEF Surjection
    <3> HIDE DEF g, ranks
    <3> QED BY <1>1, <3>1, FS_Surjection
  <2>3. Min(ranks) \in ranks /\ \A a \in ranks : Min(ranks) <= a
    <3> HIDE DEF ranks
    <3> QED BY <2>1, <2>2, LeastInteger
  <2> QED BY <2>3
<1>3. Plan(dag)!NextInOrder(round, DOMAIN dag) = CHOOSE o \in P : \A p \in P : rank[o] <= rank[p]
  BY Zenon DEF Plan!NextInOrder
<1>5. (CHOOSE o \in P : \A p \in P : rank[o] <= rank[p]) \in P
  <2> HIDE DEF P, rank
  <2> QED BY <1>2
<1> QED BY <1>3, <1>5

LEMMA EarliestSound ==
  ASSUME NEW dag, IsFiniteSet(DOMAIN dag), NEW round, NEW o,
         \A d \in Needs(o, dag) : round[d] \in Nat
  PROVE  /\ Plan(dag)!EarliestRound(o, round, DOMAIN dag) \in Nat
         /\ \A d \in Needs(o, dag) : round[d] < Plan(dag)!EarliestRound(o, round, DOMAIN dag)
<1> DEFINE D == Needs(o, dag)
           top == Max({round[d] : d \in D})
<1>1. Plan(dag)!EarliestRound(o, round, DOMAIN dag) = IF D = {} THEN 0 ELSE 1 + top
  BY SameMax DEF Plan!EarliestRound, Needs
<1>2. IsFiniteSet(D)
  <2>1. D \in SUBSET DOMAIN dag
    BY DEF Needs, Plan!Dependencies
  <2> HIDE DEF D
  <2> QED BY <2>1, FS_Subset
<1>3. ASSUME D # {}
      PROVE  top \in Nat /\ \A d \in D : round[d] <= top
  <2> HIDE DEF D
  <2>1. \A d \in D : round[d] \in Int
    BY DEF D
  <2>2. top \in Int /\ (\E d \in D : top = round[d]) /\ \A d \in D : round[d] <= top
    BY <1>2, <1>3, <2>1, GreatestImage
  <2> HIDE DEF top
  <2> QED BY <2>2 DEF D
<1> HIDE DEF D, top
<1> QED BY <1>1, <1>3 DEF D

LEMMA RoundSound ==
  ASSUME NEW dag, IsFiniteSet(DOMAIN dag), NEW round, LaidOut(round, dag), NEW o \in DOMAIN dag,
         \A d \in Needs(o, dag) : round[d] \in Nat
  PROVE  LET t == Plan(dag)!RoundOf(o, round, DOMAIN dag)
         IN  /\ t \in Nat /\ \A d \in Needs(o, dag) : round[d] < t
             /\ dag[o].kind = "SWAP" =>
                  \A p \in DOMAIN dag : dag[p].kind = "SWAP" /\ round[p] = t => Touched(p, dag) \cap Touched(o, dag) = {}
<1> DEFINE first == Plan(dag)!EarliestRound(o, round, DOMAIN dag)
           N == Cardinality(DOMAIN dag)
           Meets(p, t) == dag[p].kind = "SWAP" /\ round[p] = t /\ Touched(p, dag) \cap Touched(o, dag) # {}
           free == {t \in first .. first + N : ~ \E p \in DOMAIN dag : Meets(p, t)}
           t == Plan(dag)!RoundOf(o, round, DOMAIN dag)
<1>1. first \in Nat /\ \A d \in Needs(o, dag) : round[d] < first
  BY EarliestSound
<1>2. N \in Nat
  BY FS_CardinalityType
<1>3. t = IF dag[o].kind # "SWAP" THEN first ELSE Min(free)
  <2> DEFINE busy(s) == \E p \in Plan(dag)!Swaps(Plan(dag)!Placed(round)) :
                          round[p] = s /\ Touched(p, dag) \cap Touched(o, dag) # {}
             open_ == {s \in first .. first + N : ~busy(s)}
  <2>1. t = IF dag[o].kind # "SWAP" THEN first ELSE Min(open_)
    BY SameCardinality, SameMin DEF Plan!RoundOf, Touched
  <2>2. ASSUME NEW s \in first .. first + N PROVE busy(s) <=> \E p \in DOMAIN dag : Meets(p, s)
    <3>1. \A p : p \in Plan(dag)!Swaps(Plan(dag)!Placed(round))
                   <=> p \in DOMAIN dag /\ round[p] # -1 /\ dag[p].kind = "SWAP"
      BY DEF LaidOut, Plan!Swaps, Plan!Placed, Plan!Unplaced
    <3>2. s # -1
      BY <1>1, <1>2
    <3> QED BY <3>1, <3>2
  <2>3. open_ = free
    BY <2>2
  <2> QED BY <2>1, <2>3
<1>4. ASSUME free = {} PROVE FALSE
  <2>1. \A s \in first .. first + N : \E p \in DOMAIN dag : round[p] = s
    BY <1>4
  <2> DEFINE f == [s \in first .. first + N |-> CHOOSE p \in DOMAIN dag : round[p] = s]
  <2>2. \A s \in first .. first + N : f[s] \in DOMAIN dag /\ round[f[s]] = s
    BY <2>1
  <2>3. f \in Injection(first .. first + N, DOMAIN dag)
    <3>1. f \in [first .. first + N -> DOMAIN dag]
      BY <2>2
    <3>2. \A a, b \in first .. first + N : f[a] = f[b] => a = b
      <4> HIDE DEF f, first, N
      <4> QED BY <2>2
    <3> HIDE DEF f, first, N
    <3> QED BY <3>1, <3>2 DEF Injection, IsInjective
  <2>4. Cardinality(first .. first + N) <= N
    <3> HIDE DEF f
    <3> QED BY <2>3, FS_Injection
  <2>5. Cardinality(first .. first + N) = N + 1
    <3> HIDE DEF first, N
    <3>1. first \in Int /\ first + N \in Int /\ ~(first > first + N) /\ (first + N) - first + 1 = N + 1
      BY <1>1, <1>2
    <3> QED BY <3>1, FS_Interval
  <2> HIDE DEF N
  <2> QED BY <1>2, <2>4, <2>5
<1>5. Min(free) \in free
  <2>1. free \in SUBSET Int
    BY <1>1, <1>2
  <2>2. IsFiniteSet(free)
    <3>1. IsFiniteSet(first .. first + N)
      <4> HIDE DEF first, N
      <4> QED BY <1>1, <1>2, FS_Interval
    <3> QED BY <3>1, FS_Subset
  <2> HIDE DEF free
  <2> QED BY <1>4, <2>1, <2>2, LeastInteger
<1>6. t \in Nat /\ first <= t
  <2>1. Min(free) \in first .. first + N
    BY <1>5
  <2> HIDE DEF t, free, first, N
  <2> QED BY <1>1, <1>2, <1>3, <2>1
<1>7. dag[o].kind = "SWAP" => \A p \in DOMAIN dag : ~Meets(p, t)
  <2>1. \A p \in DOMAIN dag : ~Meets(p, Min(free))
    BY <1>5
  <2> HIDE DEF t, free, first, N, Meets
  <2> QED BY <1>3, <2>1
<1>8. \A d \in Needs(o, dag) : round[d] < t
  <2> HIDE DEF t, free, first, N
  <2> QED BY <1>1, <1>6
<1> HIDE DEF t, free, first, N
<1> QED BY <1>6, <1>7, <1>8 DEF t

LEMMA PlaceNextSound ==
  ASSUME NEW dag, IsFiniteSet(DOMAIN dag), \A o \in DOMAIN dag : dag[o].rank \in Int,
         NEW round, LaidOut(round, dag)
  PROVE  LaidOut(Plan(dag)!PlaceNext(round, DOMAIN dag), dag)
<1> DEFINE ops == DOMAIN dag
           ready == Plan(dag)!Placeable(round, ops)
           o == Plan(dag)!NextInOrder(round, ops)
           t == Plan(dag)!RoundOf(o, round, ops)
           new == [round EXCEPT ![o] = t]
<1>1. Plan(dag)!PlaceNext(round, ops) = IF ready = {} THEN round ELSE new
  BY DEF Plan!PlaceNext
<1>2. CASE ready = {}
  <2> HIDE DEF ready, new
  <2> QED BY <1>1, <1>2
<1>3. CASE ready # {}
  <2>1. o \in ready
    BY <1>3, NextIsReady
  <2>2. \A p \in ops : round[p] \in Nat \/ round[p] = -1
    BY DEF LaidOut
  <2>3. o \in ops /\ round[o] = -1 /\ \A d \in Needs(o, dag) : d \in ops /\ round[d] \in Nat
    <3> HIDE DEF o
    <3>1. o \in ops /\ ~(o \in Plan(dag)!Placed(round)) /\ Needs(o, dag) \subseteq Plan(dag)!Placed(round)
      BY <2>1 DEF Plan!Placeable, Needs
    <3>2. DOMAIN round = ops
      BY DEF LaidOut
    <3> QED BY <2>2, <3>1, <3>2 DEF Plan!Placed, Plan!Unplaced
  <2>4. /\ t \in Nat /\ \A d \in Needs(o, dag) : round[d] < t
        /\ dag[o].kind = "SWAP" =>
             \A p \in ops : dag[p].kind = "SWAP" /\ round[p] = t => Touched(p, dag) \cap Touched(o, dag) = {}
    <3> HIDE DEF o
    <3> QED BY <2>3, RoundSound
  <2> HIDE DEF o, t
  <2>5. DOMAIN new = ops /\ new[o] = t /\ \A p \in ops : p # o => new[p] = round[p]
    BY <2>3 DEF LaidOut
  <2> HIDE DEF new
  <2>6. \A p \in ops : new[p] \in Nat \/ new[p] = -1
    BY <2>2, <2>4, <2>5
  <2>7. ASSUME NEW p \in ops, new[p] # -1, NEW d \in Needs(p, dag)
        PROVE  new[d] \in Nat /\ new[d] < new[p]
    <3>1. d \in ops
      BY DEF Needs, Plan!Dependencies
    <3>2. CASE p = o
      <4>1. d # o
        BY <2>3, <3>2
      <4> QED BY <2>3, <2>4, <2>5, <3>1, <3>2, <4>1
    <3>3. CASE p # o
      <4>1. round[d] \in Nat /\ round[d] < round[p]
        BY <2>5, <2>7, <3>3 DEF LaidOut
      <4>2. d # o
        BY <2>3, <4>1
      <4> QED BY <2>5, <3>1, <3>3, <4>1, <4>2
    <3> QED BY <3>2, <3>3
  <2>8. ASSUME NEW p \in ops, NEW q \in ops, dag[p].kind = "SWAP", dag[q].kind = "SWAP", p # q,
               new[p] = new[q], new[p] # -1
        PROVE  Touched(p, dag) \cap Touched(q, dag) = {}
    <3>1. CASE p = o
      <4>1. round[q] = t
        BY <2>5, <2>8, <3>1
      <4> QED BY <2>4, <2>8, <3>1, <4>1
    <3>2. CASE q = o
      <4>1. round[p] = t
        BY <2>5, <2>8, <3>2
      <4> QED BY <2>4, <2>8, <3>2, <4>1
    <3>3. CASE p # o /\ q # o
      <4>1. round[p] = round[q] /\ round[p] # -1
        BY <2>5, <2>8, <3>3
      <4> QED BY <2>8, <4>1 DEF LaidOut
    <3> QED BY <3>1, <3>2, <3>3
  <2>9. LaidOut(new, dag)
    BY <2>5, <2>6, <2>7, <2>8 DEF LaidOut
  <2> QED BY <1>1, <1>3, <2>9
<1> QED BY <1>2, <1>3

\* The nominal layout of any DAG, complete or not, keeps an operation after
\* all it depends on and the swaps of a round away from each other
\* (_topological_operations, _serialize_shared_swap_nodes).
THEOREM LayoutSound ==
  ASSUME NEW dag, IsFiniteSet(DOMAIN dag), \A o \in DOMAIN dag : dag[o].rank \in Int
  PROVE  LaidOut(Plan(dag)!Layout(DOMAIN dag), dag)
<1> DEFINE N == Cardinality(DOMAIN dag)
           Good == {n \in Nat : n <= N => LaidOut(RoundsAfter(n, dag), dag)}
<1>1. N \in Nat
  BY FS_CardinalityType
<1>2. 0 \in Good
  <2>1. RoundsAfter(0, dag) = [o \in DOMAIN dag |-> -1]
    BY LayoutSteps
  <2> QED BY <2>1 DEF LaidOut
<1>3. ASSUME NEW n \in Nat, n \in Good PROVE n + 1 \in Good
  <2>1. ASSUME n + 1 <= N PROVE LaidOut(RoundsAfter(n + 1, dag), dag)
    <3>1. LaidOut(RoundsAfter(n, dag), dag)
      BY <1>1, <1>3, <2>1
    <3>2. RoundsAfter(n + 1, dag) = Plan(dag)!PlaceNext(RoundsAfter(n, dag), DOMAIN dag)
      BY <1>1, <2>1, LayoutSteps
    <3> QED BY <3>1, <3>2, PlaceNextSound
  <2>2. n + 1 \in Nat
    OBVIOUS
  <2> HIDE DEF N
  <2> QED BY <2>1, <2>2
<1>4. N \in Good
  <2> HIDE DEF Good
  <2> QED BY <1>1, <1>2, <1>3, ByInduction
<1> QED BY <1>1, <1>4, LayoutSteps

-----------------------------------------------------------------------------
(* What the paths of a round claim                                         *)

\* Hop k of a route claims one unit of x.
Claims(route, k, x) ==
  \/ x[1] \in {"link", "genlane"} /\ x[2] = Hop(route, k)
  \/ x[1] = "memory" /\ x[2] \in Hop(route, k)

HopsClaiming(route, x) == {k \in Hops(route) : Claims(route, k, x)}

\* The claims of the paths of a sequence, each a position and a hop.
ClaimsOf(s, x) == {c \in (DOMAIN s) \X Nat : c[2] \in HopsClaiming(s[c[1]].route, x)}

LEMMA ImageSize ==
  ASSUME NEW S, IsFiniteSet(S), NEW f, \A a, b \in S : f[a] = f[b] => a = b
  PROVE  IsFiniteSet({f[s] : s \in S}) /\ Cardinality({f[s] : s \in S}) = Cardinality(S)
<1> DEFINE T == {f[s] : s \in S}
           g == [s \in S |-> f[s]]
<1>1. g \in Surjection(S, T)
  BY DEF Surjection
<1>2. g \in Injection(S, T)
  BY DEF Injection, IsInjective
<1> HIDE DEF g, T
<1>3. IsFiniteSet(T) /\ Cardinality(T) = Cardinality(S)
  BY <1>1, <1>2, FS_Surjection
<1> QED BY <1>3 DEF T

LEMMA HopsFinite ==
  ASSUME NEW route \in Seq(Node), NEW x
  PROVE  /\ IsFiniteSet(HopsClaiming(route, x)) /\ Cardinality(HopsClaiming(route, x)) \in Nat
         /\ HopsClaiming(route, x) \subseteq Nat
<1>1. Hops(route) \in SUBSET Nat /\ IsFiniteSet(Hops(route))
  <2>1. 1 \in Int /\ Len(route) - 1 \in Int
    OBVIOUS
  <2> QED BY <2>1, FS_Interval DEF Hops
<1>2. HopsClaiming(route, x) \in SUBSET Hops(route)
  BY DEF HopsClaiming
<1> QED BY <1>1, <1>2, FS_Subset, FS_CardinalityType

LEMMA PathDemandClaims ==
  ASSUME NEW route \in Seq(Node), NEW x \in Resource
  PROVE  PathDemand(route)[x] = Cardinality(HopsClaiming(route, x)) /\ PathDemand(route)[x] \in Nat
BY HopsFinite DEF PathDemand, HopsClaiming, Claims

\* The claims of the path at position n.
ClaimsAt(n, route, x) == {<<n, k>> : k \in HopsClaiming(route, x)}

LEMMA ClaimsAtSize ==
  ASSUME NEW n, NEW route \in Seq(Node), NEW x
  PROVE  /\ IsFiniteSet(ClaimsAt(n, route, x))
         /\ Cardinality(ClaimsAt(n, route, x)) = Cardinality(HopsClaiming(route, x))
<1> DEFINE H == HopsClaiming(route, x)
           f == [k \in H |-> <<n, k>>]
<1>1. ClaimsAt(n, route, x) = {f[k] : k \in H}
  BY DEF ClaimsAt
<1>2. \A a, b \in H : f[a] = f[b] => a = b
  OBVIOUS
<1>3. IsFiniteSet(H)
  BY HopsFinite
<1> HIDE DEF f, H
<1>4. IsFiniteSet({f[k] : k \in H}) /\ Cardinality({f[k] : k \in H}) = Cardinality(H)
  BY <1>2, <1>3, ImageSize
<1> QED BY <1>1, <1>4 DEF H

LEMMA ClaimsOfNone == ASSUME NEW x PROVE IsFiniteSet(ClaimsOf(<<>>, x)) /\ Cardinality(ClaimsOf(<<>>, x)) = 0
<1>1. ClaimsOf(<<>>, x) = {}
  BY DEF ClaimsOf
<1> QED BY <1>1, FS_EmptySet

LEMMA DisjointSize ==
  ASSUME NEW S, NEW T, IsFiniteSet(S), IsFiniteSet(T), S \cap T = {}
  PROVE  IsFiniteSet(S \cup T) /\ Cardinality(S \cup T) = Cardinality(S) + Cardinality(T)
<1>1. /\ IsFiniteSet(S \cup T)
      /\ Cardinality(S \cup T) = Cardinality(S) + Cardinality(T) - Cardinality(S \cap T)
  BY FS_Union
<1>2. Cardinality(S \cap T) = 0 /\ Cardinality(S) \in Nat /\ Cardinality(T) \in Nat
  BY FS_EmptySet, FS_CardinalityType
<1> QED BY <1>1, <1>2

LEMMA ClaimsOfAppend ==
  ASSUME NEW R, NEW s \in Seq(R), NEW m, m.route \in Seq(Node), NEW x, IsFiniteSet(ClaimsOf(s, x))
  PROVE  /\ IsFiniteSet(ClaimsOf(Append(s, m), x))
         /\ Cardinality(ClaimsOf(Append(s, m), x))
              = Cardinality(ClaimsOf(s, x)) + Cardinality(HopsClaiming(m.route, x))
<1> DEFINE n == Len(s)
           t == Append(s, m)
           new == ClaimsAt(n + 1, m.route, x)
<1>1. n \in Nat /\ DOMAIN s = 1 .. n /\ DOMAIN t = 1 .. n + 1 /\ t[n + 1] = m /\ \A k \in 1 .. n : t[k] = s[k]
  OBVIOUS
<1>2. ClaimsOf(t, x) = ClaimsOf(s, x) \cup new
  <2> HIDE DEF t, n
  <2>1. ASSUME NEW c \in ClaimsOf(t, x) PROVE c \in ClaimsOf(s, x) \cup new
    <3>1. /\ c[1] \in 1 .. n + 1 /\ c[2] \in Nat /\ c = <<c[1], c[2]>>
          /\ c[2] \in HopsClaiming(t[c[1]].route, x)
      BY <1>1, <2>1 DEF ClaimsOf
    <3>2. CASE c[1] = n + 1
      BY <1>1, <3>1, <3>2 DEF ClaimsAt
    <3>3. CASE c[1] # n + 1
      <4>1. c[1] \in 1 .. n
        BY <1>1, <3>1, <3>3
      <4> QED BY <1>1, <3>1, <4>1 DEF ClaimsOf
    <3> QED BY <3>2, <3>3
  <2>2. ASSUME NEW c \in ClaimsOf(s, x) PROVE c \in ClaimsOf(t, x)
    <3>1. c[1] \in 1 .. n /\ c[1] \in 1 .. n + 1 /\ c[2] \in Nat /\ c = <<c[1], c[2]>>
      BY <1>1, <2>2 DEF ClaimsOf
    <3> QED BY <1>1, <2>2, <3>1 DEF ClaimsOf
  <2>3. ASSUME NEW c \in new PROVE c \in ClaimsOf(t, x)
    <3>1. PICK k \in HopsClaiming(m.route, x) : c = <<n + 1, k>>
      BY DEF ClaimsAt
    <3>2. k \in Nat /\ n + 1 \in 1 .. n + 1
      BY <1>1, HopsFinite
    <3> QED BY <1>1, <3>1, <3>2 DEF ClaimsOf
  <2> QED BY <2>1, <2>2, <2>3
<1>3. ClaimsOf(s, x) \cap new = {}
  BY <1>1 DEF ClaimsOf, ClaimsAt
<1>4. IsFiniteSet(new) /\ Cardinality(new) = Cardinality(HopsClaiming(m.route, x))
  BY ClaimsAtSize
<1> HIDE DEF t, new
<1> QED BY <1>2, <1>3, <1>4, DisjointSize DEF t

LEMMA ClaimsOfTail ==
  ASSUME NEW R, NEW s \in Seq(R), s # <<>>, s[1].route \in Seq(Node), NEW x, IsFiniteSet(ClaimsOf(s, x))
  PROVE  /\ IsFiniteSet(ClaimsOf(Tail(s), x))
         /\ Cardinality(ClaimsOf(s, x))
              = Cardinality(HopsClaiming(s[1].route, x)) + Cardinality(ClaimsOf(Tail(s), x))
<1> DEFINE n == Len(s)
           t == Tail(s)
           old == ClaimsAt(1, s[1].route, x)
           rest == ClaimsOf(s, x) \ old
           f == [c \in rest |-> <<c[1] - 1, c[2]>>]
<1>1. /\ n \in Nat /\ n > 0 /\ DOMAIN s = 1 .. n /\ DOMAIN t = 1 .. n - 1
      /\ \A k \in 1 .. n - 1 : t[k] = s[k + 1] /\ k + 1 \in 1 .. n
  BY HeadAndTail
<1>2. old \subseteq ClaimsOf(s, x)
  <2>1. ASSUME NEW c \in old PROVE c \in ClaimsOf(s, x)
    <3>1. PICK k \in HopsClaiming(s[1].route, x) : c = <<1, k>>
      BY DEF ClaimsAt
    <3>2. k \in Nat /\ 1 \in 1 .. n
      BY <1>1, HopsFinite
    <3> QED BY <1>1, <3>1, <3>2 DEF ClaimsOf
  <2> QED BY <2>1
<1>3. IsFiniteSet(old) /\ Cardinality(old) = Cardinality(HopsClaiming(s[1].route, x))
  BY ClaimsAtSize
<1>4. IsFiniteSet(rest) /\ Cardinality(ClaimsOf(s, x)) = Cardinality(old) + Cardinality(rest)
  <2>1. IsFiniteSet(rest) /\ old \cap rest = {} /\ old \cup rest = ClaimsOf(s, x)
    BY <1>2, FS_Subset
  <2> HIDE DEF rest, old
  <2> QED BY <1>3, <2>1, DisjointSize
<1>5. ASSUME NEW c \in rest
      PROVE  /\ c = <<c[1], c[2]>> /\ c[1] \in 2 .. n /\ c[2] \in Nat
             /\ c[2] \in HopsClaiming(s[c[1]].route, x)
  <2>1. c = <<c[1], c[2]>> /\ c[1] \in 1 .. n /\ c[2] \in Nat /\ c[2] \in HopsClaiming(s[c[1]].route, x)
    BY <1>1 DEF ClaimsOf
  <2>2. c[1] # 1
    BY <2>1 DEF ClaimsAt
  <2> QED BY <1>1, <2>1, <2>2
<1>6. ClaimsOf(t, x) = {f[c] : c \in rest}
  <2>1. ASSUME NEW c \in rest PROVE f[c] \in ClaimsOf(t, x)
    <3>1. c[1] - 1 \in 1 .. n - 1 /\ (c[1] - 1) + 1 = c[1]
      BY <1>1, <1>5
    <3>2. t[c[1] - 1] = s[c[1]]
      BY <1>1, <3>1
    <3>3. f[c] = <<c[1] - 1, c[2]>>
      OBVIOUS
    <3> HIDE DEF f, t, n, rest
    <3> QED BY <1>1, <1>5, <3>1, <3>2, <3>3 DEF ClaimsOf
  <2>2. ASSUME NEW d \in ClaimsOf(t, x) PROVE \E c \in rest : d = f[c]
    <3>1. d = <<d[1], d[2]>> /\ d[1] \in 1 .. n - 1 /\ d[2] \in Nat /\ d[2] \in HopsClaiming(t[d[1]].route, x)
      BY <1>1 DEF ClaimsOf
    <3>2. d[1] + 1 \in 1 .. n /\ d[1] + 1 # 1 /\ t[d[1]] = s[d[1] + 1] /\ (d[1] + 1) - 1 = d[1]
      BY <1>1, <3>1
    <3> DEFINE c == <<d[1] + 1, d[2]>>
    <3>3. c \in ClaimsOf(s, x)
      BY <1>1, <3>1, <3>2 DEF ClaimsOf
    <3>4. c \notin old
      BY <3>2 DEF ClaimsAt
    <3>5. c \in rest
      BY <3>3, <3>4
    <3>6. f[c] = <<(d[1] + 1) - 1, d[2]>>
      BY <3>5
    <3> HIDE DEF f, rest, c
    <3> QED BY <3>1, <3>2, <3>5, <3>6
  <2> HIDE DEF f, rest, t
  <2> QED BY <2>1, <2>2
<1>7. ASSUME NEW a \in rest, NEW b \in rest, f[a] = f[b] PROVE a = b
  <2>1. a[1] - 1 = b[1] - 1 /\ a[2] = b[2]
    BY <1>7
  <2>2. a[1] \in Int /\ b[1] \in Int /\ a = <<a[1], a[2]>> /\ b = <<b[1], b[2]>>
    BY <1>5
  <2>3. a[1] = b[1]
    BY <2>1, <2>2
  <2> HIDE DEF rest, f
  <2> QED BY <2>1, <2>2, <2>3
<1> HIDE DEF f, rest, old, t
<1>8. IsFiniteSet(ClaimsOf(t, x)) /\ Cardinality(ClaimsOf(t, x)) = Cardinality(rest)
  BY <1>4, <1>6, <1>7, ImageSize
<1> QED BY <1>3, <1>4, <1>8 DEF t

-----------------------------------------------------------------------------
(* The DAG of an allocation                                                *)

\* A generation of the major path, and one of a recovery path.
OfMajor(o, op, route) ==
  \E k \in Hops(route) : o = PathId(k - 1, k) /\ op.kind = "GEN" /\ op.ends = Hop(route, k)

OfSpare(o, op, paths) ==
  \E n \in DOMAIN paths : \E k \in Hops(paths[n].route) :
    o = <<"recovery", k - 1, k, n>> /\ op.kind = "GEN" /\ op.ends = Hop(paths[n].route, k)

LEMMA LinkIdsOfHops ==
  ASSUME NEW route \in Seq(Node), NEW o
  PROVE  o \in LinkIds(route) <=> \E k \in Hops(route) : o = PathId(k - 1, k)
<1>1. Len(route) \in Nat
  OBVIOUS
<1>2. ASSUME NEW k \in Hops(route) PROVE k - 1 \in 0 .. Links(route) - 1 /\ (k - 1) + 1 = k
  BY <1>1 DEF Hops, Links
<1>3. ASSUME NEW k \in 0 .. Links(route) - 1 PROVE k + 1 \in Hops(route) /\ (k + 1) - 1 = k
  BY <1>1 DEF Hops, Links
<1> QED BY <1>2, <1>3 DEF LinkIds

LEMMA GenerationOfHop ==
  ASSUME NEW route \in Seq(Node), NEW k \in Hops(route), NEW o, o[2] = k - 1, o[3] = k
  PROVE  /\ Generation(route, o).kind = "GEN" /\ Generation(route, o).ends = Hop(route, k)
         /\ Generation(route, o).rank \in Int
<1>1. k \in Int /\ (k - 1) + 1 = k
  BY DEF Hops
<1> QED BY <1>1 DEF Generation, Hop

LEMMA LeftDeepShape ==
  ASSUME NEW route \in Seq(Node), NEW o \in DOMAIN LeftDeepDag(route)
  PROVE  LET op == LeftDeepDag(route)[o]
         IN  /\ op.rank \in Int
             /\ OfMajor(o, op, route) \/ \E d \in LinkIds(route) : d \in op.ins
<1> DEFINE links == Links(route)
           tree == LeftDeepTree(links)
           op == LeftDeepDag(route)[o]
           t == RootOf(<<o[2], o[3]>>, tree)
           rank == links + Cardinality({s \in tree : PostOrder(s, t)})
<1>1. links \in Int
  BY DEF Links
<1>2. IsFiniteSet(tree)
  <2> DEFINE D == 1 .. links - 1
             f == [m \in D |-> <<0, m, m + 1>>]
  <2>1. tree = {f[m] : m \in D}
    BY DEF LeftDeepTree
  <2>2. \A a, b \in D : f[a] = f[b] => a = b
    OBVIOUS
  <2>3. IsFiniteSet(D)
    <3>1. 1 \in Int /\ links - 1 \in Int
      BY <1>1
    <3> QED BY <3>1, FS_Interval
  <2> HIDE DEF f, tree, links, D
  <2>4. IsFiniteSet({f[m] : m \in D})
    BY <2>2, <2>3, ImageSize
  <2> QED BY <2>1, <2>4, Zenon
<1>3. o \in LinkIds(route) \cup {PathId(s[1], s[3]) : s \in tree}
  BY DEF LeftDeepDag, TreeDag
<1>4. op = IF o \in LinkIds(route) THEN Generation(route, o)
           ELSE Swap(route, t, {PathId(t[1], t[2]), PathId(t[2], t[3])}, rank)
  BY <1>3 DEF LeftDeepDag, TreeDag
<1>5. CASE o \in LinkIds(route)
  <2>1. PICK k \in Hops(route) : o = PathId(k - 1, k)
    BY <1>5, LinkIdsOfHops
  <2>2. o[2] = k - 1 /\ o[3] = k
    BY <2>1 DEF PathId
  <2>3. op = Generation(route, o)
    BY <1>4, <1>5
  <2> HIDE DEF op
  <2> QED BY <2>1, <2>2, <2>3, GenerationOfHop DEF OfMajor, op
<1>6. CASE o \notin LinkIds(route)
  <2>1. PICK s \in tree : o = PathId(s[1], s[3])
    BY <1>3, <1>6
  <2>2. PICK m \in 1 .. links - 1 : s = <<0, m, m + 1>>
    BY <2>1 DEF LeftDeepTree
  <2>3. o[2] = s[1] /\ o[3] = s[3]
    BY <2>1 DEF PathId
  <2>4. t \in tree /\ t[3] = m + 1
    <3>1. \E u \in tree : u[1] = o[2] /\ u[3] = o[3]
      BY <2>3
    <3>2. t = CHOOSE u \in tree : u[1] = o[2] /\ u[3] = o[3]
      BY DEF RootOf
    <3>3. t \in tree /\ t[3] = o[3]
      <4> HIDE DEF tree, t
      <4> QED BY <3>1, <3>2
    <3> HIDE DEF t, tree
    <3> QED BY <2>2, <2>3, <3>3
  <2>5. PICK l \in 1 .. links - 1 : t = <<0, l, l + 1>>
    <3> HIDE DEF t
    <3> QED BY <2>4 DEF LeftDeepTree
  <2>6. t[2] = m /\ t[3] = m + 1
    <3> HIDE DEF t
    <3>1. t[2] = l /\ t[3] = l + 1
      BY <2>5
    <3> QED BY <1>1, <2>4, <3>1
  <2>7. PathId(m, m + 1) \in LinkIds(route)
    <3>1. m \in 0 .. Links(route) - 1
      BY <1>1
    <3> QED BY <3>1 DEF LinkIds
  <2>8. op = Swap(route, t, {PathId(t[1], t[2]), PathId(t[2], t[3])}, rank)
    BY <1>4, <1>6
  <2>9. rank \in Int
    <3>1. IsFiniteSet({s_1 \in tree : PostOrder(s_1, t)})
      BY <1>2, FS_Subset
    <3>2. Cardinality({s_1 \in tree : PostOrder(s_1, t)}) \in Nat
      BY <3>1, FS_CardinalityType
    <3> HIDE DEF links, tree, t
    <3> QED BY <1>1, <3>2
  <2> HIDE DEF op, t, rank
  <2>10. op.rank = rank /\ op.ins = {PathId(t[1], t[2]), PathId(t[2], t[3])}
    BY <2>8 DEF Swap
  <2>11. PathId(m, m + 1) \in op.ins
    BY <2>6, <2>10
  <2> QED BY <2>7, <2>9, <2>10, <2>11 DEF op
<1> QED BY <1>5, <1>6

LEMMA RecoveryShape ==
  ASSUME NEW paths, DOMAIN paths \subseteq Int, \A n \in DOMAIN paths : paths[n].route \in Seq(Node),
         NEW o \in DOMAIN RecoveryGens(paths)
  PROVE  RecoveryGens(paths)[o].rank \in Int /\ OfSpare(o, RecoveryGens(paths)[o], paths)
<1> DEFINE op == RecoveryGens(paths)[o]
<1>1. PICK n \in DOMAIN paths : \E k \in Hops(paths[n].route) : o = <<"recovery", k - 1, k, n>>
  BY DEF RecoveryGens
<1>2. PICK k \in Hops(paths[n].route) : o = <<"recovery", k - 1, k, n>>
  BY <1>1
<1>3. o[2] = k - 1 /\ o[3] = k /\ o[4] = n
  BY <1>2
<1> DEFINE gen == Generation(paths[n].route, o)
<1>4. op = [gen EXCEPT !.rank = 100 * n + @]
  <2>1. op = [Generation(paths[o[4]].route, o) EXCEPT !.rank = 100 * o[4] + @]
    BY DEF RecoveryGens
  <2> HIDE DEF op
  <2> QED BY <1>3, <2>1
<1>5. gen.kind = "GEN" /\ gen.ends = Hop(paths[n].route, k) /\ gen.rank \in Int
  BY <1>3, GenerationOfHop
<1>6. gen = [kind |-> gen.kind, preds |-> gen.preds, ins |-> gen.ins, ends |-> gen.ends, rank |-> gen.rank]
  BY DEF Generation
<1> HIDE DEF gen, op
<1>7. op.kind = "GEN" /\ op.ends = Hop(paths[n].route, k) /\ op.rank = 100 * n + gen.rank
  BY <1>4, <1>5, <1>6
<1>8. n \in Int
  OBVIOUS
<1> QED BY <1>2, <1>5, <1>7, <1>8 DEF OfSpare, op

LEMMA AllocationShape ==
  ASSUME NEW m, m.route \in Seq(Node),
         NEW paths, DOMAIN paths \subseteq Int, \A n \in DOMAIN paths : paths[n].route \in Seq(Node),
         NEW o \in DOMAIN Allocation(m, paths).dag
  PROVE  LET dag == Allocation(m, paths).dag
         IN  /\ dag[o].rank \in Int
             /\ \/ OfMajor(o, dag[o], m.route) \/ OfSpare(o, dag[o], paths)
                \/ \E d \in DOMAIN dag : d \in dag[o].ins
<1> DEFINE dag == Allocation(m, paths).dag
           base == LeftDeepDag(m.route)
           gens == RecoveryGens(paths)
<1>1. dag = [p \in DOMAIN base \cup DOMAIN gens |-> IF p \in DOMAIN base THEN base[p] ELSE gens[p]]
  BY DEF Allocation
<1>2. LinkIds(m.route) \subseteq DOMAIN base
  BY DEF LeftDeepDag, TreeDag
<1>3. CASE o \in DOMAIN base
  <2>1. base[o].rank \in Int /\ (OfMajor(o, base[o], m.route) \/ \E d \in LinkIds(m.route) : d \in base[o].ins)
    BY <1>3, LeftDeepShape
  <2>2. dag[o] = base[o] /\ LinkIds(m.route) \subseteq DOMAIN dag
    <3> HIDE DEF dag, base, gens
    <3> QED BY <1>1, <1>2, <1>3
  <2> HIDE DEF dag, base, gens
  <2> QED BY <2>1, <2>2 DEF dag
<1>4. CASE o \notin DOMAIN base
  <2>1. o \in DOMAIN gens /\ dag[o] = gens[o]
    <3>1. o \in DOMAIN dag
      OBVIOUS
    <3> HIDE DEF dag, base, gens
    <3> QED BY <1>1, <1>4, <3>1
  <2>2. gens[o].rank \in Int /\ OfSpare(o, gens[o], paths)
    BY <2>1, RecoveryShape
  <2> HIDE DEF dag, base, gens
  <2> QED BY <2>1, <2>2 DEF dag
<1> QED BY <1>3, <1>4

\* What a generation of a hop demands, the hop claims.
LEMMA GenerationClaims ==
  ASSUME NEW dag, NEW o \in DOMAIN dag, NEW route, NEW k,
         dag[o].kind = "GEN", dag[o].ends = Hop(route, k), NEW x \in Plan(dag)!Demand[o]
  PROVE  Claims(route, k, x)
<1>1. Plan(dag)!Demand[o] =
        {<<"link", dag[o].ends>>, <<"genlane", dag[o].ends>>} \cup Plan(dag)!Memories(o)
  BY DEF Plan!Demand
<1>2. Plan(dag)!Memories(o) = {<<"memory", n>> : n \in dag[o].ends}
  BY DEF Plan!Memories
<1>3. x \in {<<"link", dag[o].ends>>, <<"genlane", dag[o].ends>>} \/ \E n \in dag[o].ends : x = <<"memory", n>>
  BY <1>1, <1>2
<1> QED BY <1>3 DEF Claims

\* The operations an allocation starts with are generations.
LEMMA StartsWithGenerations ==
  ASSUME NEW m, m.route \in Seq(Node),
         NEW paths, DOMAIN paths \subseteq Int, \A n \in DOMAIN paths : paths[n].route \in Seq(Node),
         Accepted(Allocation(m, paths))
  PROVE  LET dag == Allocation(m, paths).dag
             round == Plan(dag)!Layout(DOMAIN dag)
         IN  /\ DOMAIN round = DOMAIN dag /\ \A o \in DOMAIN dag : round[o] \in Nat
             /\ \A o \in DOMAIN dag : round[o] = 0 => OfMajor(o, dag[o], m.route) \/ OfSpare(o, dag[o], paths)
<1> DEFINE c == Allocation(m, paths)
           dag == c.dag
           round == Plan(dag)!Layout(DOMAIN dag)
<1>1. IsFiniteSet(DOMAIN dag) /\ DOMAIN round = DOMAIN dag /\ \A o \in DOMAIN dag : round[o] \in Nat
  BY AcceptedRounds
<1>2. \A o \in DOMAIN dag : /\ dag[o].rank \in Int
                            /\ \/ OfMajor(o, dag[o], m.route) \/ OfSpare(o, dag[o], paths)
                               \/ \E d \in DOMAIN dag : d \in dag[o].ins
  BY AllocationShape
<1> HIDE DEF c
<1>3. LaidOut(round, dag)
  BY <1>1, <1>2, LayoutSound
<1>4. ASSUME NEW o \in DOMAIN dag, NEW d \in DOMAIN dag, d \in dag[o].ins PROVE round[o] # 0
  <2>1. d \in Needs(o, dag)
    BY <1>4 DEF Needs, Plan!Dependencies
  <2> HIDE DEF round
  <2>2. round[d] \in Nat /\ round[d] < round[o]
    BY <1>1, <1>3, <2>1 DEF LaidOut
  <2> QED BY <1>1, <2>2
<1> HIDE DEF round
<1> QED BY <1>1, <1>2, <1>4 DEF c, round

\* In its first round an allocation uses no more than its paths claim.
LEMMA FirstRound ==
  ASSUME NEW m, m.route \in Seq(Node),
         NEW paths, DOMAIN paths \subseteq Int, \A n \in DOMAIN paths : paths[n].route \in Seq(Node),
         Accepted(Allocation(m, paths)), NEW x, IsFiniteSet(ClaimsOf(paths, x))
  PROVE  LET dag == Allocation(m, paths).dag
         IN  Plan(dag)!UsageIn(Plan(dag)!Layout(DOMAIN dag), x, 0)
               <= Cardinality(HopsClaiming(m.route, x)) + Cardinality(ClaimsOf(paths, x))
<1> DEFINE dag == Allocation(m, paths).dag
           round == Plan(dag)!Layout(DOMAIN dag)
           A == {o \in DOMAIN round : round[o] = 0 /\ x \in Plan(dag)!Demand[o]}
           B == {o \in DOMAIN round : x \in Plan(dag)!Hold[o] /\ Plan(dag)!HeldIn(o, 0, round, DOMAIN round)}
           M == {o \in A : OfMajor(o, dag[o], m.route)}
           R == {o \in A : OfSpare(o, dag[o], paths)}
           H == HopsClaiming(m.route, x)
           C == ClaimsOf(paths, x)
<1>1. /\ DOMAIN round = DOMAIN dag /\ \A o \in DOMAIN dag : round[o] \in Nat
      /\ \A o \in DOMAIN dag : round[o] = 0 => OfMajor(o, dag[o], m.route) \/ OfSpare(o, dag[o], paths)
  BY StartsWithGenerations
<1>2. IsFiniteSet(H) /\ Cardinality(H) \in Nat /\ IsFiniteSet(C) /\ Cardinality(C) \in Nat
  BY HopsFinite, FS_CardinalityType
<1>3. Plan(dag)!UsageIn(round, x, 0) = Cardinality(A) + Cardinality(B)
  <2>1. Plan(dag)!UsageIn(round, x, 0) = Plan(dag)!Cardinality(A) + Plan(dag)!Cardinality(B)
    BY DEF Plan!UsageIn
  <2> HIDE DEF A, B, round, dag
  <2> QED BY <2>1, SameCardinality
<1>4. Cardinality(B) = 0
  <2>1. ASSUME NEW o \in DOMAIN round PROVE ~Plan(dag)!HeldIn(o, 0, round, DOMAIN round)
    <3>1. ~(round[o] < 0)
      <4> HIDE DEF round, dag
      <4> QED BY <1>1, <2>1
    <3> HIDE DEF round, dag
    <3> QED BY <3>1 DEF Plan!HeldIn
  <2>2. B = {}
    <3> HIDE DEF round, dag
    <3> QED BY <2>1
  <2> HIDE DEF B
  <2> QED BY <2>2, FS_EmptySet
<1>5. IsFiniteSet(M) /\ Cardinality(M) <= Cardinality(H)
  <2> DEFINE f == [o \in M |-> o[3]]
  <2>1. ASSUME NEW o \in M PROVE o[3] \in H /\ o = PathId(o[3] - 1, o[3])
    <3>1. OfMajor(o, dag[o], m.route) /\ o \in DOMAIN dag /\ x \in Plan(dag)!Demand[o]
      BY <1>1, <2>1
    <3> HIDE DEF dag, M, f
    <3>2. PICK k \in Hops(m.route) : o = PathId(k - 1, k) /\ dag[o].kind = "GEN" /\ dag[o].ends = Hop(m.route, k)
      BY <3>1 DEF OfMajor
    <3>3. o[3] = k
      BY <3>2 DEF PathId
    <3>4. Claims(m.route, k, x)
      BY <3>1, <3>2, GenerationClaims
    <3> QED BY <3>2, <3>3, <3>4 DEF HopsClaiming
  <2>2. f \in Injection(M, H)
    <3>1. f \in [M -> H]
      <4> HIDE DEF M, H
      <4> QED BY <2>1
    <3>2. \A o, p \in M : f[o] = f[p] => o = p
      <4> HIDE DEF M, H
      <4> QED BY <2>1
    <3> HIDE DEF M, H, f
    <3> QED BY <3>1, <3>2 DEF Injection, IsInjective
  <2> HIDE DEF M, H, f
  <2> QED BY <1>2, <2>2, FS_Injection
<1>6. IsFiniteSet(R) /\ Cardinality(R) <= Cardinality(C)
  <2> DEFINE f == [o \in R |-> <<o[4], o[3]>>]
  <2>1. ASSUME NEW o \in R PROVE <<o[4], o[3]>> \in C /\ o = <<"recovery", o[3] - 1, o[3], o[4]>>
    <3>1. OfSpare(o, dag[o], paths) /\ o \in DOMAIN dag /\ x \in Plan(dag)!Demand[o]
      BY <1>1, <2>1
    <3> HIDE DEF dag, R, f
    <3>2. PICK n \in DOMAIN paths : \E k \in Hops(paths[n].route) :
            o = <<"recovery", k - 1, k, n>> /\ dag[o].kind = "GEN" /\ dag[o].ends = Hop(paths[n].route, k)
      BY <3>1 DEF OfSpare
    <3>3. PICK k \in Hops(paths[n].route) :
            o = <<"recovery", k - 1, k, n>> /\ dag[o].kind = "GEN" /\ dag[o].ends = Hop(paths[n].route, k)
      BY <3>2
    <3>4. o[3] = k /\ o[4] = n
      BY <3>3
    <3>5. Claims(paths[n].route, k, x)
      BY <3>1, <3>3, GenerationClaims
    <3>6. k \in HopsClaiming(paths[n].route, x)
      BY <3>5 DEF HopsClaiming
    <3>7. k \in Nat
      BY <3>6, HopsFinite
    <3> QED BY <3>3, <3>4, <3>6, <3>7 DEF ClaimsOf
  <2>2. f \in Injection(R, C)
    <3>1. f \in [R -> C]
      <4> HIDE DEF R, C
      <4> QED BY <2>1
    <3>2. ASSUME NEW o \in R, NEW p \in R, f[o] = f[p] PROVE o = p
      <4> HIDE DEF R, C
      <4>1. o[3] = p[3] /\ o[4] = p[4]
        BY <3>2
      <4> QED BY <2>1, <4>1
    <3> HIDE DEF R, C, f
    <3> QED BY <3>1, <3>2 DEF Injection, IsInjective
  <2> HIDE DEF R, C, f
  <2> QED BY <1>2, <2>2, FS_Injection
<1>7. A = M \cup R
  <2>1. \A o \in A : OfMajor(o, dag[o], m.route) \/ OfSpare(o, dag[o], paths)
    BY <1>1
  <2> HIDE DEF A, dag
  <2> QED BY <2>1
<1> HIDE DEF A, B, M, R, H, C, round
<1>8. Cardinality(A) <= Cardinality(M) + Cardinality(R)
  <2>1. Cardinality(M \cup R) = Cardinality(M) + Cardinality(R) - Cardinality(M \cap R)
    BY <1>5, <1>6, FS_Union
  <2>2. IsFiniteSet(M \cap R)
    BY <1>5, FS_Intersection
  <2>3. Cardinality(M \cap R) \in Nat /\ Cardinality(M) \in Nat /\ Cardinality(R) \in Nat
    BY <1>5, <1>6, <2>2, FS_CardinalityType
  <2> QED BY <1>7, <2>1, <2>3
<1>9. Cardinality(M) \in Nat /\ Cardinality(R) \in Nat /\ Cardinality(A) \in Int
  <2>1. IsFiniteSet(A)
    BY <1>5, <1>6, <1>7, FS_Union
  <2> QED BY <1>5, <1>6, <2>1, FS_CardinalityType
<1> QED BY <1>2, <1>3, <1>4, <1>5, <1>6, <1>8, <1>9 DEF H, C, round

-----------------------------------------------------------------------------
(* The residual account of Q-CAST                                          *)

Spared ==
  /\ interval \in Int \X Int
  /\ spare \in Seq([from : Int, to : Int, route : Seq(Node)])
  /\ phase \notin {"recovery", "refused"} => spare = <<>>

\* What is left of a resource, what is committed in the slot, and what the
\* paths that wait to be compiled claim of it are together within its capacity.
Balanced ==
  phase \in {"major", "recovery"} =>
    /\ slot < WindowEnd
    /\ \A x \in Resource :
         /\ residual[x] \in Nat /\ IsFiniteSet(ClaimsOf(majors, x)) /\ IsFiniteSet(ClaimsOf(spare, x))
         /\ residual[x] + usage[<<x, slot>>] + Cardinality(ClaimsOf(majors, x)) + Cardinality(ClaimsOf(spare, x))
              <= Capacity[x]

RoundInv == Spared /\ Balanced

LEMMA UsageInSlot ==
  ASSUME PlannerInv, slot < WindowEnd, NEW x \in Resource
  PROVE  usage[<<x, slot>>] \in Nat /\ usage[<<x, slot>>] <= Capacity[x] /\ Capacity[x] \in Nat
<1>1. slot \in Slots
  BY PlannerAssumption DEF PlannerInv, Slots
<1>2. <<x, slot>> \in Resource \X Slots
  BY <1>1
<1>3. usage[<<x, slot>>] \in Nat /\ usage[<<x, slot>>] <= Capacity[<<x, slot>>[1]]
  BY <1>2 DEF PlannerInv, Booked, Within
<1> QED BY <1>3, CapacityNatural

\* Reserving a path the search offers takes what it claims, and no more than
\* there is.
LEMMA ReserveSound ==
  ASSUME NEW a, NEW b, NEW p \in BestPaths(a, b), NEW x \in Resource, residual[x] \in Nat
  PROVE  /\ p \in Seq(Node) /\ Reserve(p)[x] \in Nat
         /\ Cardinality(HopsClaiming(p, x)) \in Nat
         /\ Reserve(p)[x] + Cardinality(HopsClaiming(p, x)) = residual[x]
<1>1. p \in Seq(Node) /\ CanReserve(p)
  BY BestPathsRoutes DEF IsRoute
<1>2. Charged(p)[x] = Cardinality(HopsClaiming(p, x)) /\ Charged(p)[x] \in Nat
  BY <1>1, PathDemandClaims DEF Charged
<1>3. Charged(p)[x] <= residual[x]
  BY <1>1 DEF CanReserve
<1>4. Reserve(p)[x] = residual[x] - Charged(p)[x]
  BY DEF Reserve
<1> QED BY <1>1, <1>2, <1>3, <1>4

LEMMA OpenRound_Round ==
  ASSUME PlannerInv, RoundInv, OpenRound
  PROVE  RoundInv'
<1>1. /\ UNCHANGED <<majors, spare, interval, usage>> /\ phase = "open" /\ slot \in Nat /\ slot < WindowEnd
      /\ majors = <<>> /\ spare = <<>>
  BY DEF OpenRound, choiceVars, Rounds, RoundInv, Spared, PlannerInv, Waiting
<1>2. CASE Eligible(slot) = {}
  BY <1>1, <1>2 DEF OpenRound, RoundInv, Spared, Balanced
<1>3. CASE Eligible(slot) # {}
  <2>1. residual' = [x \in Resource |-> Capacity[x] - usage[<<x, slot>>]] /\ phase' = "major" /\ slot' = slot
    BY <1>3 DEF OpenRound
  <2>2. ASSUME NEW x \in Resource
        PROVE  /\ residual'[x] \in Nat /\ IsFiniteSet(ClaimsOf(majors', x)) /\ IsFiniteSet(ClaimsOf(spare', x))
               /\ residual'[x] + usage'[<<x, slot'>>] + Cardinality(ClaimsOf(majors', x))
                    + Cardinality(ClaimsOf(spare', x)) <= Capacity[x]
    <3>1. usage[<<x, slot>>] \in Nat /\ usage[<<x, slot>>] <= Capacity[x] /\ Capacity[x] \in Nat
      BY <1>1, UsageInSlot
    <3>2. residual'[x] = Capacity[x] - usage[<<x, slot>>]
      BY <2>1
    <3>3. majors' = <<>> /\ spare' = <<>> /\ usage'[<<x, slot'>>] = usage[<<x, slot>>]
      BY <1>1, <2>1
    <3> QED BY <3>1, <3>2, <3>3, ClaimsOfNone
  <2>3. Balanced'
    BY <1>1, <2>1, <2>2 DEF Balanced
  <2>4. Spared'
    BY <1>1, <2>1 DEF Spared, RoundInv
  <2> QED BY <2>3, <2>4 DEF RoundInv
<1> QED BY <1>2, <1>3

LEMMA PickMajor_Round ==
  ASSUME PlannerInv, RoundInv, PickMajor
  PROVE  RoundInv'
<1>1. UNCHANGED <<phase, slot, spare, interval, usage>> /\ phase = "major"
  BY DEF PickMajor, choiceVars
<1>2. PICK m \in Majors : Reachable(m) /\ residual' = Reserve(m.route) /\ majors' = Append(majors, m)
  BY DEF PickMajor
<1>3. m.route \in BestPaths(Ends[m.request][1], Ends[m.request][2])
  BY <1>2 DEF Reachable
<1>4. majors \in Seq([request : Request, route : Seq(Node)])
  BY DEF PlannerInv, Waiting
<1>5. slot < WindowEnd
  BY <1>1 DEF RoundInv, Balanced
<1>6. ASSUME NEW x \in Resource
      PROVE  /\ residual'[x] \in Nat /\ IsFiniteSet(ClaimsOf(majors', x)) /\ IsFiniteSet(ClaimsOf(spare, x))
             /\ residual'[x] + usage[<<x, slot>>] + Cardinality(ClaimsOf(majors', x))
                  + Cardinality(ClaimsOf(spare, x)) <= Capacity[x]
  <2>1. /\ residual[x] \in Nat /\ IsFiniteSet(ClaimsOf(majors, x)) /\ IsFiniteSet(ClaimsOf(spare, x))
        /\ residual[x] + usage[<<x, slot>>] + Cardinality(ClaimsOf(majors, x)) + Cardinality(ClaimsOf(spare, x))
             <= Capacity[x]
    BY <1>1 DEF RoundInv, Balanced
  <2>2. /\ m.route \in Seq(Node) /\ Reserve(m.route)[x] \in Nat
        /\ Cardinality(HopsClaiming(m.route, x)) \in Nat
        /\ Reserve(m.route)[x] + Cardinality(HopsClaiming(m.route, x)) = residual[x]
    BY <1>3, <2>1, ReserveSound
  <2>3. /\ IsFiniteSet(ClaimsOf(Append(majors, m), x))
        /\ Cardinality(ClaimsOf(Append(majors, m), x))
             = Cardinality(ClaimsOf(majors, x)) + Cardinality(HopsClaiming(m.route, x))
    BY <1>4, <2>1, <2>2, ClaimsOfAppend
  <2>4. usage[<<x, slot>>] \in Nat /\ Capacity[x] \in Nat
    BY <1>5, UsageInSlot
  <2>5. Cardinality(ClaimsOf(majors, x)) \in Nat /\ Cardinality(ClaimsOf(spare, x)) \in Nat
    BY <2>1, FS_CardinalityType
  <2> QED BY <1>2, <2>1, <2>2, <2>3, <2>4, <2>5
<1>7. Balanced'
  BY <1>1, <1>5, <1>6 DEF Balanced
<1>8. Spared'
  BY <1>1 DEF RoundInv, Spared
<1> QED BY <1>7, <1>8 DEF RoundInv

LEMMA EndMajors_Round ==
  ASSUME PlannerInv, RoundInv, EndMajors
  PROVE  RoundInv'
<1>1. UNCHANGED <<residual, majors, spare, interval, usage>> /\ phase = "major"
  BY DEF EndMajors, choiceVars
<1>2. phase' = "open" \/ (phase' = "recovery" /\ slot' = slot)
  BY DEF EndMajors
<1>3. Balanced'
  BY <1>1, <1>2 DEF RoundInv, Balanced
<1>4. Spared'
  BY <1>1, <1>2 DEF RoundInv, Spared
<1> QED BY <1>3, <1>4 DEF RoundInv

LEMMA PickRecovery_Round ==
  ASSUME PlannerInv, RoundInv, PickRecovery
  PROVE  RoundInv'
<1> DEFINE a == MajorRoute[Start + 1]
           b == MajorRoute[Start + Span + 1]
<1>1. /\ UNCHANGED <<phase, slot, majors, usage>> /\ phase = "recovery" /\ interval' = NextInterval
      /\ interval \in Int \X Int /\ spare \in Seq([from : Int, to : Int, route : Seq(Node)])
  BY DEF PickRecovery, choiceVars, RoundInv, Spared
<1>2. Span \in Int /\ Start \in Int /\ interval' \in Int \X Int
  BY <1>1 DEF NextInterval, Span, Start
<1>3. CASE UNCHANGED <<residual, spare>>
  <2>1. Balanced'
    BY <1>1, <1>3 DEF RoundInv, Balanced
  <2>2. Spared'
    BY <1>1, <1>2, <1>3 DEF Spared
  <2> QED BY <2>1, <2>2 DEF RoundInv
<1>4. ASSUME NEW p \in BestPaths(a, b), residual' = Reserve(p),
             spare' = Append(spare, [from |-> Start, to |-> Start + Span, route |-> p])
      PROVE  RoundInv'
  <2> DEFINE m == [from |-> Start, to |-> Start + Span, route |-> p]
  <2>1. p \in Seq(Node)
    BY BestPathsRoutes DEF IsRoute
  <2>2. m \in [from : Int, to : Int, route : Seq(Node)] /\ m.route = p
    BY <1>2, <2>1
  <2>3. slot < WindowEnd
    BY <1>1 DEF RoundInv, Balanced
  <2>4. spare' = Append(spare, m)
    BY <1>4
  <2> HIDE DEF m, a, b
  <2>5. ASSUME NEW x \in Resource
        PROVE  /\ residual'[x] \in Nat /\ IsFiniteSet(ClaimsOf(majors, x)) /\ IsFiniteSet(ClaimsOf(spare', x))
               /\ residual'[x] + usage[<<x, slot>>] + Cardinality(ClaimsOf(majors, x))
                    + Cardinality(ClaimsOf(spare', x)) <= Capacity[x]
    <3>1. /\ residual[x] \in Nat /\ IsFiniteSet(ClaimsOf(majors, x)) /\ IsFiniteSet(ClaimsOf(spare, x))
          /\ residual[x] + usage[<<x, slot>>] + Cardinality(ClaimsOf(majors, x)) + Cardinality(ClaimsOf(spare, x))
               <= Capacity[x]
      BY <1>1 DEF RoundInv, Balanced
    <3>2. /\ Reserve(p)[x] \in Nat /\ Cardinality(HopsClaiming(p, x)) \in Nat
          /\ Reserve(p)[x] + Cardinality(HopsClaiming(p, x)) = residual[x]
      BY <3>1, ReserveSound
    <3>3. /\ IsFiniteSet(ClaimsOf(Append(spare, m), x))
          /\ Cardinality(ClaimsOf(Append(spare, m), x))
               = Cardinality(ClaimsOf(spare, x)) + Cardinality(HopsClaiming(p, x))
      <4>1. m.route \in Seq(Node)
        BY <2>1, <2>2
      <4> QED BY <1>1, <2>2, <3>1, <4>1, ClaimsOfAppend
    <3>4. usage[<<x, slot>>] \in Nat /\ Capacity[x] \in Nat
      BY <2>3, UsageInSlot
    <3>5. Cardinality(ClaimsOf(majors, x)) \in Nat /\ Cardinality(ClaimsOf(spare, x)) \in Nat
      BY <3>1, FS_CardinalityType
    <3> QED BY <1>4, <2>4, <3>1, <3>2, <3>3, <3>4, <3>5
  <2>6. Balanced'
    BY <1>1, <2>3, <2>5 DEF Balanced
  <2>7. spare' \in Seq([from : Int, to : Int, route : Seq(Node)])
    BY <1>1, <2>2, <2>4
  <2>8. Spared'
    BY <1>1, <1>2, <2>7 DEF Spared
  <2> QED BY <2>6, <2>8 DEF RoundInv
<1>5. UNCHANGED <<residual, spare>>
      \/ \E p \in BestPaths(a, b) : /\ residual' = Reserve(p)
                                    /\ spare' = Append(spare, [from |-> Start, to |-> Start + Span, route |-> p])
  BY DEF PickRecovery
<1> HIDE DEF a, b
<1> QED BY <1>3, <1>4, <1>5

LEMMA FirstUse ==
  ASSUME NEW c, Accepted(c), NEW x, <<x, 0>> \in DOMAIN Expanded(c).use
  PROVE  Expanded(c).use[<<x, 0>>] = Plan(c.dag)!UsageIn(Plan(c.dag)!Layout(DOMAIN c.dag), x, 0)
<1> DEFINE round == Plan(c.dag)!Layout(DOMAIN c.dag)
           last == Max({round[o] : o \in DOMAIN round})
           use == [y \in Resource \X (0 .. last) |-> Plan(c.dag)!UsageIn(round, y[1], y[2])]
           busy == {y \in DOMAIN use : use[y] > 0}
<1>1. Expanded(c).use = [y \in busy |-> use[y]]
  BY DEF Expanded
<1>2. <<x, 0>> \in busy /\ Expanded(c).use[<<x, 0>>] = use[<<x, 0>>]
  <2> HIDE DEF use, busy
  <2> QED BY <1>1
<1>3. use[<<x, 0>>] = Plan(c.dag)!UsageIn(round, x, 0)
  <2>1. <<x, 0>> \in Resource \X (0 .. last)
    <3> HIDE DEF round, last
    <3> QED BY <1>2
  <2> HIDE DEF round, last
  <2> QED BY <2>1
<1> QED BY <1>2, <1>3

\* What the plan of an allocation uses of x in the first round of a variable
\* is covered by what its paths claim of it.
LEMMA CommitClaims ==
  ASSUME NEW m, m.route \in Seq(Node),
         NEW paths, DOMAIN paths \subseteq Int, \A n \in DOMAIN paths : paths[n].route \in Seq(Node),
         Accepted(Allocation(m, paths)), NEW x, IsFiniteSet(ClaimsOf(paths, x)),
         NEW v, v.plan = Expanded(Allocation(m, paths)), v.start \in Nat
  PROVE  Units(v, <<x, v.start>>) <= Cardinality(HopsClaiming(m.route, x)) + Cardinality(ClaimsOf(paths, x))
<1> DEFINE c == Allocation(m, paths)
           claimed == Cardinality(HopsClaiming(m.route, x)) + Cardinality(ClaimsOf(paths, x))
<1>1. Units(v, <<x, v.start>>) = IF <<x, 0>> \in DOMAIN v.plan.use THEN v.plan.use[<<x, 0>>] ELSE 0
  BY DEF Units
<1>2. claimed \in Nat
  BY HopsFinite, FS_CardinalityType
<1>3. Plan(c.dag)!UsageIn(Plan(c.dag)!Layout(DOMAIN c.dag), x, 0) <= claimed
  BY FirstRound
<1>4. <<x, 0>> \in DOMAIN v.plan.use => v.plan.use[<<x, 0>>] <= claimed
  <2> HIDE DEF c, claimed
  <2> SUFFICES ASSUME <<x, 0>> \in DOMAIN Expanded(c).use PROVE Expanded(c).use[<<x, 0>>] <= claimed
    BY DEF c
  <2> QED BY <1>3, FirstUse DEF c
<1> HIDE DEF c, claimed
<1> QED BY <1>1, <1>2, <1>4 DEF claimed

LEMMA Commit_Round ==
  ASSUME PlannerInv, RoundInv, Commit
  PROVE  RoundInv'
<1> DEFINE m == Head(majors)
           c == Allocation(m, spare)
           r == m.request
<1>1. phase = "recovery" /\ residual' = residual
  BY DEF Commit
<1>2. /\ majors \in Seq([request : Request, route : Seq(Node)]) /\ majors # <<>>
      /\ m = majors[1] /\ majors[1].route \in Seq(Node) /\ r \in Request
  <2>1. majors \in Seq([request : Request, route : Seq(Node)]) /\ majors # <<>>
    BY <1>1 DEF PlannerInv, Waiting
  <2>2. m = majors[1] /\ majors[1] \in [request : Request, route : Seq(Node)]
    BY <2>1, HeadAndTail
  <2> QED BY <2>1, <2>2
<1>3. /\ spare \in Seq([from : Int, to : Int, route : Seq(Node)])
      /\ DOMAIN spare \subseteq Int /\ \A n \in DOMAIN spare : spare[n].route \in Seq(Node)
  <2>1. spare \in Seq([from : Int, to : Int, route : Seq(Node)])
    BY DEF RoundInv, Spared
  <2>2. Len(spare) \in Nat /\ DOMAIN spare = 1 .. Len(spare)
    BY <2>1
  <2>3. ASSUME NEW n \in DOMAIN spare PROVE spare[n].route \in Seq(Node)
    <3> DEFINE P == [from : Int, to : Int, route : Seq(Node)]
    <3>1. spare[n] \in P
      <4>1. spare \in Seq(P) /\ n \in 1 .. Len(spare)
        BY <2>1, <2>2
      <4> HIDE DEF P
      <4> QED BY <4>1
    <3> QED BY <3>1
  <2> QED BY <2>1, <2>2, <2>3
<1>4. CASE ~Accepted(c)
  <2>1. phase' = "refused" /\ UNCHANGED <<spare, interval>>
    BY <1>4 DEF Commit
  <2> QED BY <2>1 DEF RoundInv, Spared, Balanced
<1>5. CASE Accepted(c)
  <2> DEFINE vars == VariablesOf(r, Expanded(c), slot, slot + 1, usage)
  <2>1. /\ NextMajor
        /\ \/ UNCHANGED <<usage, chosen>>
           \/ \E v \in vars : usage' = With(v, usage) /\ chosen' = chosen \cup {v}
    BY <1>5 DEF Commit
  <2>2. slot \in Nat /\ slot + 1 \in Nat /\ slot < WindowEnd /\ slot \in Slots
    BY <1>1, PlannerAssumption DEF PlannerInv, RoundInv, Balanced, Slots
  <2>3. ASSUME NEW v \in vars PROVE GoodVariable(v) /\ Fits(v, usage) /\ v.plan = Expanded(c) /\ v.start = slot
    <3>1. GoodPlan(Expanded(c))
      BY <1>5, ExpandedGood
    <3> HIDE DEF c, r, m
    <3>2. /\ GoodVariable(v) /\ Fits(v, usage) /\ v.plan = Expanded(c)
          /\ slot <= v.start /\ v.start <= slot + 1 - 1
      BY <1>2, <2>2, <2>3, <3>1, VariablesGood
    <3> QED BY <2>2, <3>2 DEF GoodVariable
  <2>4. ASSUME NEW x \in Resource
        PROVE  /\ usage'[<<x, slot>>] \in Nat
               /\ usage'[<<x, slot>>]
                    <= usage[<<x, slot>>] + Cardinality(HopsClaiming(m.route, x)) + Cardinality(ClaimsOf(spare, x))
    <3>1. usage \in Within /\ <<x, slot>> \in Resource \X Slots /\ usage[<<x, slot>>] \in Nat
      BY <2>2, UsageInSlot DEF PlannerInv, Booked
    <3>2. IsFiniteSet(ClaimsOf(spare, x)) /\ Cardinality(ClaimsOf(spare, x)) \in Nat
      BY <1>1, FS_CardinalityType DEF RoundInv, Balanced
    <3>3. Cardinality(HopsClaiming(m.route, x)) \in Nat
      BY <1>2, HopsFinite
    <3>4. CASE UNCHANGED <<usage, chosen>>
      <4> HIDE DEF m
      <4> QED BY <3>1, <3>2, <3>3, <3>4
    <3>5. ASSUME NEW v \in vars, usage' = With(v, usage)
          PROVE  /\ usage'[<<x, slot>>] \in Nat
                 /\ usage'[<<x, slot>>] <= usage[<<x, slot>>] + Cardinality(HopsClaiming(m.route, x))
                                             + Cardinality(ClaimsOf(spare, x))
      <4>1. GoodVariable(v) /\ Fits(v, usage) /\ v.plan = Expanded(c) /\ v.start = slot
        BY <2>3
      <4>2. With(v, usage)[<<x, slot>>] = usage[<<x, slot>>] + Units(v, <<x, slot>>)
        BY <3>1, <4>1, WithStaysWithin
      <4>3. Units(v, <<x, slot>>) \in Nat
        BY <4>1, UnitsNatural
      <4>4. Units(v, <<x, v.start>>) <= Cardinality(HopsClaiming(m.route, x)) + Cardinality(ClaimsOf(spare, x))
        BY <1>2, <1>3, <1>5, <2>2, <3>2, <4>1, CommitClaims
      <4> HIDE DEF m, c, vars
      <4> QED BY <3>1, <3>2, <3>3, <3>5, <4>1, <4>2, <4>3, <4>4
    <3> HIDE DEF m, c, vars
    <3> QED BY <2>1, <3>4, <3>5
  <2>5. majors' = Tail(majors) /\ spare' = <<>> /\ interval' \in Int \X Int
    BY <2>1 DEF NextMajor
  <2>6. phase' = "open" \/ (phase' = "recovery" /\ slot' = slot)
    BY <1>1, <2>1 DEF NextMajor
  <2>7. ASSUME NEW x \in Resource
        PROVE  /\ residual[x] \in Nat /\ IsFiniteSet(ClaimsOf(majors', x)) /\ IsFiniteSet(ClaimsOf(spare', x))
               /\ residual[x] + usage'[<<x, slot>>] + Cardinality(ClaimsOf(majors', x))
                    + Cardinality(ClaimsOf(spare', x)) <= Capacity[x]
    <3>1. /\ residual[x] \in Nat /\ IsFiniteSet(ClaimsOf(majors, x)) /\ IsFiniteSet(ClaimsOf(spare, x))
          /\ residual[x] + usage[<<x, slot>>] + Cardinality(ClaimsOf(majors, x)) + Cardinality(ClaimsOf(spare, x))
               <= Capacity[x]
      BY <1>1 DEF RoundInv, Balanced
    <3>2. /\ IsFiniteSet(ClaimsOf(Tail(majors), x))
          /\ Cardinality(ClaimsOf(majors, x))
               = Cardinality(HopsClaiming(m.route, x)) + Cardinality(ClaimsOf(Tail(majors), x))
      BY <1>2, <3>1, ClaimsOfTail
    <3>3. usage[<<x, slot>>] \in Nat /\ Capacity[x] \in Nat
      BY <2>2, UsageInSlot
    <3>4. /\ Cardinality(HopsClaiming(m.route, x)) \in Nat /\ Cardinality(ClaimsOf(Tail(majors), x)) \in Nat
          /\ Cardinality(ClaimsOf(spare, x)) \in Nat
      BY <1>2, <3>1, <3>2, HopsFinite, FS_CardinalityType
    <3>5. /\ usage'[<<x, slot>>] \in Nat
          /\ usage'[<<x, slot>>]
               <= usage[<<x, slot>>] + Cardinality(HopsClaiming(m.route, x)) + Cardinality(ClaimsOf(spare, x))
      BY <2>4
    <3>6. IsFiniteSet(ClaimsOf(spare', x)) /\ Cardinality(ClaimsOf(spare', x)) = 0
      BY <2>5, ClaimsOfNone
    <3> HIDE DEF m, c
    <3>7. residual[x] + usage'[<<x, slot>>] + Cardinality(ClaimsOf(Tail(majors), x)) <= Capacity[x]
      BY <3>1, <3>2, <3>3, <3>4, <3>5
    <3>8. ClaimsOf(majors', x) = ClaimsOf(Tail(majors), x)
      BY <2>5, Zenon
    <3>9. residual[x] + usage'[<<x, slot>>] + Cardinality(ClaimsOf(Tail(majors), x)) + 0 <= Capacity[x]
      BY <3>1, <3>4, <3>5, <3>7
    <3> QED BY <3>1, <3>2, <3>6, <3>8, <3>9, Zenon
  <2>8. Balanced'
    BY <1>1, <2>2, <2>6, <2>7 DEF Balanced
  <2>9. Spared'
    BY <2>5 DEF Spared
  <2> QED BY <2>8, <2>9 DEF RoundInv
<1> QED BY <1>4, <1>5

\* Neither a baseline nor the end of a window touches the account of a round.
LEMMA OtherSteps_Round ==
  ASSUME PlannerInv, RoundInv, BuildProblem \/ TryNext \/ Finish
  PROVE  RoundInv'
<1>1. UNCHANGED <<spare, interval>> /\ phase \notin {"recovery", "refused"}
  BY DEF BuildProblem, TryNext, Finish, roundVars
<1>2. phase' \notin {"major", "recovery"}
  BY DEF BuildProblem, TryNext, Finish
<1> QED BY <1>1, <1>2 DEF RoundInv, Spared, Balanced

\* The account of a round of Q-CAST holds at every step: what is left of a
\* resource, what is committed in the slot and what the waiting paths claim
\* are together within its capacity (_ResidualResources).
THEOREM RoundInvariant == PlannerSpec => []RoundInv
<1>1. PlannerInit => RoundInv
  BY DEF PlannerInit, RoundInv, Spared, Balanced
<1>2. ASSUME PlannerInv, RoundInv, [PlannerNext]_plannerVars PROVE RoundInv'
  <2>1. CASE OpenRound
    BY <1>2, <2>1, OpenRound_Round
  <2>2. CASE PickMajor
    BY <1>2, <2>2, PickMajor_Round
  <2>3. CASE EndMajors
    BY <1>2, <2>3, EndMajors_Round
  <2>4. CASE PickRecovery
    BY <1>2, <2>4, PickRecovery_Round
  <2>5. CASE Commit
    BY <1>2, <2>5, Commit_Round
  <2>6. CASE BuildProblem \/ TryNext \/ Finish
    BY <1>2, <2>6, OtherSteps_Round
  <2>7. CASE Finished \/ UNCHANGED plannerVars
    BY <1>2, <2>7 DEF Finished, plannerVars, roundVars, choiceVars, RoundInv, Spared, Balanced
  <2> QED BY <1>2, <2>1, <2>2, <2>3, <2>4, <2>5, <2>6, <2>7 DEF PlannerNext
<1> QED BY <1>1, <1>2, PlannerInvariant, PTL DEF PlannerSpec

\* A simple path claims a link once, and a node once for each hop beside it.
LEMMA AtMostOne ==
  ASSUME NEW S, NEW i, S \subseteq {i}
  PROVE  IsFiniteSet(S) /\ Cardinality(S) \in Nat /\ Cardinality(S) <= 1
<1>1. IsFiniteSet({i}) /\ Cardinality({i}) = 1
  BY FS_Singleton
<1>2. S \in SUBSET {i}
  OBVIOUS
<1>3. IsFiniteSet(S) /\ Cardinality(S) <= Cardinality({i})
  BY <1>1, <1>2, FS_Subset
<1> QED BY <1>1, <1>3, FS_CardinalityType

LEMMA AtMostTwo ==
  ASSUME NEW S, NEW i, NEW j, S \subseteq {i, j}
  PROVE  IsFiniteSet(S) /\ Cardinality(S) \in Nat /\ Cardinality(S) <= 2
<1>1. IsFiniteSet({i}) /\ Cardinality({i}) = 1
  BY FS_Singleton
<1>2. {i, j} = {i} \cup {j}
  OBVIOUS
<1>3. IsFiniteSet({i, j}) /\ Cardinality({i, j}) <= 2
  <2>1. /\ IsFiniteSet({i} \cup {j})
        /\ Cardinality({i} \cup {j})
             = IF j \in {i} THEN Cardinality({i}) ELSE Cardinality({i}) + 1
    BY <1>1, FS_AddElement, Zenon
  <2>2. Cardinality({i} \cup {j}) <= 2
    BY <1>1, <2>1
  <2> QED BY <1>2, <2>1, <2>2
<1>4. IsFiniteSet(S) /\ Cardinality(S) <= Cardinality({i, j})
  BY <1>3, FS_Subset
<1>5. Cardinality(S) \in Nat /\ Cardinality({i, j}) \in Nat
  BY <1>3, <1>4, FS_CardinalityType
<1> QED BY <1>3, <1>4, <1>5

LEMMA LinkClaimedOnce ==
  ASSUME NEW p, IsRoute(p, Edge), NEW x, x[1] # "memory", NEW k \in HopsClaiming(p, x)
  PROVE  /\ HopsClaiming(p, x) \subseteq {k}
         /\ x[1] \in {"link", "genlane"} /\ x[2] = Hop(p, k) /\ k \in Hops(p)
<1>1. Len(p) \in Nat
  BY DEF IsRoute
<1>2. \A l \in HopsClaiming(p, x) : x[1] \in {"link", "genlane"} /\ x[2] = Hop(p, l) /\ l \in Hops(p)
  BY DEF HopsClaiming, Claims
<1>3. ASSUME NEW l \in HopsClaiming(p, x) PROVE l = k
  <2>1. {p[l], p[l + 1]} = {p[k], p[k + 1]}
    BY <1>2 DEF Hop
  <2>2. /\ l \in 1 .. Len(p) /\ l + 1 \in 1 .. Len(p) /\ k \in 1 .. Len(p) /\ k + 1 \in 1 .. Len(p)
        /\ l \in Int /\ k \in Int
    BY <1>1, <1>2 DEF Hops
  <2>3. \/ p[l] = p[k]
        \/ p[l] = p[k + 1] /\ p[l + 1] = p[k]
    BY <2>1
  <2>4. l = k \/ (l = k + 1 /\ l + 1 = k)
    BY <2>2, <2>3 DEF IsRoute
  <2> QED BY <2>2, <2>4
<1> QED BY <1>2, <1>3

LEMMA NodeClaims ==
  ASSUME NEW p, IsRoute(p, Edge), NEW x, x[1] = "memory", NEW k \in HopsClaiming(p, x)
  PROVE  /\ k \in Hops(p) /\ x[2] \in Hop(p, k)
         /\ \E i, j \in Int : HopsClaiming(p, x) \subseteq {i, j}
         /\ x[2] \in {p[1], p[Len(p)]} => \E i \in Int : HopsClaiming(p, x) \subseteq {i}
<1>1. Len(p) \in Nat /\ Len(p) > 1
  BY DEF IsRoute
<1>2. \A l \in HopsClaiming(p, x) : l \in Hops(p) /\ x[2] \in Hop(p, l)
  BY DEF HopsClaiming, Claims
<1>3. \A l \in Hops(p) : l \in Int /\ 1 <= l /\ l + 1 <= Len(p) /\ l \in 1 .. Len(p) /\ l + 1 \in 1 .. Len(p)
  BY <1>1 DEF Hops
<1>4. ASSUME NEW i \in 1 .. Len(p), x[2] = p[i], NEW l \in HopsClaiming(p, x)
      PROVE  (l = i \/ l + 1 = i) /\ l \in Int /\ 1 <= l /\ l + 1 <= Len(p)
  <2>1. p[i] = p[l] \/ p[i] = p[l + 1]
    BY <1>2, <1>4 DEF Hop
  <2> QED BY <1>2, <1>3, <1>4, <2>1 DEF IsRoute
<1>5. PICK i \in 1 .. Len(p) : x[2] = p[i]
  BY <1>2, <1>3 DEF Hop
<1>6. HopsClaiming(p, x) \subseteq {i, i - 1} /\ i \in Int /\ i - 1 \in Int
  BY <1>1, <1>4, <1>5
<1>7. ASSUME x[2] = p[1] PROVE HopsClaiming(p, x) \subseteq {1}
  <2>1. 1 \in 1 .. Len(p)
    BY <1>1
  <2> QED BY <1>4, <1>7, <2>1
<1>8. ASSUME x[2] = p[Len(p)] PROVE HopsClaiming(p, x) \subseteq {Len(p) - 1}
  <2>1. Len(p) \in 1 .. Len(p)
    BY <1>1
  <2>2. ASSUME NEW l \in HopsClaiming(p, x) PROVE l = Len(p) - 1
    <3>1. (l = Len(p) \/ l + 1 = Len(p)) /\ l \in Int /\ l + 1 <= Len(p)
      BY <1>4, <1>8, <2>1
    <3> QED BY <1>1, <3>1
  <2> QED BY <2>2
<1>9. Len(p) - 1 \in Int
  BY <1>1
<1> QED BY <1>2, <1>6, <1>7, <1>8, <1>9

\* Whatever path the residual graph offers can be reserved, although the
\* graph looks at a node only once.
LEMMA PromiseKept ==
  ASSUME \A x \in Resource : residual[x] \in Nat,
         NEW a, NEW b, NEW p \in ShortestRoutes(ResidualLinks(a, b), a, b)
  PROVE  CanReserve(p)
<1> DEFINE links == ResidualLinks(a, b)
<1>1. links \in SUBSET Edge
  BY DEF ResidualLinks
<1>2. IsRoute(p, links) /\ p[1] = a /\ p[Len(p)] = b
  <2>1. p \in Between(links, a, b)
    BY DEF ShortestRoutes
  <2> HIDE DEF links
  <2> QED BY <1>1, <2>1, BetweenRoutes
<1>3. IsRoute(p, Edge) /\ p \in Seq(Node)
  BY <1>1, <1>2 DEF IsRoute
<1>4. \A e \in links : /\ residual[<<"link", e>>] >= 1 /\ residual[<<"genlane", e>>] >= 1
                       /\ \A n \in e : NodeOpen(n, a, b)
  BY DEF ResidualLinks
<1>5. \A k \in Hops(p) : Hop(p, k) \in links
  BY <1>2 DEF IsRoute
<1> HIDE DEF links
<1>6. ASSUME NEW x \in Resource PROVE Cardinality(HopsClaiming(p, x)) <= residual[x]
  <2>1. residual[x] \in Nat /\ x = <<x[1], x[2]>>
    <3>1. residual[x] \in Nat
      OBVIOUS
    <3>2. x = <<x[1], x[2]>>
      BY DEF Resource, Plan!Resource
    <3> QED BY <3>1, <3>2
  <2>2. CASE HopsClaiming(p, x) = {}
    BY <2>1, <2>2, FS_EmptySet
  <2>3. ASSUME NEW k \in HopsClaiming(p, x), x[1] # "memory"
        PROVE  Cardinality(HopsClaiming(p, x)) <= residual[x]
    <3>1. /\ HopsClaiming(p, x) \subseteq {k}
          /\ x[1] \in {"link", "genlane"} /\ x[2] = Hop(p, k) /\ k \in Hops(p)
      BY <1>3, <2>3, LinkClaimedOnce
    <3>2. Cardinality(HopsClaiming(p, x)) \in Nat /\ Cardinality(HopsClaiming(p, x)) <= 1
      BY <3>1, AtMostOne
    <3>3. residual[x] >= 1
      BY <1>4, <1>5, <2>1, <3>1
    <3> QED BY <2>1, <3>2, <3>3
  <2>4. ASSUME NEW k \in HopsClaiming(p, x), x[1] = "memory"
        PROVE  Cardinality(HopsClaiming(p, x)) <= residual[x]
    <3>1. /\ k \in Hops(p) /\ x[2] \in Hop(p, k)
          /\ \E i, j \in Int : HopsClaiming(p, x) \subseteq {i, j}
          /\ x[2] \in {p[1], p[Len(p)]} => \E i \in Int : HopsClaiming(p, x) \subseteq {i}
      BY <1>3, <2>4, NodeClaims
    <3>2. NodeOpen(x[2], a, b)
      BY <1>4, <1>5, <3>1
    <3>3. x = <<"memory", x[2]>>
      BY <2>1, <2>4
    <3>4. residual[x] >= IF x[2] \in {a, b} THEN 1 ELSE 2
      BY <3>2, <3>3 DEF NodeOpen
    <3>5. CASE x[2] \in {a, b}
      <4>1. PICK i \in Int : HopsClaiming(p, x) \subseteq {i}
        BY <1>2, <3>1, <3>5
      <4>2. Cardinality(HopsClaiming(p, x)) \in Nat /\ Cardinality(HopsClaiming(p, x)) <= 1
        BY <4>1, AtMostOne
      <4> QED BY <2>1, <3>4, <3>5, <4>2
    <3>6. CASE x[2] \notin {a, b}
      <4>1. PICK i \in Int, j \in Int : HopsClaiming(p, x) \subseteq {i, j}
        BY <3>1
      <4>2. Cardinality(HopsClaiming(p, x)) \in Nat /\ Cardinality(HopsClaiming(p, x)) <= 2
        BY <4>1, AtMostTwo
      <4> QED BY <2>1, <3>4, <3>6, <4>2
    <3> QED BY <3>5, <3>6
  <2> QED BY <2>2, <2>3, <2>4
<1>7. \A x \in Resource : Charged(p)[x] = Cardinality(HopsClaiming(p, x))
  BY <1>3, PathDemandClaims DEF Charged
<1> QED BY <1>6, <1>7 DEF CanReserve

\* The two accounts of Q-CAST agree for any network, requests and
\* reservations: the search never offers what a committed plan uses in the
\* slot, reserving never goes below zero, and what the residual graph promises
\* can be reserved (_ResidualResources, _residual_graph, _path_demand).
THEOREM ResidualSoundAlways == PlannerSpec => []ResidualSound
<1>1. ASSUME PlannerInv, RoundInv PROVE ResidualSound
  <2> SUFFICES ASSUME phase \in {"major", "recovery"}
               PROVE  /\ \A x \in Resource : 0 <= residual[x] /\ residual[x] <= Capacity[x] - usage[<<x, slot>>]
                      /\ \A a, b \in Node : a # b =>
                           \A p \in ShortestRoutes(ResidualLinks(a, b), a, b) : CanReserve(p)
    BY DEF ResidualSound
  <2>1. ASSUME NEW x \in Resource
        PROVE  residual[x] \in Nat /\ residual[x] <= Capacity[x] - usage[<<x, slot>>]
    <3>1. /\ residual[x] \in Nat /\ IsFiniteSet(ClaimsOf(majors, x)) /\ IsFiniteSet(ClaimsOf(spare, x))
          /\ residual[x] + usage[<<x, slot>>] + Cardinality(ClaimsOf(majors, x)) + Cardinality(ClaimsOf(spare, x))
               <= Capacity[x]
      BY <1>1 DEF RoundInv, Balanced
    <3>2. usage[<<x, slot>>] \in Nat /\ Capacity[x] \in Nat
      <4>1. slot < WindowEnd
        BY <1>1 DEF RoundInv, Balanced
      <4> QED BY <1>1, <4>1, UsageInSlot
    <3>3. Cardinality(ClaimsOf(majors, x)) \in Nat /\ Cardinality(ClaimsOf(spare, x)) \in Nat
      BY <3>1, FS_CardinalityType
    <3> QED BY <3>1, <3>2, <3>3
  <2>2. \A a, b \in Node : \A p \in ShortestRoutes(ResidualLinks(a, b), a, b) : CanReserve(p)
    BY <2>1, PromiseKept
  <2> QED BY <2>1, <2>2
<1> QED BY <1>1, PlannerInvariant, RoundInvariant, PTL

=============================================================================
