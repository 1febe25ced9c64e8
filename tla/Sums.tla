---------------------------------- MODULE Sums ----------------------------------
(***************************************************************************)
(* Sums of a function over a finite set (SumFunctionOnSet of the community *)
(* modules), for the proofs about stock and money.                         *)
(*                                                                         *)
(* The sum is defined by a recursive function on the subsets of the set.   *)
(* Its recursion equation and everything after it is proved by             *)
(* well-founded induction on finite sets, in the form of a smallest        *)
(* counterexample: the induction theorems of the library take an operator. *)
(***************************************************************************)
EXTENDS Functions, FiniteSetTheorems, TLAPS

Pick(s) == CHOOSE x \in s : TRUE

\* The recursion: h is the sum over s once it is the sum over less.
Unfold(f, h, s) == IF s = {} THEN 0 ELSE f[Pick(s)] + h[s \ {Pick(s)}]

\* h satisfies the recursion on the subsets of S.
Sums(f, h, S) == h = [s \in SUBSET S |-> Unfold(f, h, s)]

\* What SumFunctionOnSet stands for.
LEMMA SumIs ==
  ASSUME NEW f, NEW S
  PROVE  SumFunctionOnSet(f, S) = (CHOOSE h : Sums(f, h, S))[S]
BY DEF SumFunctionOnSet, FoldFunctionOnSet, MapThenFoldSet, Sums, Unfold, Pick

\* A set of finite sets that is not empty has a member with no other below it.
LEMMA SmallestSet ==
  ASSUME NEW S, NEW Bad, Bad \subseteq FiniteSubsetsOf(S), Bad # {}
  PROVE  \E s \in Bad : \A t \in SUBSET s : t # s => t \notin Bad
<1>1. PICK s \in Bad : \A t \in Bad : ~(<<t, s>> \in StrictSubsetOrdering(S))
  BY FS_StrictSubsetOrderingWellFounded, WFMin
<1>2. \A t \in SUBSET s : t # s => t \notin Bad
  <2> SUFFICES ASSUME NEW t \in SUBSET s, t # s, t \in Bad PROVE FALSE
    OBVIOUS
  <2>1. <<t, s>> \in (SUBSET S) \X (SUBSET S)
    BY DEF FiniteSubsetsOf
  <2> QED
    BY <1>1, <2>1 DEF StrictSubsetOrdering
<1> QED
  BY <1>2

\* The element that the recursion takes out of a set is one of the set's.
LEMMA PickIs == \A s : s # {} => Pick(s) \in s
BY DEF Pick

\* Two functions that satisfy the recursion are one.
LEMMA SumsUnique ==
  ASSUME NEW f, NEW S, IsFiniteSet(S), NEW g, NEW h, Sums(f, g, S), Sums(f, h, S)
  PROVE  g = h
<1> DEFINE Bad == {s \in SUBSET S : g[s] # h[s]}
<1>1. Bad \subseteq FiniteSubsetsOf(S)
  BY FS_FiniteSubsetsOfFinite
<1>2. ASSUME Bad # {} PROVE FALSE
  <2>1. PICK s \in Bad : \A t \in SUBSET s : t # s => t \notin Bad
    <3> HIDE DEF Bad
    <3> QED
      BY <1>1, <1>2, SmallestSet
  <2>2. g[s] = Unfold(f, g, s) /\ h[s] = Unfold(f, h, s)
    BY DEF Sums
  <2>3. CASE s = {}
    BY <2>1, <2>2, <2>3 DEF Unfold
  <2>4. CASE s # {}
    <3>1. Pick(s) \in s
      BY <2>4, PickIs
    <3>2. g[s \ {Pick(s)}] = h[s \ {Pick(s)}]
      <4>1. s \ {Pick(s)} \in SUBSET s /\ s \ {Pick(s)} # s /\ s \ {Pick(s)} \in SUBSET S
        BY <3>1
      <4> QED
        BY <2>1, <4>1
    <3> QED
      BY <2>1, <2>2, <2>4, <3>2 DEF Unfold
  <2> QED
    BY <2>3, <2>4
<1>3. \A s \in SUBSET S : g[s] = h[s]
  BY <1>2
<1>4. g = [s \in SUBSET S |-> g[s]] /\ h = [s \in SUBSET S |-> h[s]]
  BY DEF Sums
<1> QED
  BY <1>3, <1>4

\* What satisfies the recursion on S satisfies it on a part of S.
LEMMA SumsRestricted ==
  ASSUME NEW f, NEW S, NEW T \in SUBSET S, NEW h, Sums(f, h, S)
  PROVE  Sums(f, [s \in SUBSET T |-> h[s]], T)
<1> DEFINE k == [s \in SUBSET T |-> h[s]]
<1>1. ASSUME NEW s \in SUBSET T PROVE k[s] = Unfold(f, k, s)
  <2>1. h[s] = Unfold(f, h, s)
    BY DEF Sums
  <2>2. s # {} => s \ {Pick(s)} \in SUBSET T
    OBVIOUS
  <2> QED
    BY <2>1, <2>2 DEF Unfold
<1>2. k = [s \in SUBSET T |-> Unfold(f, k, s)]
  BY <1>1
<1> QED
  BY <1>2 DEF Sums

\* The recursion defines a function on every finite set.
LEMMA SumsExist ==
  ASSUME NEW f, NEW U, IsFiniteSet(U)
  PROVE  \A S \in SUBSET U : \E h : Sums(f, h, S)
<1> DEFINE Bad == {s \in SUBSET U : ~ \E h : Sums(f, h, s)}
           Fn(s) == CHOOSE h : Sums(f, h, s)
<1>1. Bad \subseteq FiniteSubsetsOf(U)
  BY FS_FiniteSubsetsOfFinite
<1>2. ASSUME Bad # {} PROVE FALSE
  <2>1. PICK S \in Bad : \A t \in SUBSET S : t # S => t \notin Bad
    <3> HIDE DEF Bad
    <3> QED
      BY <1>1, <1>2, SmallestSet
  <2>2. \A t \in SUBSET S : t # S => Sums(f, Fn(t), t)
    <3> SUFFICES ASSUME NEW t \in SUBSET S, t # S PROVE Sums(f, Fn(t), t)
      OBVIOUS
    <3>1. \E h : Sums(f, h, t)
      BY <2>1
    <3> QED
      BY <3>1
  <2> DEFINE part == [t \in SUBSET S |-> Fn(t)[t]]
             g == [t \in SUBSET S |-> Unfold(f, part, t)]
  <2>3. ASSUME NEW t \in SUBSET S, t # S PROVE Fn(t)[t] = Unfold(f, part, t)
    <3>1. Sums(f, Fn(t), t)
      BY <2>2, <2>3
    <3>2. Fn(t)[t] = Unfold(f, Fn(t), t)
      BY <3>1 DEF Sums
    <3>3. CASE t = {}
      BY <3>2, <3>3 DEF Unfold
    <3>4. CASE t # {}
      <4> DEFINE u == t \ {Pick(t)}
      <4>1. u \in SUBSET t /\ u # S /\ u \in SUBSET S
        BY <3>4, PickIs
      <4>2. Sums(f, Fn(u), u)
        BY <2>2, <4>1
      <4>3. Sums(f, [s \in SUBSET u |-> Fn(t)[s]], u)
        BY <3>1, <4>1, SumsRestricted
      <4>4. IsFiniteSet(u)
        BY <4>1, FS_Subset
      <4> HIDE DEF u, Fn
      <4>5. Fn(u) = [s \in SUBSET u |-> Fn(t)[s]]
        BY <4>2, <4>3, <4>4, SumsUnique
      <4>6. Fn(t)[u] = Fn(u)[u]
        BY <4>5
      <4>7. part[u] = Fn(u)[u]
        BY <4>1
      <4> QED
        BY <3>2, <3>4, <4>6, <4>7 DEF Unfold, u
    <3> QED
      BY <3>3, <3>4
  <2>4. \A t \in SUBSET S : t # {} => t \ {Pick(t)} \in SUBSET S /\ t \ {Pick(t)} # S
    BY PickIs
  <2> HIDE DEF Fn
  <2>5. \A t \in SUBSET S : t # S => g[t] = part[t]
    BY <2>3
  <2>6. \A t \in SUBSET S : Unfold(f, g, t) = Unfold(f, part, t)
    <3> SUFFICES ASSUME NEW t \in SUBSET S PROVE Unfold(f, g, t) = Unfold(f, part, t)
      OBVIOUS
    <3> HIDE DEF part, g
    <3> QED
      BY <2>4, <2>5 DEF Unfold
  <2>7. Sums(f, g, S)
    BY <2>6 DEF Sums
  <2> QED
    BY <2>1, <2>7
<1> QED
  BY <1>2

\* The recursion equation of the sum.
LEMMA SumUnfolds ==
  ASSUME NEW f, NEW S, IsFiniteSet(S)
  PROVE  SumFunctionOnSet(f, S) =
           IF S = {} THEN 0 ELSE f[Pick(S)] + SumFunctionOnSet(f, S \ {Pick(S)})
<1> DEFINE h == CHOOSE h : Sums(f, h, S)
           T == S \ {Pick(S)}
           k == CHOOSE k : Sums(f, k, T)
<1>1. Sums(f, h, S)
  BY SumsExist
<1>2. IsFiniteSet(T) /\ T \in SUBSET S
  BY FS_Subset
<1>3. Sums(f, k, T)
  BY <1>2, SumsExist
<1>4. h[T] = k[T]
  <2>1. Sums(f, [s \in SUBSET T |-> h[s]], T)
    BY <1>1, <1>2, SumsRestricted
  <2> HIDE DEF h, k, T
  <2>2. k = [s \in SUBSET T |-> h[s]]
    BY <1>2, <1>3, <2>1, SumsUnique
  <2> QED
    BY <2>2
<1>5. SumFunctionOnSet(f, S) = h[S] /\ SumFunctionOnSet(f, T) = k[T]
  BY SumIs
<1>6. h[S] = Unfold(f, h, S)
  <2> HIDE DEF h
  <2> QED
    BY <1>1 DEF Sums
<1> HIDE DEF h, k
<1> QED
  BY <1>4, <1>5, <1>6 DEF Unfold

\* The sum over nothing.
LEMMA SumEmpty == \A f : SumFunctionOnSet(f, {}) = 0
BY SumUnfolds, FS_EmptySet

\* The sum of integers is an integer, and any element can be taken out of it.
LEMMA SumRemove ==
  ASSUME NEW f, NEW U, IsFiniteSet(U), \A x \in U : f[x] \in Int
  PROVE  \A S \in SUBSET U :
           /\ SumFunctionOnSet(f, S) \in Int
           /\ \A x \in S : SumFunctionOnSet(f, S) = f[x] + SumFunctionOnSet(f, S \ {x})
<1> DEFINE Sum(S) == SumFunctionOnSet(f, S)
           Good(S) == Sum(S) \in Int /\ \A x \in S : Sum(S) = f[x] + Sum(S \ {x})
           Bad == {S \in SUBSET U : ~Good(S)}
<1>1. \A S \in SUBSET U : IsFiniteSet(S) /\ (S # {} => Pick(S) \in S /\ Sum(S) = f[Pick(S)] + Sum(S \ {Pick(S)}))
  BY FS_Subset, PickIs, SumUnfolds
<1>2. Sum({}) \in Int
  BY SumEmpty
<1> HIDE DEF Sum
<1>3. ASSUME Bad # {} PROVE FALSE
  <2>1. PICK S \in Bad : \A t \in SUBSET S : t # S => t \notin Bad
    <3>1. Bad \subseteq FiniteSubsetsOf(U)
      BY <1>1, FS_FiniteSubsetsOfFinite
    <3> HIDE DEF Bad
    <3> QED
      BY <1>3, <3>1, SmallestSet
  <2>2. \A t \in SUBSET S : t # S => Good(t)
    BY <2>1
  <2>3. S # {}
    BY <2>1, <1>2
  <2> DEFINE c == Pick(S)
  <2>4. c \in S /\ f[c] \in Int /\ Sum(S) = f[c] + Sum(S \ {c}) /\ Good(S \ {c})
    BY <1>1, <2>1, <2>2, <2>3
  <2>5. Sum(S) \in Int
    BY <2>4
  <2>6. ASSUME NEW x \in S PROVE Sum(S) = f[x] + Sum(S \ {x})
    <3>1. CASE x = c
      BY <2>4, <3>1
    <3>2. CASE x # c
      <4>1. S \ {x} # S /\ S \ {x} \in SUBSET S /\ c \in S \ {x} /\ x \in S \ {c}
        BY <2>4, <2>6, <3>2
      <4>2. Sum(S \ {x}) = f[c] + Sum((S \ {x}) \ {c})
        BY <2>2, <4>1
      <4>3. Sum(S \ {c}) = f[x] + Sum((S \ {c}) \ {x})
        BY <2>4, <4>1
      <4>4. (S \ {x}) \ {c} = (S \ {c}) \ {x} /\ (S \ {x}) \ {c} # S /\ (S \ {x}) \ {c} \in SUBSET S
        BY <2>4
      <4>5. Sum((S \ {x}) \ {c}) \in Int /\ f[x] \in Int
        BY <2>2, <2>1, <4>4
      <4>6. Sum((S \ {x}) \ {c}) = Sum((S \ {c}) \ {x})
        BY <4>4
      <4> HIDE DEF c
      <4>7. Sum(S) = f[c] + (f[x] + Sum((S \ {c}) \ {x}))
        BY <2>4, <4>3
      <4>8. Sum(S \ {x}) = f[c] + Sum((S \ {c}) \ {x})
        BY <4>2, <4>6
      <4>9. f[c] \in Int /\ f[x] \in Int /\ Sum((S \ {c}) \ {x}) \in Int
        BY <2>4, <4>5, <4>6
      <4> QED
        BY <4>7, <4>8, <4>9
    <3> QED
      BY <3>1, <3>2
  <2> QED
    BY <2>1, <2>5, <2>6
<1>4. \A S \in SUBSET U : Good(S)
  BY <1>3
<1> QED
  BY <1>4 DEF Sum

\* The same, for one set.
LEMMA SumType ==
  ASSUME NEW f, NEW S, IsFiniteSet(S), \A x \in S : f[x] \in Int
  PROVE  SumFunctionOnSet(f, S) \in Int
BY SumRemove

\* An element taken out of one set.
LEMMA SumTake ==
  ASSUME NEW f, NEW S, IsFiniteSet(S), \A y \in S : f[y] \in Int, NEW x \in S
  PROVE  /\ SumFunctionOnSet(f, S \ {x}) \in Int
         /\ SumFunctionOnSet(f, S) = f[x] + SumFunctionOnSet(f, S \ {x})
BY SumRemove

\* An element more.
LEMMA SumAdd ==
  ASSUME NEW f, NEW S, IsFiniteSet(S), NEW x, x \notin S, \A y \in S \cup {x} : f[y] \in Int
  PROVE  /\ SumFunctionOnSet(f, S) \in Int
         /\ SumFunctionOnSet(f, S \cup {x}) = SumFunctionOnSet(f, S) + f[x]
<1>1. IsFiniteSet(S \cup {x}) /\ (S \cup {x}) \ {x} = S
  BY FS_AddElement
<1> QED
  BY <1>1, SumTake, SumType

\* The sum of one element.
LEMMA SumOne ==
  ASSUME NEW f, NEW x, f[x] \in Int
  PROVE  SumFunctionOnSet(f, {x}) = f[x]
<1>1. IsFiniteSet({x}) /\ {x} \ {x} = {}
  BY FS_Singleton
<1> QED
  BY <1>1, SumTake, SumEmpty

\* Functions that agree on the set have the same sum.
LEMMA SumEqual ==
  ASSUME NEW f, NEW g, NEW U, IsFiniteSet(U), \A x \in U : f[x] = g[x]
  PROVE  SumFunctionOnSet(f, U) = SumFunctionOnSet(g, U)
<1> DEFINE F(S) == SumFunctionOnSet(f, S)
           G(S) == SumFunctionOnSet(g, S)
           Bad == {S \in SUBSET U : F(S) # G(S)}
<1>1. \A S \in SUBSET U : S # {} =>
         /\ Pick(S) \in S
         /\ F(S) = f[Pick(S)] + F(S \ {Pick(S)}) /\ G(S) = g[Pick(S)] + G(S \ {Pick(S)})
  BY FS_Subset, PickIs, SumUnfolds
<1>2. F({}) = G({})
  BY SumEmpty
<1> HIDE DEF F, G
<1>3. ASSUME Bad # {} PROVE FALSE
  <2>1. PICK S \in Bad : \A t \in SUBSET S : t # S => t \notin Bad
    <3>1. Bad \subseteq FiniteSubsetsOf(U)
      BY FS_FiniteSubsetsOfFinite
    <3> HIDE DEF Bad
    <3> QED
      BY <1>3, <3>1, SmallestSet
  <2>2. S # {}
    BY <2>1, <1>2
  <2>3. Pick(S) \in S /\ F(S \ {Pick(S)}) = G(S \ {Pick(S)})
    BY <1>1, <2>1, <2>2
  <2> QED
    BY <1>1, <2>1, <2>2, <2>3
<1>4. F(U) = G(U)
  BY <1>3
<1> QED
  BY <1>4 DEF F, G

\* One value is changed.
LEMMA SumChange ==
  ASSUME NEW f, NEW g, NEW S, IsFiniteSet(S), NEW x \in S, g[x] \in Int,
         \A y \in S : f[y] \in Int, \A y \in S \ {x} : g[y] = f[y]
  PROVE  SumFunctionOnSet(g, S) = SumFunctionOnSet(f, S) + g[x] - f[x]
<1>1. IsFiniteSet(S \ {x})
  BY FS_RemoveElement
<1>2. SumFunctionOnSet(g, S \ {x}) = SumFunctionOnSet(f, S \ {x})
  BY <1>1, SumEqual
<1>3. \A y \in S : g[y] \in Int
  OBVIOUS
<1> QED
  BY <1>2, <1>3, SumTake

\* Two values changed.
LEMMA SumChangeTwo ==
  ASSUME NEW f, NEW g, NEW S, IsFiniteSet(S), NEW x \in S, NEW y \in S, x # y,
         \A z \in S : f[z] \in Int /\ g[z] \in Int, \A z \in S \ {x, y} : g[z] = f[z]
  PROVE  SumFunctionOnSet(g, S) = SumFunctionOnSet(f, S) + (g[x] - f[x]) + (g[y] - f[y])
<1> DEFINE h == [z \in S |-> IF z = x THEN g[x] ELSE f[z]]
<1>1. /\ \A z \in S : h[z] \in Int
      /\ h[x] = g[x] /\ h[y] = f[y]
      /\ \A z \in S \ {x} : h[z] = f[z]
      /\ \A z \in S \ {y} : g[z] = h[z]
  OBVIOUS
<1>2. SumFunctionOnSet(f, S) \in Int
  BY SumType
<1> HIDE DEF h
<1>3. SumFunctionOnSet(h, S) = SumFunctionOnSet(f, S) + h[x] - f[x]
  BY <1>1, SumChange
<1>4. SumFunctionOnSet(g, S) = SumFunctionOnSet(h, S) + g[y] - h[y]
  BY <1>1, SumChange
<1> QED
  BY <1>1, <1>2, <1>3, <1>4

\* Nothing but zeros, and nothing below zero.
LEMMA SumZero ==
  ASSUME NEW f, NEW U, IsFiniteSet(U), \A x \in U : f[x] = 0
  PROVE  SumFunctionOnSet(f, U) = 0
<1> DEFINE F(S) == SumFunctionOnSet(f, S)
           Bad == {S \in SUBSET U : F(S) # 0}
<1>1. \A S \in SUBSET U : S # {} => Pick(S) \in S /\ F(S) = f[Pick(S)] + F(S \ {Pick(S)})
  BY FS_Subset, PickIs, SumUnfolds
<1>2. F({}) = 0
  BY SumEmpty
<1> HIDE DEF F
<1>3. ASSUME Bad # {} PROVE FALSE
  <2>1. PICK S \in Bad : \A t \in SUBSET S : t # S => t \notin Bad
    <3>1. Bad \subseteq FiniteSubsetsOf(U)
      BY FS_FiniteSubsetsOfFinite
    <3> HIDE DEF Bad
    <3> QED
      BY <1>3, <3>1, SmallestSet
  <2>2. S # {}
    BY <2>1, <1>2
  <2>3. Pick(S) \in S /\ F(S \ {Pick(S)}) = 0
    BY <1>1, <2>1, <2>2
  <2> QED
    BY <1>1, <2>1, <2>2, <2>3
<1>4. F(U) = 0
  BY <1>3
<1> QED
  BY <1>4 DEF F

LEMMA SumNatural ==
  ASSUME NEW f, NEW U, IsFiniteSet(U), \A x \in U : f[x] \in Nat
  PROVE  SumFunctionOnSet(f, U) \in Nat
<1> DEFINE F(S) == SumFunctionOnSet(f, S)
           Bad == {S \in SUBSET U : F(S) \notin Nat}
<1>1. \A S \in SUBSET U : S # {} => Pick(S) \in S /\ F(S) = f[Pick(S)] + F(S \ {Pick(S)})
  BY FS_Subset, PickIs, SumUnfolds
<1>2. F({}) \in Nat
  BY SumEmpty
<1> HIDE DEF F
<1>3. ASSUME Bad # {} PROVE FALSE
  <2>1. PICK S \in Bad : \A t \in SUBSET S : t # S => t \notin Bad
    <3>1. Bad \subseteq FiniteSubsetsOf(U)
      BY FS_FiniteSubsetsOfFinite
    <3> HIDE DEF Bad
    <3> QED
      BY <1>3, <3>1, SmallestSet
  <2>2. S # {}
    BY <2>1, <1>2
  <2>3. Pick(S) \in S /\ F(S \ {Pick(S)}) \in Nat
    BY <1>1, <2>1, <2>2
  <2> QED
    BY <1>1, <2>1, <2>2, <2>3
<1>4. F(U) \in Nat
  BY <1>3
<1> QED
  BY <1>4 DEF F
-----------------------------------------------------------------------------
(* Induction over finite sets and over numbers, for a set of good ones.    *)

\* A family of sets that has the empty one and, with a set, that set and one
\* element more, has every subset of a finite set.
LEMMA FiniteInduction ==
  ASSUME NEW U, IsFiniteSet(U), NEW Good, {} \in Good,
         \A S \in SUBSET U, x \in U : (S \in Good /\ x \notin S) => S \cup {x} \in Good
  PROVE  \A S \in SUBSET U : S \in Good
<1> DEFINE Bad == (SUBSET U) \ Good
<1>1. ASSUME Bad # {} PROVE FALSE
  <2>1. PICK S \in Bad : \A t \in SUBSET S : t # S => t \notin Bad
    <3>1. Bad \subseteq FiniteSubsetsOf(U)
      BY FS_FiniteSubsetsOfFinite
    <3> HIDE DEF Bad
    <3> QED
      BY <1>1, <3>1, SmallestSet
  <2>2. PICK x \in S : TRUE
    BY <2>1
  <2>3. S \ {x} \in Good /\ x \notin S \ {x} /\ (S \ {x}) \cup {x} = S
    BY <2>1, <2>2
  <2>4. S \ {x} \in SUBSET U /\ x \in U
    BY <2>1, <2>2
  <2>5. (S \ {x}) \cup {x} \in Good
    BY <2>3, <2>4
  <2> QED
    BY <2>1, <2>3, <2>5
<1> QED
  BY <1>1

\* A set of numbers has a least one.
LEMMA LeastNumber ==
  ASSUME NEW T, T \subseteq Nat, T # {}
  PROVE  \E m \in T : \A n \in T : ~(n < m)
<1>1. PICK m \in T : \A n \in T : ~(<<n, m>> \in OpToRel(<, Nat))
  BY NatLessThanWellFounded, WFMin
<1>2. \A n \in T : n < m => <<n, m>> \in OpToRel(<, Nat)
  BY DEF OpToRel
<1> QED
  BY <1>1, <1>2

\* A finite set of numbers has a greatest one.
LEMMA GreatestNumber ==
  ASSUME NEW T, T \subseteq Nat, T # {}, IsFiniteSet(T)
  PROVE  \E m \in T : \A n \in T : n <= m
<1>1. PICK Good : Good = {S \in SUBSET T : S = {} \/ \E m \in S : \A n \in S : n <= m}
  OBVIOUS
<1>2. {} \in Good
  BY <1>1
<1>3. ASSUME NEW S \in SUBSET T, NEW x \in T, S \in Good PROVE S \cup {x} \in Good
  <2>1. CASE S = {}
    <3>1. \A n \in S \cup {x} : n <= x
      BY <2>1
    <3> QED
      BY <1>1, <3>1
  <2>2. CASE S # {}
    <3>1. PICK m \in S : \A n \in S : n <= m
      BY <1>1, <1>3, <2>2
    <3>2. m \in Nat /\ x \in Nat /\ \A n \in S : n \in Nat
      OBVIOUS
    <3>3. CASE x <= m
      <4>1. \A n \in S \cup {x} : n <= m
        BY <3>1, <3>3
      <4> QED
        BY <1>1, <4>1
    <3>4. CASE ~(x <= m)
      <4>1. \A n \in S \cup {x} : n <= x
        BY ONLY <3>1, <3>2, <3>4
      <4> QED
        BY <1>1, <4>1
    <3> QED
      BY <3>3, <3>4
  <2> QED
    BY <2>1, <2>2
<1>4. \A S \in SUBSET T, x \in T : (S \in Good /\ x \notin S) => S \cup {x} \in Good
  BY ONLY <1>3
<1>5. \A S \in SUBSET T : S \in Good
  BY ONLY <1>2, <1>4, IsFiniteSet(T), FiniteInduction
<1> QED
  BY ONLY <1>1, <1>5, T # {}

\* A set that has 0 and with a number the next one has every number.
LEMMA NumberInduction ==
  ASSUME NEW Good, 0 \in Good, \A n \in Nat : n \in Good => n + 1 \in Good
  PROVE  \A n \in Nat : n \in Good
<1> DEFINE Bad == Nat \ Good
<1>1. ASSUME Bad # {} PROVE FALSE
  <2>1. PICK m \in Bad : \A n \in Bad : ~(n < m)
    <3>1. Bad \subseteq Nat
      OBVIOUS
    <3> HIDE DEF Bad
    <3> QED
      BY <1>1, <3>1, LeastNumber
  <2>2. m \in Nat /\ m # 0 /\ m - 1 \in Nat /\ m - 1 < m /\ (m - 1) + 1 = m
    BY <2>1
  <2>3. m - 1 \in Good
    BY <2>1, <2>2
  <2> QED
    BY <2>1, <2>2, <2>3
<1> QED
  BY <1>1

-----------------------------------------------------------------------------
(* Sums over unions, images and parts.                                     *)

\* Two sets with no common element.
LEMMA SumUnion ==
  ASSUME NEW f, NEW S, NEW T, IsFiniteSet(S), IsFiniteSet(T), S \cap T = {},
         \A x \in S \cup T : f[x] \in Int
  PROVE  SumFunctionOnSet(f, S \cup T) = SumFunctionOnSet(f, S) + SumFunctionOnSet(f, T)
<1> DEFINE F(s) == SumFunctionOnSet(f, s)
           Good == {t \in SUBSET T : F(S \cup t) = F(S) + F(t)}
<1>1. {} \in Good
  <2>1. F({}) = 0 /\ S \cup {} = S
    BY SumEmpty
  <2>2. F(S) \in Int
    BY SumType
  <2> HIDE DEF F
  <2> QED
    BY <2>1, <2>2
<1>2. ASSUME NEW t \in SUBSET T, NEW x \in T, t \in Good, x \notin t
      PROVE  t \cup {x} \in Good
  <2>1. IsFiniteSet(t) /\ IsFiniteSet(S \cup t)
    BY FS_Subset, FS_Union
  <2>2. x \notin S \cup t /\ S \cup (t \cup {x}) = (S \cup t) \cup {x}
    BY <1>2
  <2>3. F(t) \in Int /\ F(t \cup {x}) = F(t) + f[x]
    BY <1>2, <2>1, SumAdd
  <2>4. F(S \cup t) \in Int /\ F((S \cup t) \cup {x}) = F(S \cup t) + f[x]
    BY <2>1, <2>2, SumAdd
  <2>5. F(S) \in Int /\ f[x] \in Int
    BY SumType
  <2>6. F(S \cup t) = F(S) + F(t)
    BY <1>2
  <2>7. F(S \cup (t \cup {x})) = F(S) + F(t \cup {x})
    <3>1. F(S \cup (t \cup {x})) = F((S \cup t) \cup {x})
      BY <2>2
    <3> HIDE DEF F
    <3> QED
      BY ONLY <3>1, <2>3, <2>4, <2>5, <2>6
  <2>8. t \cup {x} \in SUBSET T
    OBVIOUS
  <2> QED
    BY ONLY <2>7, <2>8
<1>3. T \in Good
  <2> HIDE DEF Good
  <2> QED
    BY <1>1, <1>2, FiniteInduction
<1> QED
  BY <1>3

\* b names each element of S by one of T.
Renames(b, S, T) ==
  /\ \A x \in S : b[x] \in T
  /\ \A y \in T : \E x \in S : b[x] = y
  /\ \A x, y \in S : b[x] = b[y] => x = y

\* The same values under other names.
LEMMA SumRenamed ==
  ASSUME NEW f, NEW g, NEW b, NEW S, NEW T, IsFiniteSet(S), Renames(b, S, T),
         \A x \in S : f[x] \in Int /\ g[b[x]] = f[x]
  PROVE  SumFunctionOnSet(g, T) = SumFunctionOnSet(f, S)
<1>0. \A x, y \in S : b[x] = b[y] => x = y
  BY DEF Renames
<1> DEFINE Img(s) == {b[x] : x \in s}
           Good == {s \in SUBSET S : /\ IsFiniteSet(Img(s))
                                     /\ SumFunctionOnSet(g, Img(s)) = SumFunctionOnSet(f, s)}
<1>1. {} \in Good
  BY SumEmpty, FS_EmptySet
<1>2. ASSUME NEW s \in SUBSET S, NEW x \in S, s \in Good, x \notin s
      PROVE  s \cup {x} \in Good
  <2>1. Img(s \cup {x}) = Img(s) \cup {b[x]} /\ b[x] \notin Img(s)
    BY <1>0, <1>2
  <2>2. IsFiniteSet(s) /\ IsFiniteSet(Img(s)) /\ IsFiniteSet(Img(s) \cup {b[x]})
    BY <1>2, FS_Subset, FS_AddElement
  <2>3. \A y \in Img(s) \cup {b[x]} : g[y] \in Int
    OBVIOUS
  <2>4. SumFunctionOnSet(f, s \cup {x}) = SumFunctionOnSet(f, s) + f[x]
    BY <1>2, <2>2, SumAdd
  <2>5. SumFunctionOnSet(g, Img(s) \cup {b[x]}) = SumFunctionOnSet(g, Img(s)) + g[b[x]]
    <3> HIDE DEF Img
    <3> QED
      BY <2>1, <2>2, <2>3, SumAdd
  <2> QED
    BY <1>2, <2>1, <2>2, <2>4, <2>5
<1>3. S \in Good
  <2> HIDE DEF Good
  <2> QED
    BY <1>1, <1>2, FiniteInduction
<1>4. Img(S) = T
  BY DEF Renames
<1> QED
  BY <1>3, <1>4

\* S falls into parts, one for each key of K.
InParts(S, K, key, part) ==
  /\ \A x \in S : key[x] \in K
  /\ \A k \in K : \A x : x \in part[k] <=> x \in S /\ key[x] = k

\* The sum over a set in parts: the sum of the sums over the parts.
LEMMA SumParts ==
  ASSUME NEW f, NEW S, IsFiniteSet(S), NEW K, IsFiniteSet(K), NEW key, NEW part, NEW h,
         InParts(S, K, key, part), \A x \in S : f[x] \in Int,
         \A k \in K : h[k] = SumFunctionOnSet(f, part[k])
  PROVE  SumFunctionOnSet(f, S) = SumFunctionOnSet(h, K)
<1>0. /\ \A x \in S : key[x] \in K
      /\ \A k \in K : \A x : x \in part[k] <=> x \in S /\ key[x] = k
  BY DEF InParts
<1> DEFINE Part(k) == {x \in S : key[x] \in k}
           F(s) == SumFunctionOnSet(f, s)
           H(k) == SumFunctionOnSet(h, k)
           Good == {k \in SUBSET K : F(Part(k)) = H(k)}
<1>1. {} \in Good
  <2>1. Part({}) = {}
    OBVIOUS
  <2> QED
    BY <2>1, SumEmpty
<1>2. \A s \in SUBSET S : IsFiniteSet(s) /\ F(s) \in Int
  BY FS_Subset, SumType
<1>3. \A k \in K : part[k] \in SUBSET S /\ h[k] = F(part[k]) /\ h[k] \in Int
  <2>1. \A k \in K : part[k] \in SUBSET S /\ h[k] = F(part[k])
    BY <1>0
  <2> HIDE DEF F
  <2> QED
    BY ONLY <1>2, <2>1
<1>4. ASSUME NEW k \in SUBSET K, NEW j \in K, k \in Good, j \notin k
      PROVE  k \cup {j} \in Good
  <2>1. Part(k \cup {j}) = Part(k) \cup part[j] /\ Part(k) \cap part[j] = {}
    BY <1>0, <1>4
  <2>2. Part(k) \in SUBSET S /\ part[j] \in SUBSET S
    BY <1>3
  <2>3. F(Part(k) \cup part[j]) = F(Part(k)) + F(part[j])
    <3>1. IsFiniteSet(Part(k)) /\ IsFiniteSet(part[j])
      BY ONLY <1>2, <2>2
    <3>2. \A x \in Part(k) \cup part[j] : f[x] \in Int
      BY <2>2
    <3> HIDE DEF Part
    <3> QED
      BY ONLY <2>1, <3>1, <3>2, SumUnion
  <2>4. IsFiniteSet(k) /\ \A i \in k \cup {j} : h[i] \in Int
    BY <1>3, FS_Subset
  <2>5. H(k \cup {j}) = H(k) + h[j]
    BY ONLY <1>4, <2>4, SumAdd
  <2>6. F(Part(k)) = H(k) /\ h[j] = F(part[j])
    BY <1>3, <1>4
  <2>7. k \cup {j} \in SUBSET K
    OBVIOUS
  <2> HIDE DEF F, H, Part
  <2>8. F(Part(k \cup {j})) = H(k \cup {j})
    BY ONLY <2>1, <2>3, <2>5, <2>6
  <2> QED
    BY ONLY <2>7, <2>8
<1>5. K \in Good
  <2> HIDE DEF Good
  <2> QED
    BY ONLY <1>1, <1>4, FiniteInduction, IsFiniteSet(K)
<1>6. Part(K) = S
  BY <1>0
<1> QED
  BY <1>5, <1>6

\* A sum of multiples.
LEMMA SumTimes ==
  ASSUME NEW f, NEW g, NEW c \in Int, NEW U, IsFiniteSet(U),
         \A x \in U : f[x] \in Int /\ g[x] = c * f[x]
  PROVE  SumFunctionOnSet(g, U) = c * SumFunctionOnSet(f, U)
<1> DEFINE F(s) == SumFunctionOnSet(f, s)
           G(s) == SumFunctionOnSet(g, s)
           Good == {s \in SUBSET U : G(s) = c * F(s)}
<1>1. {} \in Good
  <2>1. F({}) = 0 /\ G({}) = 0
    BY SumEmpty
  <2> HIDE DEF F, G
  <2> QED
    BY <2>1
<1>2. ASSUME NEW s \in SUBSET U, NEW x \in U, s \in Good, x \notin s
      PROVE  s \cup {x} \in Good
  <2>1. IsFiniteSet(s)
    BY FS_Subset
  <2>2. \A y \in U : f[y] \in Int /\ g[y] \in Int
    OBVIOUS
  <2>3. \A y \in s \cup {x} : f[y] \in Int /\ g[y] \in Int
    BY ONLY <2>2, x \in U, s \in SUBSET U
  <2>4. F(s) \in Int /\ F(s \cup {x}) = F(s) + f[x]
    BY ONLY <1>2, <2>1, <2>3, SumAdd
  <2>5. G(s) \in Int /\ G(s \cup {x}) = G(s) + g[x]
    BY ONLY <1>2, <2>1, <2>3, SumAdd
  <2>6. G(s) = c * F(s) /\ g[x] = c * f[x] /\ f[x] \in Int
    BY <1>2
  <2>7. s \cup {x} \in SUBSET U
    OBVIOUS
  <2> HIDE DEF F, G
  <2>8. c * (F(s) + f[x]) = c * F(s) + c * f[x]
    BY ONLY <2>4, <2>6, c \in Int
  <2>9. G(s \cup {x}) = c * F(s \cup {x})
    BY ONLY <2>4, <2>5, <2>6, <2>8
  <2> QED
    BY ONLY <2>7, <2>9
<1>3. U \in Good
  <2> HIDE DEF Good
  <2> QED
    BY ONLY <1>1, <1>2, FiniteInduction, IsFiniteSet(U)
<1> QED
  BY <1>3

\* Sums add and subtract term by term.
LEMMA SumDifference ==
  ASSUME NEW f, NEW g, NEW h, NEW U, IsFiniteSet(U),
         \A x \in U : f[x] \in Int /\ g[x] \in Int /\ h[x] = f[x] - g[x]
  PROVE  SumFunctionOnSet(h, U) = SumFunctionOnSet(f, U) - SumFunctionOnSet(g, U)
<1> DEFINE F(s) == SumFunctionOnSet(f, s)
           G(s) == SumFunctionOnSet(g, s)
           H(s) == SumFunctionOnSet(h, s)
           Good == {s \in SUBSET U : H(s) = F(s) - G(s)}
<1>1. {} \in Good
  BY SumEmpty
<1>2. ASSUME NEW s \in SUBSET U, NEW x \in U, s \in Good, x \notin s
      PROVE  s \cup {x} \in Good
  <2>1. IsFiniteSet(s)
    BY FS_Subset
  <2>2. \A y \in s \cup {x} : f[y] \in Int /\ g[y] \in Int /\ h[y] \in Int /\ h[y] = f[y] - g[y]
    OBVIOUS
  <2>3. F(s) \in Int /\ F(s \cup {x}) = F(s) + f[x]
    BY ONLY <1>2, <2>1, <2>2, SumAdd
  <2>4. G(s) \in Int /\ G(s \cup {x}) = G(s) + g[x]
    BY ONLY <1>2, <2>1, <2>2, SumAdd
  <2>5. H(s) \in Int /\ H(s \cup {x}) = H(s) + h[x]
    BY ONLY <1>2, <2>1, <2>2, SumAdd
  <2>6. H(s) = F(s) - G(s)
    BY <1>2
  <2>7. H(s \cup {x}) = F(s \cup {x}) - G(s \cup {x})
    <3> HIDE DEF F, G, H
    <3> QED
      BY ONLY <2>2, <2>3, <2>4, <2>5, <2>6
  <2>8. s \cup {x} \in SUBSET U
    OBVIOUS
  <2> QED
    BY ONLY <2>7, <2>8
<1>3. U \in Good
  <2> HIDE DEF Good
  <2> QED
    BY <1>1, <1>2, FiniteInduction
<1> QED
  BY <1>3

\* A sum of naturals is at least each of its terms.
LEMMA SumAtLeast ==
  ASSUME NEW f, NEW S, IsFiniteSet(S), \A y \in S : f[y] \in Nat, NEW x \in S
  PROVE  SumFunctionOnSet(f, S) \in Nat /\ f[x] <= SumFunctionOnSet(f, S)
<1>1. IsFiniteSet(S \ {x}) /\ x \notin S \ {x} /\ (S \ {x}) \cup {x} = S
  BY FS_RemoveElement
<1>2. SumFunctionOnSet(f, S \ {x}) \in Nat /\ SumFunctionOnSet(f, S) \in Nat
  BY <1>1, SumNatural
<1>3. SumFunctionOnSet(f, (S \ {x}) \cup {x}) = SumFunctionOnSet(f, S \ {x}) + f[x]
  BY <1>1, SumAdd
<1> QED
  BY <1>1, <1>2, <1>3
=============================================================================
