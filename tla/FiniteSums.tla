----------------------------- MODULE FiniteSums -----------------------------
(***************************************************************************)
(* What the proofs need to know of SumFunctionOnSet.                       *)
(***************************************************************************)
EXTENDS Integers, FiniteSets, FiniteSetsExt, FiniteSetTheorems, TLAPS

\* Every nonempty collection of subsets of a finite set has a smallest member.
LEMMA Minimal ==
  ASSUME NEW S, IsFiniteSet(S), NEW T, T \subseteq SUBSET S, T # {}
  PROVE  \E s \in T : \A u \in T : u \subseteq s => u = s
<1>1. IsWellFoundedOn(StrictSubsetOrdering(S), FiniteSubsetsOf(S))
  BY FS_StrictSubsetOrderingWellFounded
<1>2. T \subseteq FiniteSubsetsOf(S)
  BY FS_Subset DEF FiniteSubsetsOf
<1>3. \E s \in T : \A u \in T : ~ <<u, s>> \in StrictSubsetOrdering(S)
  BY <1>1, <1>2, WFMin
<1> QED
  BY <1>3 DEF StrictSubsetOrdering

Chosen(s) == CHOOSE x \in s : TRUE

LEMMA ChosenIn == \A s : s # {} => Chosen(s) \in s
BY DEF Chosen

\* g is the recursive function SumFunctionOnSet is the value of at S.
Recurses(g, f, S) ==
  g = [s \in SUBSET S |-> IF s = {} THEN 0 ELSE f[Chosen(s)] + g[s \ {Chosen(s)}]]

LEMMA SumIsChosen ==
  ASSUME NEW f, NEW S
  PROVE  SumFunctionOnSet(f, S) = (CHOOSE g : Recurses(g, f, S))[S]
BY DEF SumFunctionOnSet, FoldFunctionOnSet, MapThenFoldSet, Recurses, Chosen

LEMMA RecursesAt ==
  \A f, S, g : Recurses(g, f, S) =>
    \A s \in SUBSET S : g[s] = IF s = {} THEN 0 ELSE f[Chosen(s)] + g[s \ {Chosen(s)}]
<1> SUFFICES ASSUME NEW f, NEW S, NEW g, Recurses(g, f, S), NEW s \in SUBSET S
             PROVE  g[s] = IF s = {} THEN 0 ELSE f[Chosen(s)] + g[s \ {Chosen(s)}]
  OBVIOUS
<1> DEFINE h == [u \in SUBSET S |-> IF u = {} THEN 0 ELSE f[Chosen(u)] + g[u \ {Chosen(u)}]]
<1>1. g = h
  BY DEF Recurses
<1>2. h[s] = IF s = {} THEN 0 ELSE f[Chosen(s)] + g[s \ {Chosen(s)}]
  OBVIOUS
<1> QED
  BY <1>1, <1>2

\* The step of the recursion at s, and at every part of S.
Unfolds(g, f, s) == g[s] = IF s = {} THEN 0 ELSE f[Chosen(s)] + g[s \ {Chosen(s)}]
UnfoldsOn(g, f, S) == \A s \in SUBSET S : Unfolds(g, f, s)

\* Two functions that recurse agree on the subsets they share.
LEMMA UnfoldedAgree ==
  ASSUME NEW f, NEW R, IsFiniteSet(R), NEW g, NEW h,
         UnfoldsOn(g, f, R), UnfoldsOn(h, f, R)
  PROVE  \A s \in SUBSET R : g[s] = h[s]
<1> DEFINE T == {s \in SUBSET R : g[s] # h[s]}
<1>1. SUFFICES ASSUME T # {} PROVE FALSE
  OBVIOUS
<1>2. PICK s \in T : \A u \in T : u \subseteq s => u = s
  <2>1. T \subseteq SUBSET R
    OBVIOUS
  <2> HIDE DEF T
  <2> QED
    BY <1>1, <2>1, Minimal
<1>3. Unfolds(g, f, s) /\ Unfolds(h, f, s)
  BY DEF UnfoldsOn
<1>4. s # {}
  BY <1>3 DEF Unfolds
<1>5. Chosen(s) \in s
  BY <1>4, ChosenIn
<1>6. g[s \ {Chosen(s)}] = h[s \ {Chosen(s)}]
  BY <1>2, <1>5
<1> QED
  BY <1>3, <1>4, <1>6 DEF Unfolds

LEMMA RecursesUnfolds ==
  ASSUME NEW f, NEW S, NEW g, Recurses(g, f, S)
  PROVE  UnfoldsOn(g, f, S)
BY RecursesAt DEF Unfolds, UnfoldsOn

LEMMA RecursesAgree ==
  ASSUME NEW f, NEW S, NEW R \in SUBSET S, IsFiniteSet(R),
         NEW g, Recurses(g, f, S), NEW h, Recurses(h, f, R)
  PROVE  g[R] = h[R]
<1>1. UnfoldsOn(g, f, R)
  BY RecursesUnfolds DEF UnfoldsOn
<1>2. UnfoldsOn(h, f, R)
  BY RecursesUnfolds
<1>3. \A s \in SUBSET R : g[s] = h[s]
  BY <1>1, <1>2, UnfoldedAgree
<1> QED
  BY <1>3

\* The recursive function exists.
LEMMA RecursionExists ==
  ASSUME NEW f, NEW S, IsFiniteSet(S)
  PROVE  \E g : Recurses(g, f, S)
<1> DEFINE T == {s \in SUBSET S : ~ \E g : Recurses(g, f, s)}
<1>1. SUFFICES ASSUME T # {} PROVE FALSE
  OBVIOUS
<1>2. PICK s \in T : \A u \in T : u \subseteq s => u = s
  <2>1. T \subseteq SUBSET S
    OBVIOUS
  <2> HIDE DEF T
  <2> QED
    BY <1>1, <2>1, Minimal
<1> DEFINE Fun(u) == CHOOSE k : Recurses(k, f, u)
           Val(u) == Fun(u)[u]
           G == [u \in SUBSET s |->
                   IF u = {} THEN 0 ELSE f[Chosen(u)] + Val(u \ {Chosen(u)})]
<1>3. \A u \in SUBSET s : u # s => Recurses(Fun(u), f, u)
  <2> SUFFICES ASSUME NEW u \in SUBSET s, u # s PROVE \E g : Recurses(g, f, u)
    OBVIOUS
  <2> QED
    BY <1>2
<1>4. \A u \in SUBSET s : u # s => Val(u) = G[u]
  <2> SUFFICES ASSUME NEW u \in SUBSET s, u # s PROVE Val(u) = G[u]
    OBVIOUS
  <2>1. Recurses(Fun(u), f, u)
    BY <1>3
  <2>2. Fun(u)[u] = IF u = {} THEN 0 ELSE f[Chosen(u)] + Fun(u)[u \ {Chosen(u)}]
    <3> HIDE DEF Fun
    <3> QED
      BY <2>1, RecursesAt
  <2>3. ASSUME u # {} PROVE Fun(u)[u \ {Chosen(u)}] = Val(u \ {Chosen(u)})
    <3> DEFINE v == u \ {Chosen(u)}
    <3>1. v \in SUBSET s /\ v # s /\ v \in SUBSET u
      BY <2>3, ChosenIn
    <3>2. Recurses(Fun(v), f, v)
      BY <1>3, <3>1
    <3>3. IsFiniteSet(u)
      BY FS_Subset
    <3> HIDE DEF Fun, v
    <3>4. IsFiniteSet(v)
      BY <3>1, <3>3, FS_Subset
    <3>5. Fun(u)[v] = Fun(v)[v]
      BY <2>1, <3>1, <3>2, <3>4, RecursesAgree
    <3> QED
      BY <3>5 DEF v
  <2> QED
    BY <2>2, <2>3
<1>5. Recurses(G, f, s)
  <2>1. \A u \in SUBSET s : u # {} => Val(u \ {Chosen(u)}) = G[u \ {Chosen(u)}]
    <3> SUFFICES ASSUME NEW u \in SUBSET s, u # {}
                 PROVE  Val(u \ {Chosen(u)}) = G[u \ {Chosen(u)}]
      OBVIOUS
    <3>1. u \ {Chosen(u)} \in SUBSET s /\ u \ {Chosen(u)} # s
      BY ChosenIn
    <3> HIDE DEF Val, G
    <3> QED
      BY <1>4, <3>1
  <2> DEFINE H == [u \in SUBSET s |->
                     IF u = {} THEN 0 ELSE f[Chosen(u)] + G[u \ {Chosen(u)}]]
  <2>2. G = H
    <3>1. ASSUME NEW u \in SUBSET s PROVE G[u] = H[u]
      <4>1. G[u] = IF u = {} THEN 0 ELSE f[Chosen(u)] + Val(u \ {Chosen(u)})
        BY DEF G
      <4>2. H[u] = IF u = {} THEN 0 ELSE f[Chosen(u)] + G[u \ {Chosen(u)}]
        BY DEF H
      <4> QED
        BY <2>1, <4>1, <4>2
    <3> QED
      BY <3>1
  <2> QED
    BY <2>2 DEF Recurses
<1> QED
  BY <1>2, <1>5

-----------------------------------------------------------------------------
\* The sum over a set, from the sum over what is left of it.

LEMMA SumRecurses ==
  ASSUME NEW f, NEW S, IsFiniteSet(S)
  PROVE  SumFunctionOnSet(f, S) =
           IF S = {} THEN 0 ELSE f[Chosen(S)] + SumFunctionOnSet(f, S \ {Chosen(S)})
<1> DEFINE R == S \ {Chosen(S)}
           g == CHOOSE k : Recurses(k, f, S)
           h == CHOOSE k : Recurses(k, f, R)
<1>1. IsFiniteSet(R) /\ R \in SUBSET S
  BY FS_Subset
<1>2. Recurses(g, f, S) /\ Recurses(h, f, R)
  <2> HIDE DEF R
  <2> QED
    BY <1>1, RecursionExists
<1>3. SumFunctionOnSet(f, S) = g[S] /\ SumFunctionOnSet(f, R) = h[R]
  <2> HIDE DEF R
  <2> QED
    BY SumIsChosen
<1> HIDE DEF g, h
<1>4. g[S] = IF S = {} THEN 0 ELSE f[Chosen(S)] + g[R]
  BY <1>2, RecursesAt
<1>5. g[R] = h[R]
  <2> HIDE DEF R
  <2> QED
    BY <1>1, <1>2, RecursesAgree
<1> QED
  BY <1>3, <1>4, <1>5

LEMMA SumEmpty == \A f : SumFunctionOnSet(f, {}) = 0
BY SumRecurses, FS_EmptySet

Ints(f, S) == \A x \in S : f[x] \in Int

LEMMA SumType ==
  ASSUME NEW f, NEW S, IsFiniteSet(S), Ints(f, S)
  PROVE  SumFunctionOnSet(f, S) \in Int
<1> DEFINE T == {s \in SUBSET S : SumFunctionOnSet(f, s) \notin Int}
<1>1. SUFFICES ASSUME T # {} PROVE FALSE
  OBVIOUS
<1>2. PICK s \in T : \A u \in T : u \subseteq s => u = s
  <2>1. T \subseteq SUBSET S
    OBVIOUS
  <2> HIDE DEF T
  <2> QED
    BY <1>1, <2>1, Minimal
<1>3. IsFiniteSet(s)
  BY FS_Subset
<1>4. SumFunctionOnSet(f, s) =
        IF s = {} THEN 0 ELSE f[Chosen(s)] + SumFunctionOnSet(f, s \ {Chosen(s)})
  BY <1>3, SumRecurses
<1>5. s # {}
  BY <1>4
<1>6. Chosen(s) \in s
  BY <1>5, ChosenIn
<1>7. SumFunctionOnSet(f, s \ {Chosen(s)}) \in Int
  BY <1>2, <1>6
<1> QED
  BY <1>4, <1>5, <1>6, <1>7 DEF Ints

\* Any member can be taken out of a sum, not only the one the fold chooses.
LEMMA SumRemove ==
  ASSUME NEW f, NEW S, IsFiniteSet(S), Ints(f, S), NEW x \in S
  PROVE  SumFunctionOnSet(f, S) = f[x] + SumFunctionOnSet(f, S \ {x})
<1> DEFINE Taken(s, y) == SumFunctionOnSet(f, s) = f[y] + SumFunctionOnSet(f, s \ {y})
           T == {s \in SUBSET S : \E y \in s : ~ Taken(s, y)}
<1>1. SUFFICES ASSUME T # {} PROVE FALSE
  OBVIOUS
<1>2. PICK s \in T : \A u \in T : u \subseteq s => u = s
  <2>1. T \subseteq SUBSET S
    OBVIOUS
  <2> HIDE DEF T
  <2> QED
    BY <1>1, <2>1, Minimal
<1>3. PICK y \in s : ~ Taken(s, y)
  OBVIOUS
<1> DEFINE c == Chosen(s)
<1>4. c \in s /\ IsFiniteSet(s) /\ s \subseteq S
  BY ChosenIn, FS_Subset
<1>5. Taken(s, c)
  <2>1. s # {}
    OBVIOUS
  <2> QED
    BY <1>4, <2>1, SumRecurses
<1>6. c # y
  BY <1>3, <1>5
<1>7. Taken(s \ {c}, y) /\ Taken(s \ {y}, c)
  <2>1. /\ s \ {c} \in SUBSET S /\ s \ {c} \notin T /\ y \in s \ {c}
        /\ s \ {y} \in SUBSET S /\ s \ {y} \notin T /\ c \in s \ {y}
    BY <1>2, <1>4, <1>6
  <2> HIDE DEF Taken, c
  <2> QED
    BY <2>1
<1>8. (s \ {c}) \ {y} = (s \ {y}) \ {c}
  OBVIOUS
<1>9. SumFunctionOnSet(f, (s \ {c}) \ {y}) \in Int /\ f[c] \in Int /\ f[y] \in Int
  <2>1. IsFiniteSet((s \ {c}) \ {y}) /\ Ints(f, (s \ {c}) \ {y})
    BY <1>4, FS_Subset DEF Ints
  <2> HIDE DEF c
  <2> QED
    BY <1>4, <2>1, SumType DEF Ints
<1> HIDE DEF c, T
<1>10. SumFunctionOnSet(f, s) = f[y] + SumFunctionOnSet(f, s \ {y})
  <2>1. /\ SumFunctionOnSet(f, s) = f[c] + SumFunctionOnSet(f, s \ {c})
        /\ SumFunctionOnSet(f, s \ {c}) = f[y] + SumFunctionOnSet(f, (s \ {c}) \ {y})
        /\ SumFunctionOnSet(f, s \ {y}) = f[c] + SumFunctionOnSet(f, (s \ {c}) \ {y})
    BY <1>5, <1>7, <1>8
  <2> QED
    BY <1>9, <2>1
<1> QED
  BY <1>3, <1>10

-----------------------------------------------------------------------------
\* What a sum does when a value or the set changes.

LEMMA SumSame ==
  ASSUME NEW f, NEW g, NEW S, IsFiniteSet(S), \A x \in S : f[x] = g[x]
  PROVE  SumFunctionOnSet(f, S) = SumFunctionOnSet(g, S)
<1> DEFINE T == {s \in SUBSET S : SumFunctionOnSet(f, s) # SumFunctionOnSet(g, s)}
<1>1. SUFFICES ASSUME T # {} PROVE FALSE
  OBVIOUS
<1>2. PICK s \in T : \A u \in T : u \subseteq s => u = s
  <2>1. T \subseteq SUBSET S
    OBVIOUS
  <2> HIDE DEF T
  <2> QED
    BY <1>1, <2>1, Minimal
<1>3. IsFiniteSet(s)
  BY FS_Subset
<1>4. /\ SumFunctionOnSet(f, s) =
           IF s = {} THEN 0 ELSE f[Chosen(s)] + SumFunctionOnSet(f, s \ {Chosen(s)})
      /\ SumFunctionOnSet(g, s) =
           IF s = {} THEN 0 ELSE g[Chosen(s)] + SumFunctionOnSet(g, s \ {Chosen(s)})
  <2> HIDE DEF T
  <2>1. SumFunctionOnSet(f, s) =
           IF s = {} THEN 0 ELSE f[Chosen(s)] + SumFunctionOnSet(f, s \ {Chosen(s)})
    BY <1>3, SumRecurses
  <2>2. SumFunctionOnSet(g, s) =
           IF s = {} THEN 0 ELSE g[Chosen(s)] + SumFunctionOnSet(g, s \ {Chosen(s)})
    BY <1>3, SumRecurses
  <2> QED
    BY <2>1, <2>2
<1>5. s # {}
  BY <1>4
<1>6. Chosen(s) \in s
  BY <1>5, ChosenIn
<1>7. SumFunctionOnSet(f, s \ {Chosen(s)}) = SumFunctionOnSet(g, s \ {Chosen(s)})
  BY <1>2, <1>6
<1> QED
  BY <1>4, <1>5, <1>6, <1>7

\* Only the value at x differs.
LEMMA SumChanged ==
  ASSUME NEW f, NEW g, NEW S, IsFiniteSet(S), Ints(f, S), Ints(g, S), NEW x \in S,
         \A y \in S \ {x} : g[y] = f[y]
  PROVE  SumFunctionOnSet(g, S) = SumFunctionOnSet(f, S) - f[x] + g[x]
<1> DEFINE R == S \ {x}
<1>1. IsFiniteSet(R) /\ Ints(f, R)
  BY FS_Subset DEF Ints
<1>2. SumFunctionOnSet(g, R) = SumFunctionOnSet(f, R)
  BY <1>1, SumSame
<1>3. /\ SumFunctionOnSet(f, S) = f[x] + SumFunctionOnSet(f, R)
      /\ SumFunctionOnSet(g, S) = g[x] + SumFunctionOnSet(g, R)
  BY SumRemove
<1>4. SumFunctionOnSet(f, R) \in Int /\ f[x] \in Int /\ g[x] \in Int
  BY <1>1, SumType DEF Ints
<1> HIDE DEF R
<1> QED
  BY <1>2, <1>3, <1>4

LEMMA SumMonotone ==
  ASSUME NEW f, NEW g, NEW S, IsFiniteSet(S), Ints(f, S), Ints(g, S),
         \A x \in S : f[x] <= g[x]
  PROVE  SumFunctionOnSet(f, S) <= SumFunctionOnSet(g, S)
<1> DEFINE T == {s \in SUBSET S : ~ (SumFunctionOnSet(f, s) <= SumFunctionOnSet(g, s))}
<1>1. SUFFICES ASSUME T # {} PROVE FALSE
  OBVIOUS
<1>2. PICK s \in T : \A u \in T : u \subseteq s => u = s
  <2>1. T \subseteq SUBSET S
    OBVIOUS
  <2> HIDE DEF T
  <2> QED
    BY <1>1, <2>1, Minimal
<1>3. s # {}
  BY SumEmpty
<1>4. PICK x \in s : TRUE
  BY <1>3
<1>5. IsFiniteSet(s) /\ Ints(f, s) /\ Ints(g, s)
  BY FS_Subset DEF Ints
<1>6. IsFiniteSet(s \ {x}) /\ Ints(f, s \ {x}) /\ Ints(g, s \ {x})
  BY <1>5, FS_Subset DEF Ints
<1>7. SumFunctionOnSet(f, s \ {x}) <= SumFunctionOnSet(g, s \ {x})
  BY <1>2, <1>4
<1>8. /\ SumFunctionOnSet(f, s) = f[x] + SumFunctionOnSet(f, s \ {x})
      /\ SumFunctionOnSet(g, s) = g[x] + SumFunctionOnSet(g, s \ {x})
  <2> HIDE DEF T
  <2>1. SumFunctionOnSet(f, s) = f[x] + SumFunctionOnSet(f, s \ {x})
    BY <1>4, <1>5, SumRemove
  <2>2. SumFunctionOnSet(g, s) = g[x] + SumFunctionOnSet(g, s \ {x})
    BY <1>4, <1>5, SumRemove
  <2> QED
    BY <2>1, <2>2
<1>9. /\ SumFunctionOnSet(f, s \ {x}) \in Int /\ SumFunctionOnSet(g, s \ {x}) \in Int
      /\ f[x] \in Int /\ g[x] \in Int /\ f[x] <= g[x]
  <2>1. SumFunctionOnSet(f, s \ {x}) \in Int /\ SumFunctionOnSet(g, s \ {x}) \in Int
    BY <1>6, SumType
  <2> QED
    BY <1>4, <2>1 DEF Ints
<1>10. SumFunctionOnSet(f, s) <= SumFunctionOnSet(g, s)
  <2> HIDE DEF T
  <2> QED
    BY <1>7, <1>8, <1>9
<1> QED
  BY <1>10

LEMMA SumZero ==
  ASSUME NEW f, NEW S, IsFiniteSet(S), \A x \in S : f[x] = 0
  PROVE  SumFunctionOnSet(f, S) = 0
<1> DEFINE T == {s \in SUBSET S : SumFunctionOnSet(f, s) # 0}
<1>1. SUFFICES ASSUME T # {} PROVE FALSE
  OBVIOUS
<1>2. PICK s \in T : \A u \in T : u \subseteq s => u = s
  <2>1. T \subseteq SUBSET S
    OBVIOUS
  <2> HIDE DEF T
  <2> QED
    BY <1>1, <2>1, Minimal
<1>3. PICK x \in s : TRUE
  BY SumEmpty
<1>4. SumFunctionOnSet(f, s \ {x}) = 0
  BY <1>2, <1>3
<1>5. IsFiniteSet(s) /\ Ints(f, s) /\ f[x] = 0
  BY <1>3, FS_Subset DEF Ints
<1>6. SumFunctionOnSet(f, s) = f[x] + SumFunctionOnSet(f, s \ {x})
  <2> HIDE DEF T
  <2> QED
    BY <1>3, <1>5, SumRemove
<1> QED
  BY <1>4, <1>5, <1>6

Nats(f, S) == \A x \in S : f[x] \in Nat

LEMMA SumNat ==
  ASSUME NEW f, NEW S, IsFiniteSet(S), Nats(f, S)
  PROVE  SumFunctionOnSet(f, S) \in Nat
<1> DEFINE z == [x \in S |-> 0]
<1>1. Ints(f, S) /\ Ints(z, S) /\ \A x \in S : z[x] = 0 /\ z[x] <= f[x]
  BY DEF Ints, Nats
<1> HIDE DEF z
<1>2. SumFunctionOnSet(z, S) = 0
  BY <1>1, SumZero
<1>3. SumFunctionOnSet(z, S) <= SumFunctionOnSet(f, S)
  BY <1>1, SumMonotone
<1>4. SumFunctionOnSet(f, S) \in Int
  BY <1>1, SumType
<1> QED
  BY <1>2, <1>3, <1>4

\* A sum of natural numbers is at least each of its terms.
LEMMA SumAtLeast ==
  ASSUME NEW f, NEW S, IsFiniteSet(S), Nats(f, S), NEW x \in S
  PROVE  f[x] <= SumFunctionOnSet(f, S)
<1>1. Ints(f, S) /\ f[x] \in Nat
  BY DEF Ints, Nats
<1>2. SumFunctionOnSet(f, S) = f[x] + SumFunctionOnSet(f, S \ {x})
  BY <1>1, SumRemove
<1>3. IsFiniteSet(S \ {x}) /\ Nats(f, S \ {x})
  BY FS_Subset DEF Nats
<1>4. SumFunctionOnSet(f, S \ {x}) \in Nat
  BY <1>3, SumNat
<1> QED
  BY <1>1, <1>2, <1>4

LEMMA SumAdd ==
  ASSUME NEW f, NEW g, NEW h, NEW S, IsFiniteSet(S), Ints(f, S), Ints(g, S),
         \A x \in S : h[x] = f[x] + g[x]
  PROVE  SumFunctionOnSet(h, S) = SumFunctionOnSet(f, S) + SumFunctionOnSet(g, S)
<1> DEFINE Adds(s) == SumFunctionOnSet(h, s) = SumFunctionOnSet(f, s) + SumFunctionOnSet(g, s)
           T == {s \in SUBSET S : ~ Adds(s)}
<1>1. SUFFICES ASSUME T # {} PROVE FALSE
  OBVIOUS
<1>2. PICK s \in T : \A u \in T : u \subseteq s => u = s
  <2>1. T \subseteq SUBSET S
    OBVIOUS
  <2> HIDE DEF T
  <2> QED
    BY <1>1, <2>1, Minimal
<1>3. PICK x \in s : TRUE
  BY SumEmpty
<1>4. Adds(s \ {x}) /\ ~Adds(s)
  <2> HIDE DEF Adds
  <2> QED
    BY <1>2, <1>3
<1>5. IsFiniteSet(s) /\ Ints(f, s) /\ Ints(g, s) /\ Ints(h, s) /\ h[x] = f[x] + g[x]
  BY <1>3, FS_Subset DEF Ints
<1>6. IsFiniteSet(s \ {x}) /\ Ints(f, s \ {x}) /\ Ints(g, s \ {x})
  BY <1>5, FS_Subset DEF Ints
<1> HIDE DEF T
<1>7. SumFunctionOnSet(h, s) = h[x] + SumFunctionOnSet(h, s \ {x})
  BY <1>3, <1>5, SumRemove
<1>8. SumFunctionOnSet(f, s) = f[x] + SumFunctionOnSet(f, s \ {x})
  BY <1>3, <1>5, SumRemove
<1>9. SumFunctionOnSet(g, s) = g[x] + SumFunctionOnSet(g, s \ {x})
  BY <1>3, <1>5, SumRemove
<1>10. SumFunctionOnSet(f, s \ {x}) \in Int /\ SumFunctionOnSet(g, s \ {x}) \in Int
  BY <1>6, SumType
<1>11. f[x] \in Int /\ g[x] \in Int
  BY <1>3, <1>5 DEF Ints
<1> QED
  BY <1>4, <1>5, <1>7, <1>8, <1>9, <1>10, <1>11

\* The terms of one sum that count go one to one to greater terms of another.
LEMMA SumInjected ==
  ASSUME NEW f, NEW S, IsFiniteSet(S), Nats(f, S),
         NEW g, NEW T, IsFiniteSet(T), Nats(g, T), NEW p,
         \A x \in S : f[x] # 0 => p[x] \in T /\ f[x] <= g[p[x]],
         \A x, y \in S : f[x] # 0 /\ f[y] # 0 /\ p[x] = p[y] => x = y
  PROVE  SumFunctionOnSet(f, S) <= SumFunctionOnSet(g, T)
<1> DEFINE Into(s, u) == \A x \in s : f[x] # 0 => p[x] \in u
           Fits(s, u) == SumFunctionOnSet(f, s) <= SumFunctionOnSet(g, u)
           Bad == {s \in SUBSET S : \E u \in SUBSET T : Into(s, u) /\ ~Fits(s, u)}
<1>1. SUFFICES ASSUME Bad # {} PROVE FALSE
  <2>1. Into(S, T) /\ S \in SUBSET S /\ T \in SUBSET T
    OBVIOUS
  <2> QED
    BY <2>1
<1>2. PICK s \in Bad : \A r \in Bad : r \subseteq s => r = s
  <2>1. Bad \subseteq SUBSET S
    OBVIOUS
  <2> HIDE DEF Bad
  <2> QED
    BY <1>1, <2>1, Minimal
<1>3. PICK u \in SUBSET T : Into(s, u) /\ ~Fits(s, u)
  BY <1>2
<1>4. /\ s \in SUBSET S /\ IsFiniteSet(s) /\ IsFiniteSet(u)
      /\ Nats(f, s) /\ Nats(g, u) /\ Ints(f, s) /\ Ints(g, u)
  BY <1>2, <1>3, FS_Subset DEF Nats, Ints
<1>5. s # {}
  <2>1. SumFunctionOnSet(g, u) \in Nat /\ SumFunctionOnSet(f, {}) = 0
    BY <1>4, SumNat, SumEmpty
  <2> QED
    BY <1>3, <2>1
<1>6. PICK x \in s : TRUE
  BY <1>5
<1>7. s \ {x} \in SUBSET S /\ s \ {x} \notin Bad
  BY <1>2, <1>4, <1>6
<1>8. \A v \in SUBSET T : Into(s \ {x}, v) => Fits(s \ {x}, v)
  BY <1>7
<1>9. /\ SumFunctionOnSet(f, s) = f[x] + SumFunctionOnSet(f, s \ {x})
      /\ IsFiniteSet(s \ {x}) /\ Nats(f, s \ {x})
  BY <1>4, <1>6, SumRemove, FS_Subset DEF Nats
<1>10. f[x] \in Nat /\ SumFunctionOnSet(f, s \ {x}) \in Nat
  BY <1>4, <1>6, <1>9, SumNat DEF Nats
<1>11. CASE f[x] = 0
  <2>1. Fits(s \ {x}, u)
    BY <1>3, <1>8
  <2> QED
    BY <1>3, <1>9, <1>10, <1>11, <2>1
<1>12. CASE f[x] # 0
  <2> DEFINE t == p[x]
  <2>1. t \in u /\ f[x] <= g[t]
    BY <1>3, <1>4, <1>6, <1>12
  <2>2. Into(s \ {x}, u \ {t})
    BY <1>3, <1>4, <1>6, <1>12
  <2> HIDE DEF t
  <2>3. u \ {t} \in SUBSET T
    BY <1>3
  <2>4. Fits(s \ {x}, u \ {t})
    BY <1>8, <2>2, <2>3
  <2>5. SumFunctionOnSet(g, u) = g[t] + SumFunctionOnSet(g, u \ {t})
    BY <1>4, <2>1, SumRemove
  <2>6. g[t] \in Nat /\ SumFunctionOnSet(g, u \ {t}) \in Nat
    <3>1. IsFiniteSet(u \ {t}) /\ Nats(g, u \ {t})
      BY <1>4, FS_Subset DEF Nats
    <3> QED
      BY <1>4, <2>1, <3>1, SumNat DEF Nats
  <2> QED
    BY <1>3, <1>9, <1>10, <2>1, <2>4, <2>5, <2>6
<1> QED
  BY <1>11, <1>12

\* No value but the one at x grows.
LEMMA SumBounded ==
  ASSUME NEW f, NEW g, NEW S, IsFiniteSet(S), Ints(f, S), Ints(g, S), NEW x \in S,
         \A y \in S \ {x} : g[y] <= f[y]
  PROVE  SumFunctionOnSet(g, S) <= SumFunctionOnSet(f, S) - f[x] + g[x]
<1>1. PICK h : h = [y \in S |-> IF y = x THEN g[x] ELSE f[y]]
  OBVIOUS
<1>2. Ints(h, S) /\ h[x] = g[x] /\ \A y \in S \ {x} : h[y] = f[y]
  BY <1>1 DEF Ints
<1>3. SumFunctionOnSet(h, S) = SumFunctionOnSet(f, S) - f[x] + h[x]
  BY <1>2, SumChanged
<1>4. \A y \in S : g[y] <= h[y]
  BY <1>2 DEF Ints
<1>5. SumFunctionOnSet(g, S) <= SumFunctionOnSet(h, S)
  BY <1>2, <1>4, SumMonotone
<1> QED
  BY <1>2, <1>3, <1>5

\* The value at x grows by n, the others stay.
LEMMA SumGrows ==
  ASSUME NEW f, NEW g, NEW S, IsFiniteSet(S), Ints(f, S), Ints(g, S), NEW x \in S, NEW n \in Int,
         g[x] = f[x] + n, \A y \in S \ {x} : g[y] = f[y]
  PROVE  SumFunctionOnSet(g, S) = SumFunctionOnSet(f, S) + n
<1>1. SumFunctionOnSet(g, S) = SumFunctionOnSet(f, S) - f[x] + g[x]
  BY SumChanged
<1>2. SumFunctionOnSet(f, S) \in Int /\ f[x] \in Int
  BY SumType DEF Ints
<1> QED
  BY <1>1, <1>2
=============================================================================
