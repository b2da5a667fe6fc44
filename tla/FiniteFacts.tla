------------------------------ MODULE FiniteFacts -----------------------------
(***************************************************************************)
(* Facts about finite sets that the proofs of several components use:      *)
(* induction, as the principle of the smallest counterexample, a largest   *)
(* element, and sums of functions (SumFunctionOnSet of the module          *)
(* Functions), which do not depend on the order of the elements.           *)
(***************************************************************************)
EXTENDS Integers, FiniteSets, Functions, FiniteSetTheorems, TLAPS

\* Induction over finite sets: a family of subsets has a smallest member.
LEMMA SmallestSubset ==
    ASSUME NEW S, IsFiniteSet(S), NEW T \in SUBSET SUBSET S, T # {}
    PROVE  \E x \in T : \A y \in T : y \subseteq x => y = x
<1>1. T \subseteq FiniteSubsetsOf(S)
  BY FS_Subset DEF FiniteSubsetsOf
<1>2. \E x \in T : \A y \in T : <<y, x>> \notin StrictSubsetOrdering(S)
  BY <1>1, FS_StrictSubsetOrderingWellFounded, WFMin
<1> QED BY <1>2 DEF StrictSubsetOrdering

\* Of finitely many things of some depth one is deepest.
LEMMA Deepest ==
    ASSUME NEW S, IsFiniteSet(S), S # {}, NEW f, \A x \in S : f[x] \in Nat
    PROVE  \E x \in S : \A y \in S : f[x] >= f[y]
<1> DEFINE Deep(s) == \E x \in s : \A y \in s : f[x] >= f[y]
           T == {s \in SUBSET S : s # {} /\ ~ Deep(s)}
<1> SUFFICES ASSUME ~ Deep(S) PROVE FALSE
  OBVIOUS
<1>1. T \in SUBSET SUBSET S /\ T # {}
  OBVIOUS
<1>2. PICK x \in T : \A y \in T : y \subseteq x => y = x
  <2> HIDE DEF T
  <2> QED BY <1>1, SmallestSubset
<1>3. PICK e \in x : TRUE
  OBVIOUS
<1>4. ~ \E z \in x : \A y \in x : f[z] >= f[y]
  OBVIOUS
<1>5. x \ {e} # {}
  BY <1>3, <1>4
<1>6. x \ {e} \notin T
  BY <1>2, <1>3
<1>7. PICK z \in x \ {e} : \A y \in x \ {e} : f[z] >= f[y]
  BY <1>5, <1>6
<1>8. f[z] \in Nat /\ f[e] \in Nat /\ \A y \in x : f[y] \in Nat
  BY <1>3, <1>7
<1>9. CASE f[z] >= f[e]
  BY <1>9, <1>4, <1>7
<1>10. CASE f[e] >= f[z]
  <2>1. \A y \in x : f[e] >= f[y]
    BY <1>10, <1>7, <1>8
  <2> QED BY <2>1, <1>3, <1>4
<1> QED BY <1>8, <1>9, <1>10

-----------------------------------------------------------------------------
(* Sums                                                                    *)

Pick(s) == CHOOSE x \in s : TRUE

\* What the sum of f computes on the subsets of S.
Adds(g, f, S) ==
    g = [s \in SUBSET S |-> IF s = {} THEN 0 ELSE f[Pick(s)] + g[s \ {Pick(s)}]]
Adding(f, S) == CHOOSE g : Adds(g, f, S)

\* Pick takes an element.
LEMMA PickIn == ASSUME NEW s, s # {} PROVE Pick(s) \in s
BY DEF Pick

\* The step of the recursive function below the sums.
LEMMA AddsStep ==
    ASSUME NEW f, NEW S, NEW g, Adds(g, f, S), NEW s \in SUBSET S
    PROVE  /\ s = {} => g[s] = 0
           /\ s # {} => g[s] = f[Pick(s)] + g[s \ {Pick(s)}]
<1> DEFINE G(h) == [t \in SUBSET S |-> IF t = {} THEN 0 ELSE f[Pick(t)] + h[t \ {Pick(t)}]]
<1>1. g = G(g)
  BY DEF Adds
<1>2. G(g)[s] = IF s = {} THEN 0 ELSE f[Pick(s)] + g[s \ {Pick(s)}]
  OBVIOUS
<1> HIDE DEF G
<1> QED BY <1>1, <1>2

\* It computes the same on what two sets share.
LEMMA AddsOnce ==
    ASSUME NEW f, NEW S, IsFiniteSet(S), NEW U, NEW g, Adds(g, f, S), NEW h, Adds(h, f, U),
           NEW s \in SUBSET S, s \in SUBSET U
    PROVE  g[s] = h[s]
<1> DEFINE T == {t \in SUBSET S : t \subseteq U /\ g[t] # h[t]}
<1> SUFFICES ASSUME T # {} PROVE FALSE
  OBVIOUS
<1>1. PICK x \in T : \A y \in T : y \subseteq x => y = x
  <2>1. T \in SUBSET SUBSET S
    OBVIOUS
  <2> HIDE DEF T
  <2> QED BY <2>1, SmallestSubset
<1>2. x \in SUBSET S /\ x \in SUBSET U /\ g[x] # h[x]
  OBVIOUS
<1>3. x # {}
  BY <1>2, AddsStep
<1>4. Pick(x) \in x
  BY <1>3, PickIn
<1>5. g[x \ {Pick(x)}] = h[x \ {Pick(x)}]
  BY <1>1, <1>2, <1>4
<1>6. g[x] = f[Pick(x)] + g[x \ {Pick(x)}] /\ h[x] = f[Pick(x)] + h[x \ {Pick(x)}]
  BY <1>2, <1>3, AddsStep
<1> QED BY <1>2, <1>5, <1>6

\* And there is what computes it.
LEMMA AddsExists ==
    ASSUME NEW f, NEW S, IsFiniteSet(S) PROVE Adds(Adding(f, S), f, S)
<1> DEFINE Has(t) == \E g : Adds(g, f, t)
           T == {t \in SUBSET S : ~ Has(t)}
<1> SUFFICES ASSUME T # {} PROVE FALSE
  <2>1. ASSUME T = {} PROVE Has(S)
    BY <2>1
  <2> QED BY <2>1 DEF Adding
<1>1. PICK x \in T : \A y \in T : y \subseteq x => y = x
  <2>1. T \in SUBSET SUBSET S
    OBVIOUS
  <2> HIDE DEF T
  <2> QED BY <2>1, SmallestSubset
<1>2. x \in SUBSET S /\ ~ Has(x)
  OBVIOUS
<1>3. \A t \in SUBSET x : t # x => Adds(Adding(f, t), f, t) /\ IsFiniteSet(t)
  <2> SUFFICES ASSUME NEW t \in SUBSET x, t # x
               PROVE  Adds(Adding(f, t), f, t) /\ IsFiniteSet(t)
    OBVIOUS
  <2>1. t \in SUBSET S /\ t \notin T
    BY <1>1, <1>2
  <2>2. Has(t)
    BY <2>1
  <2> QED BY <2>1, <2>2, FS_Subset DEF Adding
<1> DEFINE last(t) == t \ {Pick(t)}
           sum(t) == Adding(f, t)[t]
           G == [t \in SUBSET x |-> IF t = {} THEN 0 ELSE f[Pick(t)] + sum(last(t))]
<1>4. \A t \in SUBSET x : t # {} => G[last(t)] = sum(last(t))
  <2> SUFFICES ASSUME NEW t \in SUBSET x, t # {} PROVE G[last(t)] = sum(last(t))
    OBVIOUS
  <2>1. Pick(t) \in t /\ last(t) \in SUBSET x /\ last(t) # x
    BY PickIn
  <2> DEFINE r == last(t)
  <2>2. Adds(Adding(f, r), f, r) /\ IsFiniteSet(r)
    <3> HIDE DEF last
    <3> QED BY <1>3, <2>1
  <2>3. G[r] = IF r = {} THEN 0 ELSE f[Pick(r)] + sum(last(r))
    BY <2>1
  <2> SUFFICES G[r] = sum(r)
    OBVIOUS
  <2> HIDE DEF r, G
  <2>4. CASE r = {}
    BY <2>2, <2>3, <2>4, AddsStep
  <2>5. CASE r # {}
    <3>1. Pick(r) \in r /\ last(r) \in SUBSET r /\ last(r) # r
      BY <2>5, PickIn
    <3>2. last(r) \in SUBSET x /\ last(r) # x
      BY <2>1, <3>1 DEF r
    <3>3. Adds(Adding(f, last(r)), f, last(r))
      BY <1>3, <3>2
    <3>4. Adding(f, r)[last(r)] = sum(last(r))
      <4> HIDE DEF last
      <4> QED BY <2>2, <3>1, <3>3, AddsOnce
    <3>5. sum(r) = f[Pick(r)] + Adding(f, r)[last(r)]
      BY <2>2, <2>5, AddsStep
    <3> QED BY <2>3, <2>5, <3>4, <3>5
  <2> QED BY <2>4, <2>5
<1>5. Adds(G, f, x)
  <2>1. \A t \in SUBSET x :
          (IF t = {} THEN 0 ELSE f[Pick(t)] + sum(last(t)))
            = (IF t = {} THEN 0 ELSE f[Pick(t)] + G[last(t)])
    <3> HIDE DEF G, sum, last
    <3> QED BY <1>4
  <2>2. G = [t \in SUBSET x |-> IF t = {} THEN 0 ELSE f[Pick(t)] + G[last(t)]]
    <3> HIDE DEF sum, last
    <3> QED BY <2>1
  <2> HIDE DEF G
  <2> QED BY <2>2 DEF Adds
<1> QED BY <1>2, <1>5

\* SumFunctionOnSet is what that recursive function computes.
LEMMA SumIs == ASSUME NEW f, NEW S PROVE SumFunctionOnSet(f, S) = Adding(f, S)[S]
BY DEF SumFunctionOnSet, FoldFunctionOnSet, MapThenFoldSet, Adding, Adds, Pick

\* The sum over nothing.
LEMMA SumEmpty == ASSUME NEW f PROVE SumFunctionOnSet(f, {}) = 0
<1>1. Adds(Adding(f, {}), f, {})
  BY AddsExists, FS_EmptySet
<1>2. Adding(f, {})[{}] = 0
  BY <1>1, AddsStep
<1> QED BY <1>2, SumIs

\* A sum is the first element picked and the sum of the others.
LEMMA SumPick ==
    ASSUME NEW f, NEW S, IsFiniteSet(S), S # {}
    PROVE  SumFunctionOnSet(f, S) = f[Pick(S)] + SumFunctionOnSet(f, S \ {Pick(S)})
<1> DEFINE r == S \ {Pick(S)}
<1>1. IsFiniteSet(r) /\ r \in SUBSET S
  BY FS_Subset
<1>2. Adds(Adding(f, S), f, S) /\ Adds(Adding(f, r), f, r)
  BY <1>1, AddsExists
<1> HIDE DEF r
<1>3. Adding(f, S)[r] = Adding(f, r)[r]
  BY <1>1, <1>2, AddsOnce
<1>4. Adding(f, S)[S] = f[Pick(S)] + Adding(f, S)[r]
  BY <1>2, AddsStep DEF r
<1> QED BY <1>3, <1>4, SumIs DEF r

\* The sum of integers is one.
LEMMA SumInt ==
    ASSUME NEW f, NEW S, IsFiniteSet(S), \A x \in S : f[x] \in Int
    PROVE  SumFunctionOnSet(f, S) \in Int
<1> DEFINE T == {s \in SUBSET S : SumFunctionOnSet(f, s) \notin Int}
<1> SUFFICES ASSUME T # {} PROVE FALSE
  OBVIOUS
<1>1. PICK s \in T : \A y \in T : y \subseteq s => y = s
  <2>1. T \in SUBSET SUBSET S
    OBVIOUS
  <2> HIDE DEF T
  <2> QED BY <2>1, SmallestSubset
<1>2. s # {} /\ IsFiniteSet(s)
  <2>1. SumFunctionOnSet(f, {}) \in Int
    BY SumEmpty
  <2>2. s \in SUBSET S /\ SumFunctionOnSet(f, s) \notin Int
    OBVIOUS
  <2> HIDE DEF T
  <2> QED BY <2>1, <2>2, FS_Subset
<1>3. Pick(s) \in s
  BY <1>2, PickIn
<1>4. SumFunctionOnSet(f, s \ {Pick(s)}) \in Int
  BY <1>1, <1>3
<1> QED BY <1>2, <1>3, <1>4, SumPick

\* Equal terms, equal sums.
LEMMA SumEqual ==
    ASSUME NEW f, NEW g, NEW S, IsFiniteSet(S), \A x \in S : f[x] = g[x]
    PROVE  SumFunctionOnSet(f, S) = SumFunctionOnSet(g, S)
<1> DEFINE T == {s \in SUBSET S : SumFunctionOnSet(f, s) # SumFunctionOnSet(g, s)}
<1> SUFFICES ASSUME T # {} PROVE FALSE
  OBVIOUS
<1>1. PICK s \in T : \A y \in T : y \subseteq s => y = s
  <2>1. T \in SUBSET SUBSET S
    OBVIOUS
  <2> HIDE DEF T
  <2> QED BY <2>1, SmallestSubset
<1>2. s # {} /\ IsFiniteSet(s)
  <2>1. SumFunctionOnSet(f, {}) = SumFunctionOnSet(g, {})
    BY SumEmpty
  <2>2. s \in SUBSET S /\ SumFunctionOnSet(f, s) # SumFunctionOnSet(g, s)
    OBVIOUS
  <2> HIDE DEF T
  <2> QED BY <2>1, <2>2, FS_Subset
<1>3. Pick(s) \in s
  BY <1>2, PickIn
<1>4. SumFunctionOnSet(f, s \ {Pick(s)}) = SumFunctionOnSet(g, s \ {Pick(s)})
  BY <1>1, <1>3
<1> QED BY <1>2, <1>3, <1>4, SumPick

\* The order of the first two picks does not matter.
LEMMA Swap ==
    ASSUME NEW r \in Int, NEW u \in Int, NEW v \in Int
    PROVE  u + (v + r) = v + (u + r)
OBVIOUS

\* Any element can be taken out first.
LEMMA SumRemove ==
    ASSUME NEW f, NEW S, IsFiniteSet(S), \A x \in S : f[x] \in Int, NEW e \in S
    PROVE  SumFunctionOnSet(f, S) = f[e] + SumFunctionOnSet(f, S \ {e})
<1> DEFINE sum(s) == SumFunctionOnSet(f, s)
           T == {s \in SUBSET S : \E x \in s : sum(s) # f[x] + sum(s \ {x})}
<1> SUFFICES ASSUME T # {} PROVE FALSE
  OBVIOUS
<1>1. PICK s \in T : \A y \in T : y \subseteq s => y = s
  <2>1. T \in SUBSET SUBSET S
    OBVIOUS
  <2> HIDE DEF T
  <2> QED BY <2>1, SmallestSubset
<1>2. PICK x \in s : sum(s) # f[x] + sum(s \ {x})
  OBVIOUS
<1> DEFINE c == Pick(s)
<1>3. c \in s /\ IsFiniteSet(s) /\ sum(s) = f[c] + sum(s \ {c})
  BY <1>2, PickIn, FS_Subset, SumPick
<1> HIDE DEF c
<1>4. x # c
  BY <1>2, <1>3
<1>5. sum(s \ {c}) = f[x] + sum((s \ {c}) \ {x}) /\ sum(s \ {x}) = f[c] + sum((s \ {x}) \ {c})
  BY <1>1, <1>2, <1>3, <1>4
<1>6. (s \ {c}) \ {x} = (s \ {x}) \ {c} /\ IsFiniteSet((s \ {x}) \ {c})
  BY <1>3, FS_Subset
<1>7. f[c] \in Int /\ f[x] \in Int /\ sum((s \ {x}) \ {c}) \in Int
  BY <1>2, <1>3, <1>6, SumInt
<1> HIDE DEF sum
<1>8. f[c] + (f[x] + sum((s \ {x}) \ {c})) = f[x] + (f[c] + sum((s \ {x}) \ {c}))
  BY <1>7, Swap
<1>9. sum(s) = f[x] + sum(s \ {x})
  BY <1>3, <1>5, <1>6, <1>8, Zenon
<1> QED BY <1>2, <1>9

\* The sum over two sets without a common element.
LEMMA SumUnion ==
    ASSUME NEW f, NEW S, IsFiniteSet(S), \A x \in S : f[x] \in Int,
           NEW A \in SUBSET S, NEW B \in SUBSET S, A \cap B = {}
    PROVE  SumFunctionOnSet(f, A \cup B) = SumFunctionOnSet(f, A) + SumFunctionOnSet(f, B)
<1> DEFINE sum(s) == SumFunctionOnSet(f, s)
           T == {s \in SUBSET S : s \cap A = {} /\ sum(A \cup s) # sum(A) + sum(s)}
<1>0. \A s \in SUBSET S : IsFiniteSet(s) /\ sum(s) \in Int
  BY FS_Subset, SumInt
<1> SUFFICES ASSUME T # {} PROVE FALSE
  OBVIOUS
<1>1. PICK s \in T : \A y \in T : y \subseteq s => y = s
  <2>1. T \in SUBSET SUBSET S
    OBVIOUS
  <2> HIDE DEF T
  <2> QED BY <2>1, SmallestSubset
<1>2. s \in SUBSET S /\ s \cap A = {} /\ sum(A \cup s) # sum(A) + sum(s)
  OBVIOUS
<1>3. s # {}
  <2>1. sum({}) = 0 /\ A \cup {} = A
    BY SumEmpty
  <2>2. sum(A) + 0 = sum(A)
    BY <1>0
  <2>3. sum(A \cup {}) = sum(A) + sum({})
    BY <2>1, <2>2
  <2> QED BY <1>2, <2>3
<1>4. PICK x \in s : TRUE
  BY <1>3
<1>5. sum(A \cup (s \ {x})) = sum(A) + sum(s \ {x})
  BY <1>1, <1>2, <1>4
<1>6. sum(s) = f[x] + sum(s \ {x})
  BY <1>0, <1>2, <1>4, SumRemove
<1>7. sum(A \cup s) = f[x] + sum((A \cup s) \ {x}) /\ (A \cup s) \ {x} = A \cup (s \ {x})
  BY <1>0, <1>2, <1>4, SumRemove
<1>8. f[x] \in Int /\ sum(A) \in Int /\ sum(s \ {x}) \in Int
  BY <1>0, <1>2, <1>4
<1> HIDE DEF sum
<1>9. f[x] + (sum(A) + sum(s \ {x})) = sum(A) + (f[x] + sum(s \ {x}))
  BY <1>8, Swap
<1>10. sum(A \cup s) = sum(A) + sum(s)
  BY <1>5, <1>6, <1>7, <1>9, Zenon
<1> QED BY <1>2, <1>10

\* The sum over the values of an injection is that over its arguments.
LEMMA SumImage ==
    ASSUME NEW f, NEW g, NEW S, IsFiniteSet(S), NEW b, IsFiniteSet({b[x] : x \in S}),
           \A x, y \in S : b[x] = b[y] => x = y,
           \A x \in S : f[x] \in Int /\ g[b[x]] = f[x]
    PROVE  SumFunctionOnSet(g, {b[x] : x \in S}) = SumFunctionOnSet(f, S)
<1> DEFINE img(s) == {b[x] : x \in s}
           T == {s \in SUBSET S : SumFunctionOnSet(g, img(s)) # SumFunctionOnSet(f, s)}
<1> SUFFICES ASSUME T # {} PROVE FALSE
  OBVIOUS
<1>1. PICK s \in T : \A y \in T : y \subseteq s => y = s
  <2>1. T \in SUBSET SUBSET S
    OBVIOUS
  <2> HIDE DEF T
  <2> QED BY <2>1, SmallestSubset
<1>2. s \in SUBSET S /\ SumFunctionOnSet(g, img(s)) # SumFunctionOnSet(f, s)
  OBVIOUS
<1>3. s # {}
  <2>1. img({}) = {}
    OBVIOUS
  <2>2. SumFunctionOnSet(g, img({})) = SumFunctionOnSet(f, {})
    BY <2>1, SumEmpty
  <2> QED BY <1>2, <2>2
<1>4. PICK x \in s : TRUE
  BY <1>3
<1>5. SumFunctionOnSet(g, img(s \ {x})) = SumFunctionOnSet(f, s \ {x})
  BY <1>1, <1>2, <1>4
<1>6. img(s \ {x}) = img(s) \ {b[x]} /\ b[x] \in img(s)
  BY <1>2, <1>4
<1>7. IsFiniteSet(s) /\ IsFiniteSet(img(s)) /\ \A y \in img(s) : g[y] \in Int
  <2>1. IsFiniteSet(s)
    BY <1>2, FS_Subset
  <2>2. img(s) \in SUBSET img(S) /\ \A y \in img(s) : g[y] \in Int
    BY <1>2
  <2>3. IsFiniteSet(img(S))
    OBVIOUS
  <2> HIDE DEF img
  <2> QED BY <2>1, <2>2, <2>3, FS_Subset
<1>8. SumFunctionOnSet(f, s) = f[x] + SumFunctionOnSet(f, s \ {x})
  BY <1>2, <1>4, <1>7, SumRemove
<1> HIDE DEF img
<1>9. SumFunctionOnSet(g, img(s)) = g[b[x]] + SumFunctionOnSet(g, img(s) \ {b[x]})
  BY <1>6, <1>7, SumRemove
<1> QED BY <1>2, <1>4, <1>5, <1>6, <1>8, <1>9
===============================================================================
