------------------------------- MODULE SetSums --------------------------------
(***************************************************************************)
(* Sums over a finite set, as MapThenSumSet of the community modules adds  *)
(* them up: one element is picked, the others are added.  The provers have *)
(* no induction over operators, so the lemmas speak of functions: h holds  *)
(* the sums of g over the subsets of S.                                    *)
(***************************************************************************)
EXTENDS FiniteSetTheorems, TLAPS

Pick(s) == CHOOSE x \in s : TRUE

Rest(s) == s \ {Pick(s)}

Adds(h, g, S) == h = [s \in SUBSET S |-> IF s = {} THEN 0 ELSE g[Pick(s)] + h[Rest(s)]]

LEMMA PickIsIn == ASSUME NEW s, s # {} PROVE Pick(s) \in s /\ Rest(s) # s /\ Rest(s) \in SUBSET s
BY DEF Pick, Rest

\* What holds of a subset when it holds of all its proper subsets holds of every one.
LEMMA SubsetInduction ==
    ASSUME NEW S, IsFiniteSet(S), NEW B,
           \A T \in SUBSET S : (\A U \in SUBSET T : U # T => U \in B) => T \in B
    PROVE  SUBSET S \subseteq B
<1>. DEFINE R == StrictSubsetOrdering(S)
            D == (SUBSET S) \ B
<1>1. IsWellFoundedOn(R, SUBSET S)
  BY FS_StrictSubsetOrderingWellFounded, FS_FiniteSubsetsOfFinite
<1>. SUFFICES ASSUME D # {} PROVE FALSE
  OBVIOUS
<1>2. \E T \in D : \A U \in D : ~(<<U, T>> \in R)
  <2>1. D \subseteq SUBSET S
    OBVIOUS
  <2>. HIDE DEF R, D
  <2>. QED
    BY <1>1, <2>1, WFMin
<1>3. PICK T \in D : \A U \in D : ~(<<U, T>> \in R)
  BY <1>2
<1>4. ASSUME NEW U \in SUBSET T, U # T PROVE U \in B
  <2>1. U \in SUBSET S /\ T \in SUBSET S
    BY <1>3, <1>4
  <2>2. <<U, T>> \in R
    BY <1>4, <2>1 DEF StrictSubsetOrdering
  <2>. QED
    BY <1>3, <2>1, <2>2
<1>. QED
  BY <1>3, <1>4

\* The sums over the subsets of T, if there are any.
Tabulates(w, g, T) ==
    /\ w \in [SUBSET T -> Nat]
    /\ \A s \in SUBSET T : w[s] = IF s = {} THEN 0 ELSE g[Pick(s)] + w[Rest(s)]

LEMMA TablesAgree ==
    ASSUME NEW T, NEW U, NEW v, NEW w, NEW g, IsFiniteSet(T),
           Tabulates(v, g, T), Tabulates(w, g, U), T \subseteq U
    PROVE  \A s \in SUBSET T : v[s] = w[s]
<1>. DEFINE B == {s \in SUBSET T : v[s] = w[s]}
<1>1. ASSUME NEW s \in SUBSET T, \A u \in SUBSET s : u # s => u \in B
      PROVE  s \in B
  <2>1. v[s] = IF s = {} THEN 0 ELSE g[Pick(s)] + v[Rest(s)]
    BY DEF Tabulates
  <2>2. w[s] = IF s = {} THEN 0 ELSE g[Pick(s)] + w[Rest(s)]
    BY DEF Tabulates
  <2>3. s # {} => v[Rest(s)] = w[Rest(s)]
    BY <1>1, PickIsIn
  <2>. QED
    BY <2>1, <2>2, <2>3
<1>2. SUBSET T \subseteq B
  <2>. HIDE DEF B
  <2>. QED
    BY <1>1, SubsetInduction
<1>. QED
  BY <1>2

\* There are sums over the subsets of a finite set.
LEMMA TableExists ==
    ASSUME NEW S, IsFiniteSet(S), NEW g \in [S -> Nat]
    PROVE  \E w : Tabulates(w, g, S)
<1>. DEFINE B == {T \in SUBSET S : \E w : Tabulates(w, g, T)}
<1>1. ASSUME NEW T \in SUBSET S, \A U \in SUBSET T : U # T => U \in B
      PROVE  T \in B
  <2>. DEFINE H(U) == CHOOSE w : Tabulates(w, g, U)
              Value(s) == IF s = {} THEN 0 ELSE g[Pick(s)] + H(Rest(s))[Rest(s)]
              w == [s \in SUBSET T |-> Value(s)]
  <2>1. ASSUME NEW U \in SUBSET T, U # T PROVE Tabulates(H(U), g, U) /\ IsFiniteSet(U)
    <3>1. \E v : Tabulates(v, g, U)
      BY <1>1, <2>1
    <3>2. Tabulates(H(U), g, U)
      BY <3>1, Zenon
    <3>. QED
      BY <3>2, <2>1, FS_Subset
  <2>. HIDE DEF H
  <2>2. ASSUME NEW s \in SUBSET T, s # {}
        PROVE  /\ Rest(s) \in SUBSET T /\ Rest(s) # T /\ Pick(s) \in S
               /\ Tabulates(H(Rest(s)), g, Rest(s)) /\ IsFiniteSet(Rest(s))
    <3>1. Pick(s) \in s /\ Pick(s) \notin Rest(s) /\ Rest(s) \in SUBSET s
      BY <2>2, PickIsIn DEF Rest
    <3>2. Rest(s) \in SUBSET T /\ Rest(s) # T /\ Pick(s) \in S
      BY <3>1
    <3>. QED
      BY <2>1, <3>2
  <2>3. ASSUME NEW u \in SUBSET T, u # T
        PROVE  H(u)[u] = Value(u)
    <3>1. H(u)[u] = IF u = {} THEN 0 ELSE g[Pick(u)] + H(u)[Rest(u)]
      BY <2>1, <2>3 DEF Tabulates
    <3>2. ASSUME u # {} PROVE H(Rest(u))[Rest(u)] = H(u)[Rest(u)]
      <4>1. Rest(u) \subseteq u /\ Tabulates(H(Rest(u)), g, Rest(u)) /\ IsFiniteSet(Rest(u))
        BY <2>2, <3>2, PickIsIn
      <4>. QED
        BY <2>1, <2>3, <4>1, TablesAgree
    <3>. QED
      BY <3>1, <3>2
  <2>4. ASSUME NEW s \in SUBSET T PROVE Value(s) \in Nat
    <3>1. CASE s # {}
      <4>1. H(Rest(s))[Rest(s)] \in Nat /\ g[Pick(s)] \in Nat
        BY <2>2, <3>1 DEF Tabulates
      <4>. QED
        BY <3>1, <4>1
    <3>. QED
      BY <3>1
  <2>5. ASSUME NEW s \in SUBSET T
        PROVE  Value(s) = IF s = {} THEN 0 ELSE g[Pick(s)] + w[Rest(s)]
    <3>1. CASE s # {}
      <4>1. Rest(s) \in SUBSET T /\ w[Rest(s)] = Value(Rest(s))
        BY <2>2, <3>1
      <4>2. w[Rest(s)] = H(Rest(s))[Rest(s)]
        BY <2>2, <2>3, <3>1, <4>1
      <4>. QED
        BY <3>1, <4>2
    <3>. QED
      BY <3>1
  <2>6. Tabulates(w, g, T)
    <3>1. w \in [SUBSET T -> Nat]
      BY <2>4
    <3>2. \A s \in SUBSET T : w[s] = Value(s)
      OBVIOUS
    <3>. HIDE DEF w, Value
    <3>. QED
      BY <2>5, <3>1, <3>2 DEF Tabulates
  <2>. QED
    BY <2>6
<1>2. SUBSET S \subseteq B
  <2>. HIDE DEF B
  <2>. QED
    BY <1>1, SubsetInduction
<1>. QED
  BY <1>2

\* A fold over a finite set adds up.
LEMMA SumExists ==
    ASSUME NEW S, IsFiniteSet(S), NEW g \in [S -> Nat]
    PROVE  \E h : Adds(h, g, S)
<1>1. PICK w : Tabulates(w, g, S)
  BY TableExists
<1>2. Adds(w, g, S)
  BY <1>1 DEF Tabulates, Adds
<1>. QED
  BY <1>2

\* What folds over a finite set tabulate: the sums of natural numbers.
LEMMA SumIsTable ==
    ASSUME NEW S, IsFiniteSet(S), NEW g \in [S -> Nat], NEW h, Adds(h, g, S)
    PROVE  Tabulates(h, g, S)
<1>. DEFINE B == {s \in SUBSET S : h[s] \in Nat}
<1>1. ASSUME NEW s \in SUBSET S
      PROVE  h[s] = IF s = {} THEN 0 ELSE g[Pick(s)] + h[Rest(s)]
  BY Zenon DEF Adds
<1>2. ASSUME NEW s \in SUBSET S, \A u \in SUBSET s : u # s => u \in B
      PROVE  s \in B
  <2>1. CASE s # {}
    <3>1. Pick(s) \in S /\ Rest(s) \in B
      BY <1>2, <2>1, PickIsIn
    <3>2. g[Pick(s)] \in Nat /\ h[Rest(s)] \in Nat
      BY <3>1
    <3>. QED
      BY <1>1, <2>1, <3>2
  <2>2. CASE s = {}
    <3>1. h[s] = 0
      BY <1>1, <2>2
    <3>. QED
      BY <3>1
  <2>. QED
    BY <2>1, <2>2
<1>3. SUBSET S \subseteq B
  <2>. HIDE DEF B
  <2>. QED
    BY <1>2, SubsetInduction
<1>4. h = [s \in SUBSET S |-> h[s]]
  BY Zenon DEF Adds
<1>. QED
  BY <1>1, <1>3, <1>4 DEF Tabulates

\* Sums of zeros.
LEMMA SumOfZeros ==
    ASSUME NEW S, IsFiniteSet(S), NEW g \in [S -> Nat], NEW h, Tabulates(h, g, S),
           \A q \in S : g[q] = 0
    PROVE  h[S] = 0
<1>. DEFINE B == {s \in SUBSET S : h[s] = 0}
<1>1. ASSUME NEW s \in SUBSET S, \A u \in SUBSET s : u # s => u \in B
      PROVE  s \in B
  <2>1. h[s] = IF s = {} THEN 0 ELSE g[Pick(s)] + h[Rest(s)]
    BY DEF Tabulates
  <2>2. s # {} => g[Pick(s)] = 0 /\ h[Rest(s)] = 0
    BY <1>1, PickIsIn
  <2>. QED
    BY <2>1, <2>2
<1>2. SUBSET S \subseteq B
  <2>. HIDE DEF B
  <2>. QED
    BY <1>1, SubsetInduction
<1>. QED
  BY <1>2

\* A sum changes by what one of its terms changes.
THEOREM SumMoves ==
    ASSUME NEW S, IsFiniteSet(S), NEW f \in [S -> Nat], NEW g \in [S -> Nat], NEW p \in S,
           \A q \in S \ {p} : f[q] = g[q],
           NEW k, Tabulates(k, f, S), NEW h, Tabulates(h, g, S)
    PROVE  k[S] + g[p] = h[S] + f[p]
<1>. DEFINE B == {s \in SUBSET S : IF p \in s THEN k[s] + g[p] = h[s] + f[p] ELSE k[s] = h[s]}
<1>1. ASSUME NEW s \in SUBSET S, \A u \in SUBSET s : u # s => u \in B
      PROVE  s \in B
  <2>1. /\ h[s] = IF s = {} THEN 0 ELSE g[Pick(s)] + h[Rest(s)]
        /\ k[s] = IF s = {} THEN 0 ELSE f[Pick(s)] + k[Rest(s)]
    BY DEF Tabulates
  <2>2. CASE s = {}
    BY <2>1, <2>2
  <2>3. CASE s # {}
    <3>1. Pick(s) \in s /\ Rest(s) \in B /\ Rest(s) = s \ {Pick(s)} /\ Rest(s) \in SUBSET S
      BY <1>1, <2>3, PickIsIn DEF Rest
    <3>2. /\ h[Rest(s)] \in Nat /\ k[Rest(s)] \in Nat /\ f[p] \in Nat /\ g[p] \in Nat
          /\ g[Pick(s)] \in Nat /\ f[Pick(s)] \in Nat
      BY <3>1 DEF Tabulates
    <3>3. CASE Pick(s) = p
      <4>1. p \in s /\ k[Rest(s)] = h[Rest(s)]
        BY <3>1, <3>3
      <4>2. k[s] + g[p] = h[s] + f[p]
        BY <2>1, <2>3, <3>2, <3>3, <4>1
      <4>. QED
        BY <4>1, <4>2
    <3>4. CASE Pick(s) # p
      <4>1. f[Pick(s)] = g[Pick(s)] /\ (p \in s <=> p \in Rest(s))
        BY <3>1, <3>4
      <4>2. IF p \in s THEN k[Rest(s)] + g[p] = h[Rest(s)] + f[p] ELSE k[Rest(s)] = h[Rest(s)]
        BY <3>1, <4>1
      <4>. QED
        BY <2>1, <2>3, <3>2, <4>1, <4>2
    <3>. QED
      BY <3>3, <3>4
  <2>. QED
    BY <2>2, <2>3
<1>2. SUBSET S \subseteq B
  <2>. HIDE DEF B
  <2>. QED
    BY <1>1, SubsetInduction
<1>. QED
  BY <1>2

===============================================================================
