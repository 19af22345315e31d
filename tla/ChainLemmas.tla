---------------------------- MODULE ChainLemmas ----------------------------
(***************************************************************************)
(* What several proofs rest on: sequences that grow by one element, the    *)
(* least member of a set of numbers, functions that are iterated, and      *)
(* chains of receipts.  The chain of a receipt is a recursive function;    *)
(* what is said of every place of it is proved by looking at the least     *)
(* place where it fails.                                                   *)
(***************************************************************************)
EXTENDS HashChain, Integers, WellFoundedInduction, TLAPS

\* What appending one element does to a sequence.
LEMMA Appended ==
    ASSUME NEW S, NEW s \in Seq(S), NEW e \in S
    PROVE  /\ Append(s, e) \in Seq(S)
           /\ Len(Append(s, e)) = Len(s) + 1
           /\ DOMAIN Append(s, e) = 1 .. (Len(s) + 1)
           /\ \A i \in DOMAIN s : Append(s, e)[i] = s[i]
           /\ Append(s, e)[Len(s) + 1] = e
  OBVIOUS

\* A set of numbers that is not empty has a least member: what induction rests
\* on where its hypothesis is a set.
LEMMA LeastMember ==
    ASSUME NEW S, S \subseteq Nat, S # {}
    PROVE  \E m \in S : \A k \in S : m <= k
  <1> DEFINE Less == OpToRel(<, Nat)
  <1>1. PICK m \in S : \A k \in S : <<k, m>> \notin Less
    <2>1. IsWellFoundedOn(Less, Nat)
      BY NatLessThanWellFounded
    <2> HIDE DEF Less
    <2> QED
      BY <2>1, WFMin
  <1>2. \A k \in Nat : k < m => <<k, m>> \in Less
    BY DEF OpToRel
  <1> HIDE DEF Less
  <1>3. ASSUME NEW k \in S PROVE m <= k
    <2>1. k \in Nat /\ m \in Nat /\ ~ (k < m)
      BY <1>1, <1>2
    <2> QED
      BY <2>1
  <1> QED
    BY <1>3

\* Induction up to l, over a set of numbers.
LEMMA Induction ==
    ASSUME NEW A, NEW l \in Nat, 0 \in A, \A n \in 0 .. l - 1 : n \in A => n + 1 \in A
    PROVE  \A n \in 0 .. l : n \in A
  <1> DEFINE Bad == {n \in 0 .. l : n \notin A}
  <1>1. SUFFICES ASSUME Bad # {} PROVE FALSE
    OBVIOUS
  <1>2. PICK m \in Bad : \A k \in Bad : m <= k
    <2>1. Bad \subseteq Nat
      OBVIOUS
    <2> HIDE DEF Bad
    <2> QED
      BY <1>1, <2>1, LeastMember
  <1>3. m \in 0 .. l /\ m \notin A /\ m # 0
    BY <1>2
  <1>4. m - 1 \in 0 .. l - 1 /\ m - 1 \notin Bad
    BY <1>2, <1>3
  <1>5. m - 1 \in A
    BY <1>4
  <1>6. m - 1 + 1 \in A
    BY <1>4, <1>5
  <1> QED
    BY <1>3, <1>6

\* What a step from values to values defines, place by place, exists.
LEMMA Iterated ==
    ASSUME NEW S, NEW first \in S, NEW l \in Nat, NEW step \in [1 .. l -> [S -> S]]
    PROVE  \E f \in [0 .. l -> S] :
              f[0] = first /\ \A n \in 1 .. l : f[n] = step[n][f[n - 1]]
  <1> DEFINE IsUpTo(f, m) == /\ f \in [0 .. m -> S] /\ f[0] = first
                             /\ \A n \in 1 .. m : f[n] = step[n][f[n - 1]]
             A == {m \in 0 .. l : \E f : IsUpTo(f, m)}
  <1>1. 0 \in A
    <2> DEFINE g == [n \in 0 .. 0 |-> first]
    <2>1. IsUpTo(g, 0)
      OBVIOUS
    <2>2. \E f : IsUpTo(f, 0)
      BY <2>1
    <2> HIDE DEF IsUpTo
    <2> QED
      BY <2>2
  <1>2. ASSUME NEW m \in 0 .. l - 1, m \in A PROVE m + 1 \in A
    <2>1. PICK f : IsUpTo(f, m)
      BY <1>2
    <2> DEFINE g == [n \in 0 .. m + 1 |-> IF n = m + 1 THEN step[m + 1][f[m]] ELSE f[n]]
    <2>2. step[m + 1] \in [S -> S] /\ f[m] \in S
      BY <2>1
    <2>3. g \in [0 .. m + 1 -> S]
      BY <2>1, <2>2
    <2>4. g[0] = first
      BY <2>1
    <2>5. ASSUME NEW n \in 1 .. m + 1 PROVE g[n] = step[n][g[n - 1]]
      <3>1. CASE n = m + 1
        BY <3>1
      <3>2. CASE n \in 1 .. m
        BY <2>1, <3>2
      <3> QED
        BY <3>1, <3>2
    <2> HIDE DEF g
    <2>6. IsUpTo(g, m + 1)
      BY <2>3, <2>4, <2>5
    <2>7. \E h : IsUpTo(h, m + 1)
      BY <2>6
    <2> HIDE DEF IsUpTo
    <2> QED
      BY <2>7
  <1> HIDE DEF A
  <1>3. \A n \in 0 .. l : n \in A
    BY <1>1, <1>2, Induction
  <1>4. l \in A
    BY <1>3
  <1>5. PICK f : IsUpTo(f, l)
    BY <1>4 DEF A
  <1> QED
    BY <1>5

-----------------------------------------------------------------------------
(* Chains of receipts.                                                     *)

\* f is what ChainOf defines, up to place m.
IsChain(f, s, m) ==
    f = [n \in 0 .. m |-> IF n = 0 THEN {} ELSE {n} \union f[s[n].prev]]

\* Such a function exists for linked receipts: it is extended place by place.
LEMMA ChainExists ==
    ASSUME NEW s, NEW l \in Nat, \A n \in 1 .. l : s[n].prev \in 0 .. n - 1
    PROVE  \E f : IsChain(f, s, l)
  <1> DEFINE Reached(m) == \E f : IsChain(f, s, m)
             Bad == {m \in Nat : m <= l /\ ~ Reached(m)}
  <1>1. SUFFICES ASSUME Bad # {} PROVE FALSE
    <2> HIDE DEF Reached
    <2>1. Reached(l)
      OBVIOUS
    <2> QED
      BY <2>1 DEF Reached
  <1>2. PICK m \in Bad : \A k \in Bad : m <= k
    <2>1. Bad \subseteq Nat
      OBVIOUS
    <2> HIDE DEF Bad
    <2> QED
      BY <1>1, <2>1, LeastMember
  <1>3. m \in Nat /\ m <= l /\ ~ Reached(m)
    BY <1>2
  <1>4. m # 0
    <2> DEFINE g == [n \in 0 .. 0 |-> {}]
    <2>1. IsChain(g, s, 0)
      BY DEF IsChain
    <2> QED
      BY <1>3, <2>1
  <1>5. PICK f : IsChain(f, s, m - 1)
    <2>1. m - 1 \in Nat /\ m - 1 <= l /\ m - 1 \notin Bad
      BY <1>2, <1>3, <1>4
    <2> QED
      BY <2>1
  <1> DEFINE g == [n \in 0 .. m |-> IF n = m THEN {m} \union f[s[m].prev] ELSE f[n]]
  <1>6. ASSUME NEW n \in 0 .. m
        PROVE  g[n] = IF n = 0 THEN {} ELSE {n} \union g[s[n].prev]
    <2>1. m \in Nat \ {0} /\ m <= l
      BY <1>3, <1>4
    <2>2. \A k \in 0 .. m - 1 : f[k] = IF k = 0 THEN {} ELSE {k} \union f[s[k].prev]
      BY <1>5, <2>1 DEF IsChain
    <2>3. CASE n = m
      BY <2>1, <2>3
    <2>4. CASE n \in 0 .. m - 1
      <3>1. g[n] = f[n] /\ f[n] = IF n = 0 THEN {} ELSE {n} \union f[s[n].prev]
        BY <2>1, <2>2, <2>4
      <3>2. n # 0 => g[s[n].prev] = f[s[n].prev]
        BY <2>1, <2>4
      <3> HIDE DEF g
      <3> QED
        BY <3>1, <3>2
    <2> QED
      BY <2>1, <2>3, <2>4
  <1>7. g = [n \in 0 .. m |-> g[n]]
    OBVIOUS
  <1> HIDE DEF g
  <1>8. IsChain(g, s, m)
    BY <1>6, <1>7 DEF IsChain
  <1> QED
    BY <1>3, <1>8

\* The chain of a receipt is itself and the chain of the receipt it links to.
LEMMA ChainUnfolds ==
    ASSUME NEW s, Len(s) \in Nat, DOMAIN s = 1 .. Len(s), Linked(s)
    PROVE  /\ ChainOf(s)[0] = {}
           /\ \A n \in DOMAIN s : ChainOf(s)[n] = {n} \union ChainOf(s)[s[n].prev]
  <1>1. \E f : IsChain(f, s, Len(s))
    BY ChainExists DEF Linked
  <1>2. ChainOf(s) = CHOOSE f : IsChain(f, s, Len(s))
    BY DEF ChainOf, IsChain
  <1>3. PICK f : f = ChainOf(s) /\ IsChain(f, s, Len(s))
    BY <1>1, <1>2
  <1>4. \A n \in 0 .. Len(s) : f[n] = IF n = 0 THEN {} ELSE {n} \union f[s[n].prev]
    BY <1>3, Zenon DEF IsChain
  <1>5. f[0] = {}
    <2>1. 0 \in 0 .. Len(s)
      OBVIOUS
    <2> QED
      BY <1>4, <2>1, Zenon
  <1>6. ASSUME NEW n \in DOMAIN s PROVE f[n] = {n} \union f[s[n].prev]
    <2>1. n \in 0 .. Len(s) /\ n # 0
      OBVIOUS
    <2> QED
      BY <1>4, <2>1, Zenon
  <1> QED
    BY <1>3, <1>5, <1>6

\* Receipts that are created later leave the chains of those before alone.
LEMMA ChainsStay ==
    ASSUME NEW s, Len(s) \in Nat, DOMAIN s = 1 .. Len(s), Linked(s),
           NEW t, Len(t) \in Nat, DOMAIN t = 1 .. Len(t), Linked(t),
           Len(s) <= Len(t), \A n \in DOMAIN s : t[n].prev = s[n].prev
    PROVE  \A n \in 0 .. Len(s) : ChainOf(t)[n] = ChainOf(s)[n]
  <1> DEFINE Bad == {m \in Nat : m <= Len(s) /\ ChainOf(t)[m] # ChainOf(s)[m]}
  <1>1. SUFFICES ASSUME Bad # {} PROVE FALSE
    OBVIOUS
  <1>2. PICK m \in Bad : \A k \in Bad : m <= k
    <2>1. Bad \subseteq Nat
      OBVIOUS
    <2> HIDE DEF Bad
    <2> QED
      BY <1>1, <2>1, LeastMember
  <1>3. m \in DOMAIN s /\ m \in DOMAIN t /\ ChainOf(t)[m] # ChainOf(s)[m]
    <2>1. m \in Nat /\ m <= Len(s) /\ ChainOf(t)[m] # ChainOf(s)[m]
      BY <1>2
    <2>2. ChainOf(t)[0] = ChainOf(s)[0]
      BY ChainUnfolds
    <2>3. m # 0
      BY <2>1, <2>2
    <2> QED
      BY <2>1, <2>3
  <1>4. /\ ChainOf(s)[m] = {m} \union ChainOf(s)[s[m].prev]
        /\ ChainOf(t)[m] = {m} \union ChainOf(t)[s[m].prev]
    BY <1>3, ChainUnfolds
  <1>5. s[m].prev \in 0 .. m - 1
    BY <1>3 DEF Linked
  <1>6. ChainOf(t)[s[m].prev] = ChainOf(s)[s[m].prev]
    <2>1. s[m].prev \in Nat /\ s[m].prev <= Len(s) /\ s[m].prev \notin Bad
      BY <1>2, <1>3, <1>5
    <2> QED
      BY <2>1
  <1> QED
    BY <1>3, <1>4, <1>6

\* A chain holds receipts, and the chain of each of them.
LEMMA ChainsNest ==
    ASSUME NEW s, Len(s) \in Nat, DOMAIN s = 1 .. Len(s), Linked(s)
    PROVE  \A n \in 0 .. Len(s) : /\ ChainOf(s)[n] \subseteq 1 .. n
                                  /\ \A m \in ChainOf(s)[n] : ChainOf(s)[m] \subseteq ChainOf(s)[n]
  <1> DEFINE Nests(n) == /\ ChainOf(s)[n] \subseteq 1 .. n
                         /\ \A m \in ChainOf(s)[n] : ChainOf(s)[m] \subseteq ChainOf(s)[n]
             Bad == {n \in Nat : n <= Len(s) /\ ~ Nests(n)}
  <1>1. SUFFICES ASSUME Bad # {} PROVE FALSE
    <2> HIDE DEF Nests
    <2>1. \A n \in 0 .. Len(s) : Nests(n)
      OBVIOUS
    <2> QED
      BY <2>1 DEF Nests
  <1>2. PICK m \in Bad : \A k \in Bad : m <= k
    <2>1. Bad \subseteq Nat
      OBVIOUS
    <2> HIDE DEF Bad
    <2> QED
      BY <1>1, <2>1, LeastMember
  <1>3. m \in DOMAIN s /\ ~ Nests(m)
    BY <1>2, ChainUnfolds
  <1>4. ChainOf(s)[m] = {m} \union ChainOf(s)[s[m].prev]
    BY <1>3, ChainUnfolds
  <1>5. s[m].prev \in 0 .. m - 1
    BY <1>3 DEF Linked
  <1>6. Nests(s[m].prev)
    <2>1. s[m].prev \in Nat /\ s[m].prev <= Len(s) /\ s[m].prev \notin Bad
      BY <1>2, <1>3, <1>5
    <2> HIDE DEF Nests
    <2> QED
      BY <2>1
  <1> QED
    BY <1>3, <1>4, <1>5, <1>6

\* A chain has no branches: of two receipts on it, one is behind the other.
LEMMA ChainsAreLines ==
    ASSUME NEW s, Len(s) \in Nat, DOMAIN s = 1 .. Len(s), Linked(s)
    PROVE  \A n \in 0 .. Len(s) : \A i, j \in ChainOf(s)[n] :
               i \in ChainOf(s)[j] \/ j \in ChainOf(s)[i]
  <1> DEFINE Line(n) == \A i, j \in ChainOf(s)[n] : i \in ChainOf(s)[j] \/ j \in ChainOf(s)[i]
             Bad == {n \in Nat : n <= Len(s) /\ ~ Line(n)}
  <1>1. SUFFICES ASSUME Bad # {} PROVE FALSE
    <2> HIDE DEF Line
    <2>1. \A n \in 0 .. Len(s) : Line(n)
      OBVIOUS
    <2> QED
      BY <2>1 DEF Line
  <1>2. PICK m \in Bad : \A k \in Bad : m <= k
    <2>1. Bad \subseteq Nat
      OBVIOUS
    <2> HIDE DEF Bad
    <2> QED
      BY <1>1, <2>1, LeastMember
  <1>3. m \in DOMAIN s /\ ~ Line(m)
    BY <1>2, ChainUnfolds
  <1>4. ChainOf(s)[m] = {m} \union ChainOf(s)[s[m].prev]
    BY <1>3, ChainUnfolds
  <1>5. s[m].prev \in 0 .. m - 1
    BY <1>3 DEF Linked
  <1>6. Line(s[m].prev)
    <2>1. s[m].prev \in Nat /\ s[m].prev <= Len(s) /\ s[m].prev \notin Bad
      BY <1>2, <1>3, <1>5
    <2> HIDE DEF Line
    <2> QED
      BY <2>1
  <1> QED
    BY <1>3, <1>4, <1>6

\* t is s and one more element.
Extended(s, t, e) ==
    /\ Len(s) \in Nat /\ Len(t) = Len(s) + 1
    /\ DOMAIN s = 1 .. Len(s) /\ DOMAIN t = 1 .. Len(t)
    /\ \A i \in DOMAIN s : t[i] = s[i]
    /\ t[Len(t)] = e

\* A receipt that links to one there is leaves the chains alone and extends the
\* one it links to.
LEMMA ChainExtends ==
    ASSUME NEW s, NEW t, NEW e, Linked(s), e.prev \in 0 .. Len(s), Extended(s, t, e)
    PROVE  /\ Linked(t)
           /\ \A k \in 0 .. Len(s) : ChainOf(t)[k] = ChainOf(s)[k]
           /\ ChainOf(t)[Len(t)] = {Len(t)} \union ChainOf(s)[e.prev]
  <1>1. Linked(t)
    BY DEF Extended, Linked
  <1>2. \A k \in 0 .. Len(s) : ChainOf(t)[k] = ChainOf(s)[k]
    BY <1>1, ChainsStay DEF Extended
  <1>3. ChainOf(t)[Len(t)] = {Len(t)} \union ChainOf(t)[e.prev]
    BY <1>1, ChainUnfolds DEF Extended
  <1> QED
    BY <1>1, <1>2, <1>3

=============================================================================
