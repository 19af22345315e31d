--------------------------- MODULE PromotionProofs ---------------------------
(***************************************************************************)
(* The capability gate, the editing of registries and their promotion, for *)
(* any grants, requests, protected names, evidence and baseline.           *)
(***************************************************************************)
EXTENDS Promotion, ChainLemmas, SequenceTheorems, FiniteSetTheorems

-----------------------------------------------------------------------------
(* Lists.                                                                  *)

\* f is what Sublist defines, up to place m.
IsKept(f, s, places, m) ==
    f = [n \in 0 .. m |-> IF n = 0 THEN << >>
                          ELSE IF n \in places THEN Append(f[n - 1], s[n])
                          ELSE f[n - 1]]

\* Such a function exists: it is extended place by place.
LEMMA KeptExists ==
    ASSUME NEW s, NEW places, NEW l \in Nat PROVE \E f : IsKept(f, s, places, l)
  <1> DEFINE Reached(m) == \E f : IsKept(f, s, places, m)
             Bad == {m \in Nat : ~ Reached(m)}
  <1>1. SUFFICES ASSUME Bad # {} PROVE FALSE
    <2> HIDE DEF Reached
    <2>1. Reached(l)
      OBVIOUS
    <2> QED
      BY <2>1 DEF Reached
  <1>2. PICK m \in Bad : \A k \in Bad : m <= k
    <2>1. Bad \subseteq Nat
      OBVIOUS
    <2> HIDE DEF Bad
    <2> QED
      BY <1>1, <2>1, LeastMember
  <1>3. m \in Nat /\ ~ Reached(m)
    BY <1>2
  <1>4. m # 0
    <2> DEFINE g == [n \in 0 .. 0 |-> << >>]
    <2>1. IsKept(g, s, places, 0)
      BY DEF IsKept
    <2> QED
      BY <1>3, <2>1
  <1>5. PICK f : IsKept(f, s, places, m - 1)
    <2>1. m - 1 \in Nat /\ m - 1 \notin Bad
      BY <1>2, <1>3, <1>4
    <2> QED
      BY <2>1
  <1> DEFINE next == IF m \in places THEN Append(f[m - 1], s[m]) ELSE f[m - 1]
             g == [n \in 0 .. m |-> IF n = m THEN next ELSE f[n]]
  <1>6. ASSUME NEW n \in 0 .. m
        PROVE  g[n] = IF n = 0 THEN << >>
                      ELSE IF n \in places THEN Append(g[n - 1], s[n]) ELSE g[n - 1]
    <2>1. m \in Nat \ {0}
      BY <1>3, <1>4
    <2>2. \A k \in 0 .. m - 1 : f[k] = IF k = 0 THEN << >>
                                       ELSE IF k \in places THEN Append(f[k - 1], s[k])
                                       ELSE f[k - 1]
      BY <1>5, <2>1 DEF IsKept
    <2>3. n # 0 => g[n - 1] = f[n - 1]
      BY <2>1
    <2>4. g[n] = IF n = m THEN next ELSE f[n]
      OBVIOUS
    <2> HIDE DEF g
    <2>5. CASE n = m
      BY <2>1, <2>3, <2>4, <2>5
    <2>6. CASE n \in 0 .. m - 1
      BY <2>1, <2>2, <2>3, <2>4, <2>6
    <2> QED
      BY <2>1, <2>5, <2>6
  <1>7. g = [n \in 0 .. m |-> g[n]]
    OBVIOUS
  <1> HIDE DEF g
  <1>8. IsKept(g, s, places, m)
    BY <1>6, <1>7 DEF IsKept
  <1> QED
    BY <1>3, <1>8

\* What is kept of a list are the elements at the places kept, and no others.
LEMMA SublistKeeps ==
    ASSUME NEW S, NEW s \in Seq(S), NEW places, places \subseteq DOMAIN s
    PROVE  /\ Sublist(s, places) \in Seq(S)
           /\ \A k \in DOMAIN Sublist(s, places) : \E i \in places : Sublist(s, places)[k] = s[i]
           /\ \A i \in places : \E k \in DOMAIN Sublist(s, places) : Sublist(s, places)[k] = s[i]
  <1>1. Len(s) \in Nat /\ DOMAIN s = 1 .. Len(s) /\ \A n \in DOMAIN s : s[n] \in S
    OBVIOUS
  <1>2. \E f : IsKept(f, s, places, Len(s))
    BY <1>1, KeptExists
  <1>3. Sublist(s, places) = (CHOOSE f : IsKept(f, s, places, Len(s)))[Len(s)]
    BY DEF Sublist, IsKept
  <1>4. PICK f : Sublist(s, places) = f[Len(s)] /\ IsKept(f, s, places, Len(s))
    BY <1>2, <1>3
  <1>5. \A n \in 0 .. Len(s) : f[n] = IF n = 0 THEN << >>
                                      ELSE IF n \in places THEN Append(f[n - 1], s[n])
                                      ELSE f[n - 1]
    BY <1>4, Zenon DEF IsKept
  <1> DEFINE Keeps(n) ==
               /\ f[n] \in Seq(S)
               /\ \A k \in DOMAIN f[n] : \E i \in places : f[n][k] = s[i]
               /\ \A i \in places : i <= n => \E k \in DOMAIN f[n] : f[n][k] = s[i]
             Bad == {n \in Nat : n <= Len(s) /\ ~ Keeps(n)}
  <1>6. ASSUME Bad # {} PROVE FALSE
    <2>1. PICK m \in Bad : \A k \in Bad : m <= k
      <3>1. Bad \subseteq Nat
        OBVIOUS
      <3> HIDE DEF Bad
      <3> QED
        BY <1>6, <3>1, LeastMember
    <2>2. m \in Nat /\ m <= Len(s) /\ ~ Keeps(m)
      BY <2>1
    <2>3. Keeps(0)
      <3>1. f[0] = << >>
        BY <1>1, <1>5
      <3> QED
        BY <1>1, <3>1, EmptySeq
    <2>4. m # 0
      BY <2>2, <2>3
    <2>5. Keeps(m - 1)
      <3>1. m - 1 \in Nat /\ m - 1 <= Len(s) /\ m - 1 \notin Bad
        BY <1>1, <2>1, <2>2, <2>4
      <3> HIDE DEF Keeps
      <3> QED
        BY <3>1
    <2>6. m \in 1 .. Len(s) /\ s[m] \in S
      BY <1>1, <2>2, <2>4
    <2>7. CASE m \in places
      <3>1. f[m] = Append(f[m - 1], s[m])
        <4>1. m \in 0 .. Len(s)
          BY <1>1, <2>6
        <4> QED
          BY <1>5, <2>4, <2>7, <4>1, Zenon
      <3>2. /\ f[m] \in Seq(S)
            /\ DOMAIN f[m - 1] = 1 .. Len(f[m - 1]) /\ Len(f[m - 1]) \in Nat
            /\ DOMAIN f[m] = 1 .. (Len(f[m - 1]) + 1)
            /\ \A k \in DOMAIN f[m - 1] : f[m][k] = f[m - 1][k]
            /\ f[m][Len(f[m - 1]) + 1] = s[m]
        BY <2>5, <2>6, <3>1, Appended
      <3>3. \A k \in DOMAIN f[m] : k \in DOMAIN f[m - 1] \/ k = Len(f[m - 1]) + 1
        BY <3>2
      <3>4. \A k \in DOMAIN f[m] : \E i \in places : f[m][k] = s[i]
        BY <2>5, <2>7, <3>2, <3>3
      <3>5. \A i \in places : i <= m => i <= m - 1 \/ i = m
        BY <1>1, <2>6
      <3>6. \A i \in places : i <= m => \E k \in DOMAIN f[m] : f[m][k] = s[i]
        <4>1. DOMAIN f[m - 1] \subseteq DOMAIN f[m] /\ Len(f[m - 1]) + 1 \in DOMAIN f[m]
          BY <3>2
        <4> QED
          BY <2>5, <3>2, <3>5, <4>1
      <3> QED
        BY <2>2, <3>2, <3>4, <3>6
    <2>8. CASE m \notin places
      <3>1. f[m] = f[m - 1]
        BY <1>5, <2>6, <2>8
      <3>2. \A i \in places : i <= m => i <= m - 1
        BY <1>1, <2>6, <2>8
      <3> QED
        BY <2>2, <2>5, <3>1, <3>2
    <2> QED
      BY <2>7, <2>8
  <1>7. Keeps(Len(s))
    <2> HIDE DEF Keeps
    <2> QED
      BY <1>1, <1>6
  <1>8. \A i \in places : i <= Len(s)
    BY <1>1
  <1> QED
    BY <1>4, <1>7, <1>8


-----------------------------------------------------------------------------
(* The gate.                                                               *)

\* The grants of a registry, and those that match a request with one effect.
Carried(reg) == {reg.grants[i] : i \in DOMAIN reg.grants}
Touching(r, reg, effect) == {g \in Carried(reg) : Matches(g, r) /\ g.effect = effect}

\* Their ids, and the ids of a list.
Named(r, reg, effect) == {g.id : g \in Touching(r, reg, effect)}
IdsIn(ids) == {ids[k] : k \in DOMAIN ids}

\* What a comprehension lists are the ids of those grants.
LEMMA MatchedAreTouching ==
    ASSUME NEW S, NEW reg, reg.grants \in Seq(S), NEW r, NEW effect,
           NEW ids, ids = MatchedIds(r, reg, effect)
    PROVE  /\ IdsIn(ids) = Named(r, reg, effect)
           /\ ids = << >> <=> Touching(r, reg, effect) = {}
  <1> DEFINE places == {i \in DOMAIN reg.grants : /\ Matches(reg.grants[i], r)
                                                  /\ reg.grants[i].effect = effect}
  <1>1. PICK matches : matches = Sublist(reg.grants, places)
    OBVIOUS
  <1>2. /\ matches \in Seq(S)
        /\ \A k \in DOMAIN matches : \E i \in places : matches[k] = reg.grants[i]
        /\ \A i \in places : \E k \in DOMAIN matches : matches[k] = reg.grants[i]
    <2>1. places \subseteq DOMAIN reg.grants
      OBVIOUS
    <2> HIDE DEF places
    <2> QED
      BY <1>1, <2>1, SublistKeeps
  <1>3. MatchedIds(r, reg, effect) = [k \in DOMAIN matches |-> matches[k].id]
    BY <1>1 DEF MatchedIds
  <1>4. \A k \in DOMAIN matches : matches[k] \in Touching(r, reg, effect)
    BY <1>2 DEF Touching, Carried
  <1>5. \A g \in Touching(r, reg, effect) : \E k \in DOMAIN matches : matches[k] = g
    BY <1>2 DEF Touching, Carried
  <1>7. DOMAIN ids = DOMAIN matches /\ \A k \in DOMAIN ids : ids[k] = matches[k].id
    BY <1>3
  <1>8. IdsIn(ids) = Named(r, reg, effect)
    BY <1>4, <1>5, <1>7 DEF IdsIn, Named
  <1>9. DOMAIN ids = {} <=> Touching(r, reg, effect) = {}
    BY <1>4, <1>5, <1>7
  <1>10. ids = << >> <=> DOMAIN ids = {}
    <2>1. Len(matches) \in Nat /\ DOMAIN matches = 1 .. Len(matches)
      BY <1>2
    <2>2. ids = [k \in 1 .. Len(matches) |-> matches[k].id]
      BY <1>3, <2>1
    <2>3. ids \in Seq({matches[k].id : k \in DOMAIN matches})
      BY <2>1, <2>2
    <2> QED
      BY <2>3, EmptySeq
  <1> QED
    BY <1>8, <1>9, <1>10

\* The verdict, read off the grants that match, whatever their order; and the
\* grants a decision names are those of its verdict.
LEMMA VerdictReads ==
    ASSUME NEW S, NEW reg, reg.grants \in Seq(S), NEW r, NEW d, d = Evaluate(r, reg)
    PROVE  /\ d.verdict = IF \/ r.capability \in Protected
                             \/ Touching(r, reg, "DENY") # {} THEN "DENY"
                          ELSE IF Touching(r, reg, "REVIEW") # {} THEN "REVIEW"
                          ELSE IF Touching(r, reg, "ALLOW") # {} THEN "ALLOW"
                          ELSE "DENY"
           /\ IdsIn(d.matched_grant_ids) =
                 IF r.capability \in Protected THEN {} ELSE Named(r, reg, d.verdict)
           /\ d.matched_grant_ids # << >> => r.capability \notin Protected
  <1>1. PICK deny, review, allow : /\ deny = MatchedIds(r, reg, "DENY")
                                   /\ review = MatchedIds(r, reg, "REVIEW")
                                   /\ allow = MatchedIds(r, reg, "ALLOW")
    OBVIOUS
  <1>2. /\ IdsIn(deny) = Named(r, reg, "DENY")
        /\ deny = << >> <=> Touching(r, reg, "DENY") = {}
    BY <1>1, MatchedAreTouching
  <1>3. /\ IdsIn(review) = Named(r, reg, "REVIEW")
        /\ review = << >> <=> Touching(r, reg, "REVIEW") = {}
    BY <1>1, MatchedAreTouching
  <1>4. /\ IdsIn(allow) = Named(r, reg, "ALLOW")
        /\ allow = << >> <=> Touching(r, reg, "ALLOW") = {}
    BY <1>1, MatchedAreTouching
  <1>5. d = IF r.capability \in Protected THEN GateDecision("DENY", << >>)
            ELSE IF deny # << >> THEN GateDecision("DENY", deny)
            ELSE IF review # << >> THEN GateDecision("REVIEW", review)
            ELSE IF allow # << >> THEN GateDecision("ALLOW", allow)
            ELSE GateDecision("DENY", << >>)
    BY <1>1 DEF Evaluate
  <1>6. \A verdict, ids : /\ GateDecision(verdict, ids).verdict = verdict
                          /\ GateDecision(verdict, ids).matched_grant_ids = ids
    BY DEF GateDecision
  <1>7. PICK empty : empty = << >> /\ DOMAIN empty = {}
    BY EmptySeq
  <1>8. IdsIn(empty) = {}
    BY <1>7 DEF IdsIn
  <1>9. CASE r.capability \in Protected
    <2>1. d.verdict = "DENY" /\ d.matched_grant_ids = empty
      BY <1>5, <1>6, <1>7, <1>9
    <2> QED
      BY <1>7, <1>8, <1>9, <2>1
  <1>10. CASE r.capability \notin Protected /\ deny # << >>
    <2>1. d.verdict = "DENY" /\ d.matched_grant_ids = deny
      BY <1>5, <1>6, <1>10
    <2> QED
      BY <1>2, <1>10, <2>1
  <1>11. CASE r.capability \notin Protected /\ deny = << >> /\ review # << >>
    <2>1. d.verdict = "REVIEW" /\ d.matched_grant_ids = review
      BY <1>5, <1>6, <1>11
    <2> QED
      BY <1>2, <1>3, <1>11, <2>1
  <1>12. CASE /\ r.capability \notin Protected /\ deny = << >> /\ review = << >>
              /\ allow # << >>
    <2>1. d.verdict = "ALLOW" /\ d.matched_grant_ids = allow
      BY <1>5, <1>6, <1>12
    <2> QED
      BY <1>2, <1>3, <1>4, <1>12, <2>1
  <1>13. CASE /\ r.capability \notin Protected /\ deny = << >> /\ review = << >>
              /\ allow = << >>
    <2>1. d.verdict = "DENY" /\ d.matched_grant_ids = empty
      BY <1>5, <1>6, <1>7, <1>13
    <2>2. Named(r, reg, "DENY") = {}
      BY <1>2, <1>13 DEF Named
    <2> QED
      BY <1>2, <1>3, <1>4, <1>8, <1>13, <2>1, <2>2
  <1> QED
    BY <1>9, <1>10, <1>11, <1>12, <1>13

\* Of two registries, the first of which has every restriction of the second and
\* no permission that the second has not, the first lets no request further.
LEMMA NoWider ==
    ASSUME NEW S, NEW a, a.grants \in Seq(S), NEW b, b.grants \in Seq(S),
           \A g \in Carried(b) : g.effect \in {"DENY", "REVIEW"} => g \in Carried(a),
           \A g \in Carried(a) : g.effect \in {"ALLOW", "REVIEW"} => g \in Carried(b),
           NEW r
    PROVE  Rank(Evaluate(r, a).verdict) <= Rank(Evaluate(r, b).verdict)
  <1>1. /\ Touching(r, b, "DENY") \subseteq Touching(r, a, "DENY")
        /\ Touching(r, b, "REVIEW") = Touching(r, a, "REVIEW")
        /\ Touching(r, a, "ALLOW") \subseteq Touching(r, b, "ALLOW")
    BY DEF Touching
  <1> DEFINE V(reg) == IF \/ r.capability \in Protected
                          \/ Touching(r, reg, "DENY") # {} THEN "DENY"
                       ELSE IF Touching(r, reg, "REVIEW") # {} THEN "REVIEW"
                       ELSE IF Touching(r, reg, "ALLOW") # {} THEN "ALLOW"
                       ELSE "DENY"
  <1>2. Evaluate(r, a).verdict = V(a) /\ Evaluate(r, b).verdict = V(b)
    BY VerdictReads
  <1>3. Rank("DENY") = 0 /\ Rank("REVIEW") = 1 /\ Rank("ALLOW") = 2
    BY DEF Rank
  <1>4. \/ V(a) = "DENY" /\ V(b) \in {"DENY", "REVIEW", "ALLOW"}
        \/ V(a) = "REVIEW" /\ V(b) = "REVIEW"
        \/ V(a) = "ALLOW" /\ V(b) = "ALLOW"
    BY <1>1
  <1> HIDE DEF V
  <1>5. Rank(V(a)) <= Rank(V(b))
    BY <1>3, <1>4
  <1> QED
    BY <1>2, <1>5


-----------------------------------------------------------------------------
(* Editing a registry.                                                     *)

\* t is s with one more element, at place i.
Inserted(s, t, i) ==
    /\ Len(s) \in Nat /\ Len(t) = Len(s) + 1
    /\ DOMAIN s = 1 .. Len(s) /\ DOMAIN t = 1 .. Len(t)
    /\ i \in DOMAIN t
    /\ \A j \in DOMAIN s : s[j] = IF j < i THEN t[j] ELSE t[j + 1]

\* Cutting a list in two and putting an element between.
LEMMA Splice ==
    ASSUME NEW S, NEW s \in Seq(S), NEW e \in S, NEW i \in 1 .. Len(s) + 1,
           NEW t, t = SubSeq(s, 1, i - 1) \o <<e>> \o SubSeq(s, i, Len(s))
    PROVE  t \in Seq(S) /\ Inserted(s, t, i) /\ t[i] = e
  <1>1. /\ Len(s) \in Nat /\ DOMAIN s = 1 .. Len(s) /\ \A j \in 1 .. Len(s) : s[j] \in S
        /\ i \in Int /\ i >= 1 /\ i <= Len(s) + 1
    OBVIOUS
  <1>2. PICK a : a = SubSeq(s, 1, i - 1)
    OBVIOUS
  <1>3. PICK b : b = SubSeq(s, i, Len(s))
    OBVIOUS
  <1>4. a \in Seq(S) /\ Len(a) = i - 1 /\ \A j \in 1 .. i - 1 : a[j] = s[j]
    <2>1. \A j \in 1 .. i - 1 : s[j] \in S
      BY <1>1
    <2>2. /\ SubSeq(s, 1, i - 1) \in Seq(S)
          /\ Len(SubSeq(s, 1, i - 1)) = IF 1 <= i - 1 THEN i - 1 - 1 + 1 ELSE 0
          /\ \A j \in 1 .. i - 1 - 1 + 1 : SubSeq(s, 1, i - 1)[j] = s[1 + j - 1]
      BY <1>1, <2>1, SubSeqProperties
    <2>3. \A j \in 1 .. i - 1 : 1 + j - 1 = j /\ j \in 1 .. i - 1 - 1 + 1
      BY <1>1
    <2> QED
      BY <1>1, <1>2, <2>2, <2>3
  <1>5. /\ b \in Seq(S) /\ Len(b) = Len(s) + 1 - i
        /\ \A j \in 1 .. Len(s) + 1 - i : b[j] = s[i + j - 1]
    <2>1. \A j \in i .. Len(s) : s[j] \in S
      BY <1>1
    <2>2. /\ SubSeq(s, i, Len(s)) \in Seq(S)
          /\ Len(SubSeq(s, i, Len(s))) = IF i <= Len(s) THEN Len(s) - i + 1 ELSE 0
          /\ \A j \in 1 .. Len(s) - i + 1 : SubSeq(s, i, Len(s))[j] = s[i + j - 1]
      BY <1>1, <2>1, SubSeqProperties
    <2> QED
      BY <1>1, <1>3, <2>2
  <1>6. <<e>> \in Seq(S) /\ Len(<<e>>) = 1 /\ <<e>>[1] = e
    OBVIOUS
  <1>7. PICK c : c = a \o <<e>>
    OBVIOUS
  <1>8. c \in Seq(S) /\ Len(c) = i /\ c[i] = e /\ \A j \in 1 .. i - 1 : c[j] = s[j]
    <2>1. /\ c \in Seq(S) /\ Len(c) = i - 1 + 1
          /\ \A j \in 1 .. i - 1 + 1 : c[j] = IF j <= i - 1 THEN a[j] ELSE <<e>>[j - (i - 1)]
      BY <1>4, <1>6, <1>7, ConcatProperties
    <2> QED
      BY <1>1, <1>4, <1>6, <2>1
  <1>9. /\ t \in Seq(S) /\ Len(t) = Len(s) + 1
        /\ \A j \in 1 .. Len(s) + 1 : t[j] = IF j <= i THEN c[j] ELSE b[j - i]
    <2>1. t = c \o b
      BY <1>2, <1>3, <1>7
    <2>2. c \in Seq(S) /\ b \in Seq(S)
      BY <1>5, <1>8
    <2>4. /\ t \in Seq(S) /\ Len(t) = Len(c) + Len(b)
          /\ \A j \in 1 .. Len(c) + Len(b) : t[j] = IF j <= Len(c) THEN c[j] ELSE b[j - Len(c)]
      BY <2>1, <2>2, ConcatProperties
    <2>3. Len(c) + Len(b) = Len(s) + 1
      BY <1>1, <1>5, <1>8
    <2> QED
      BY <1>8, <2>4, <2>3
  <1>10. t[i] = e /\ DOMAIN t = 1 .. Len(t) /\ i \in DOMAIN t
    <2>1. i \in 1 .. Len(s) + 1 /\ i <= i
      BY <1>1
    <2>2. t[i] = c[i]
      BY <1>9, <2>1
    <2>3. DOMAIN t = 1 .. Len(t)
      BY <1>9
    <2> QED
      BY <1>8, <1>9, <2>1, <2>2, <2>3
  <1>11. ASSUME NEW j \in DOMAIN s PROVE s[j] = IF j < i THEN t[j] ELSE t[j + 1]
    <2>1. CASE j < i
      <3>1. j \in 1 .. i - 1 /\ j \in 1 .. Len(s) + 1 /\ j <= i
        BY <1>1, <2>1
      <3>2. t[j] = c[j] /\ c[j] = s[j]
        BY <1>8, <1>9, <3>1
      <3> QED
        BY <2>1, <3>2
    <2>2. CASE ~ (j < i)
      <3>1. /\ j + 1 \in 1 .. Len(s) + 1 /\ ~ (j + 1 <= i)
            /\ j + 1 - i \in 1 .. Len(s) + 1 - i /\ i + (j + 1 - i) - 1 = j
        BY <1>1, <2>2
      <3>2. t[j + 1] = b[j + 1 - i]
        <4>1. PICK m \in 1 .. Len(s) + 1 : m = j + 1
          BY <3>1
        <4>2. t[m] = IF m <= i THEN c[m] ELSE b[m - i]
          BY <1>9
        <4>3. t[m] = b[m - i]
          BY <3>1, <4>1, <4>2
        <4>4. t[j + 1] = t[m] /\ m - i = j + 1 - i
          BY <4>1
        <4> QED
          BY <4>3, <4>4, Zenon
      <3>3. b[j + 1 - i] = s[i + (j + 1 - i) - 1]
        BY <1>5, <3>1
      <3> QED
        BY <2>2, <3>1, <3>2, <3>3
    <2> QED
      BY <2>1, <2>2
  <1> QED
    BY <1>1, <1>9, <1>10, <1>11 DEF Inserted

\* Cutting an element out of a list.
LEMMA Cut ==
    ASSUME NEW S, NEW s \in Seq(S), NEW i \in DOMAIN s,
           NEW t, t = SubSeq(s, 1, i - 1) \o SubSeq(s, i + 1, Len(s))
    PROVE  t \in Seq(S) /\ Inserted(t, s, i)
  <1>1. /\ Len(s) \in Nat /\ DOMAIN s = 1 .. Len(s) /\ \A j \in 1 .. Len(s) : s[j] \in S
        /\ i \in Int /\ i >= 1 /\ i <= Len(s)
    OBVIOUS
  <1>2. PICK a : a = SubSeq(s, 1, i - 1)
    OBVIOUS
  <1>3. PICK b : b = SubSeq(s, i + 1, Len(s))
    OBVIOUS
  <1>4. a \in Seq(S) /\ Len(a) = i - 1 /\ \A j \in 1 .. i - 1 : a[j] = s[j]
    <2>1. \A j \in 1 .. i - 1 : s[j] \in S
      BY <1>1
    <2>2. /\ SubSeq(s, 1, i - 1) \in Seq(S)
          /\ Len(SubSeq(s, 1, i - 1)) = IF 1 <= i - 1 THEN i - 1 - 1 + 1 ELSE 0
          /\ \A j \in 1 .. i - 1 - 1 + 1 : SubSeq(s, 1, i - 1)[j] = s[1 + j - 1]
      BY <1>1, <2>1, SubSeqProperties
    <2>3. \A j \in 1 .. i - 1 : 1 + j - 1 = j /\ j \in 1 .. i - 1 - 1 + 1
      BY <1>1
    <2> QED
      BY <1>1, <1>2, <2>2, <2>3
  <1>5. /\ b \in Seq(S) /\ Len(b) = Len(s) - i
        /\ \A j \in 1 .. Len(s) - i : b[j] = s[i + j]
    <2>1. \A j \in i + 1 .. Len(s) : s[j] \in S
      BY <1>1
    <2>2. /\ SubSeq(s, i + 1, Len(s)) \in Seq(S)
          /\ Len(SubSeq(s, i + 1, Len(s))) = IF i + 1 <= Len(s) THEN Len(s) - (i + 1) + 1 ELSE 0
          /\ \A j \in 1 .. Len(s) - (i + 1) + 1 : SubSeq(s, i + 1, Len(s))[j] = s[i + 1 + j - 1]
      BY <1>1, <2>1, SubSeqProperties
    <2>3. \A j \in 1 .. Len(s) - i : i + 1 + j - 1 = i + j /\ j \in 1 .. Len(s) - (i + 1) + 1
      BY <1>1
    <2> QED
      BY <1>1, <1>3, <2>2, <2>3
  <1>6. /\ t \in Seq(S) /\ Len(t) = Len(s) - 1
        /\ \A j \in 1 .. Len(s) - 1 : t[j] = IF j <= i - 1 THEN a[j] ELSE b[j - (i - 1)]
    <2>1. t = a \o b
      BY <1>2, <1>3
    <2>2. a \in Seq(S) /\ b \in Seq(S)
      BY <1>4, <1>5
    <2>4. /\ t \in Seq(S) /\ Len(t) = Len(a) + Len(b)
          /\ \A j \in 1 .. Len(a) + Len(b) : t[j] = IF j <= Len(a) THEN a[j] ELSE b[j - Len(a)]
      BY <2>1, <2>2, ConcatProperties
    <2>3. Len(a) + Len(b) = Len(s) - 1
      BY <1>1, <1>4, <1>5
    <2> QED
      BY <1>4, <2>4, <2>3
  <1>7. DOMAIN t = 1 .. Len(t) /\ Len(t) \in Nat /\ Len(s) = Len(t) + 1
    BY <1>1, <1>6
  <1>8. ASSUME NEW j \in DOMAIN t PROVE t[j] = IF j < i THEN s[j] ELSE s[j + 1]
    <2>1. CASE j < i
      BY <1>1, <1>4, <1>6, <1>7, <2>1
    <2>2. CASE ~ (j < i)
      <3>1. /\ j \in 1 .. Len(s) - 1 /\ ~ (j <= i - 1)
            /\ j - (i - 1) \in 1 .. Len(s) - i /\ i + (j - (i - 1)) = j + 1
        <4>1. j \in Int /\ j >= 1 /\ j <= Len(s) - 1
          BY <1>1, <1>6, <1>7
        <4>2. PICK l \in Nat : l = Len(s)
          BY <1>1
        <4>3. /\ j \in 1 .. l - 1 /\ ~ (j <= i - 1)
              /\ j - (i - 1) \in 1 .. l - i /\ i + (j - (i - 1)) = j + 1
          <5>1. i \in Int /\ j \in Int /\ j >= i /\ i >= 1 /\ j >= 1 /\ j <= l - 1
            BY <1>1, <2>2, <4>1, <4>2
          <5>2. j \in 1 .. l - 1 /\ ~ (j <= i - 1)
            BY <5>1
          <5>3. j - (i - 1) \in 1 .. l - i
            BY <5>1
          <5>4. i + (j - (i - 1)) = j + 1
            BY <5>1
          <5> QED
            BY <5>2, <5>3, <5>4
        <4> QED
          BY <4>2, <4>3
      <3>2. t[j] = b[j - (i - 1)]
        BY <1>6, <3>1
      <3>3. b[j - (i - 1)] = s[i + (j - (i - 1))]
        BY <1>5, <3>1
      <3> QED
        BY <2>2, <3>1, <3>2, <3>3
    <2> QED
      BY <2>1, <2>2
  <1> QED
    BY <1>1, <1>6, <1>7, <1>8 DEF Inserted

\* The shorter list lacks nothing but the element inserted.
LEMMA InsertedCarries ==
    ASSUME NEW s, NEW t, NEW i, Inserted(s, t, i)
    PROVE  /\ \A j \in DOMAIN s : \E k \in DOMAIN t : s[j] = t[k]
           /\ \A k \in DOMAIN t : k = i \/ \E j \in DOMAIN s : t[k] = s[j]
  <1>1. /\ Len(s) \in Nat /\ Len(t) = Len(s) + 1
        /\ DOMAIN s = 1 .. Len(s) /\ DOMAIN t = 1 .. Len(s) + 1
        /\ i \in 1 .. Len(s) + 1
        /\ \A j \in DOMAIN s : s[j] = IF j < i THEN t[j] ELSE t[j + 1]
    BY DEF Inserted
  <1>2. ASSUME NEW j \in DOMAIN s PROVE \E k \in DOMAIN t : s[j] = t[k]
    <2>1. j \in DOMAIN t /\ j + 1 \in DOMAIN t
      BY <1>1
    <2> QED
      BY <1>1, <2>1
  <1>3. ASSUME NEW k \in DOMAIN t, k # i PROVE \E j \in DOMAIN s : t[k] = s[j]
    <2>1. CASE k < i
      <3>1. k \in DOMAIN s
        BY <1>1, <2>1
      <3> QED
        BY <1>1, <2>1, <3>1
    <2>2. CASE ~ (k < i)
      <3>1. k - 1 \in DOMAIN s /\ ~ (k - 1 < i) /\ k - 1 + 1 = k
        BY <1>1, <1>3, <2>2
      <3>2. s[k - 1] = t[k]
        BY <1>1, <3>1
      <3> QED
        BY <3>1, <3>2
    <2> QED
      BY <2>1, <2>2
  <1> QED
    BY <1>2, <1>3

\* With the element inserted, more elements have one of some effects, if it has.
LEMMA InsertedCounts ==
    ASSUME NEW a, NEW b, NEW i, Inserted(a.grants, b.grants, i),
           NEW effects, b.grants[i].effect \in effects
    PROVE  Count(b, effects) > Count(a, effects)
  <1>1. PICK s, t : s = a.grants /\ t = b.grants
    OBVIOUS
  <1>2. /\ Len(s) \in Nat /\ Len(t) = Len(s) + 1
        /\ DOMAIN s = 1 .. Len(s) /\ DOMAIN t = 1 .. Len(s) + 1
        /\ i \in 1 .. Len(s) + 1
        /\ \A j \in DOMAIN s : s[j] = IF j < i THEN t[j] ELSE t[j + 1]
    BY <1>1 DEF Inserted
  <1> DEFINE P == {j \in DOMAIN s : s[j].effect \in effects}
             Q == {j \in DOMAIN t : t[j].effect \in effects}
             shift == [j \in P |-> IF j < i THEN j ELSE j + 1]
  <1>3. IsFiniteSet(Q) /\ i \in Q
    <2>1. IsFiniteSet(1 .. Len(s) + 1)
      BY <1>2, FS_Interval
    <2>2. Q \in SUBSET (1 .. Len(s) + 1)
      BY <1>2
    <2>3. i \in Q
      BY <1>1, <1>2
    <2> HIDE DEF Q
    <2> QED
      BY <2>1, <2>2, <2>3, FS_Subset
  <1>4. shift \in Injection(P, Q \ {i})
    <2>1. ASSUME NEW j \in P PROVE shift[j] \in Q \ {i}
      <3>1. j \in 1 .. Len(s) /\ s[j].effect \in effects
        BY <1>2
      <3>2. CASE j < i
        <4>1. shift[j] = j /\ j \in DOMAIN t /\ t[j] = s[j] /\ j # i
          BY <1>2, <3>1, <3>2
        <4> QED
          BY <3>1, <4>1
      <3>3. CASE ~ (j < i)
        <4>1. shift[j] = j + 1 /\ j + 1 \in DOMAIN t /\ t[j + 1] = s[j] /\ j + 1 # i
          BY <1>2, <3>1, <3>3
        <4> QED
          BY <3>1, <4>1
      <3> QED
        BY <3>2, <3>3
    <2>2. ASSUME NEW j \in P, NEW k \in P, shift[j] = shift[k] PROVE j = k
      <3>1. j \in Int /\ k \in Int /\ i \in Int
        BY <1>2
      <3>2. shift[j] = (IF j < i THEN j ELSE j + 1) /\ shift[k] = (IF k < i THEN k ELSE k + 1)
        OBVIOUS
      <3>3. (IF j < i THEN j ELSE j + 1) = IF k < i THEN k ELSE k + 1
        BY <2>2, <3>2
      <3> HIDE DEF shift, P, Q
      <3> QED
        BY <3>1, <3>3
    <2>3. shift \in [P -> Q \ {i}]
      <3>1. DOMAIN shift = P /\ shift = [j \in P |-> shift[j]]
        OBVIOUS
      <3> HIDE DEF shift, P, Q
      <3> QED
        BY <2>1, <3>1
    <2> HIDE DEF shift, P, Q
    <2> QED
      BY <2>2, <2>3 DEF Injection, IsInjective
  <1>5. Cardinality(P) <= Cardinality(Q) - 1
    <2> HIDE DEF shift, P, Q
    <2>1. IsFiniteSet(Q \ {i}) /\ Cardinality(Q \ {i}) = Cardinality(Q) - 1
      BY <1>3, FS_RemoveElement
    <2> QED
      BY <1>4, <2>1, FS_Injection
  <1>6. Cardinality(P) \in Nat /\ Cardinality(Q) \in Nat
    <2> HIDE DEF shift, P, Q
    <2>1. IsFiniteSet(Q \ {i})
      BY <1>3, FS_RemoveElement
    <2>2. IsFiniteSet(P)
      BY <1>4, <2>1, FS_Injection
    <2> QED
      BY <1>3, <2>2, FS_CardinalityType
  <1>7. Count(a, effects) = Cardinality(P) /\ Count(b, effects) = Cardinality(Q)
    BY <1>1 DEF Count
  <1> HIDE DEF P, Q
  <1> QED
    BY <1>5, <1>6, <1>7


\* An edit inserts a grant, takes one out, or moves one.
LEMMA EditMoves ==
    ASSUME IsRegistry(registry), EditRegistry
    PROVE  /\ IsRegistry(registry)'
           /\ \/ \E i : Inserted(registry.grants, registry'.grants, i)
              \/ \E i : Inserted(registry'.grants, registry.grants, i)
              \/ Carried(registry') = Carried(registry)
  <1>1. PICK v, s : registry = [version |-> v, grants |-> s]
    BY DEF IsRegistry
  <1>2. /\ s = registry.grants /\ s \in Seq(Grants) /\ Len(s) <= MaxGrants
        /\ Len(s) \in Nat /\ DOMAIN s = 1 .. Len(s)
    BY <1>1 DEF IsRegistry
  <1>3. ASSUME NEW t \in Seq(Grants), Len(t) <= MaxGrants,
               registry' = [registry EXCEPT !.grants = t]
        PROVE  IsRegistry(registry)' /\ registry'.grants = t
    <2>1. registry' = [version |-> v, grants |-> t]
      BY <1>1, <1>3
    <2> QED
      BY <1>3, <2>1 DEF IsRegistry
  <1>4. ASSUME NEW grant \in Grants, NEW i \in 1 .. Len(registry.grants) + 1, Add(grant, i)
        PROVE  IsRegistry(registry)' /\ Inserted(registry.grants, registry'.grants, i)
    <2>1. PICK t : t = SubSeq(s, 1, i - 1) \o <<grant>> \o SubSeq(s, i, Len(s))
      OBVIOUS
    <2>0. i \in 1 .. Len(s) + 1
      BY <1>2
    <2>2. t \in Seq(Grants) /\ Inserted(s, t, i)
      <3>1. s \in Seq(Grants) /\ grant \in Grants /\ i \in 1 .. (Len(s) + 1)
        BY <1>2, <2>0
      <3>2. \A u : u = SubSeq(s, 1, i - 1) \o <<grant>> \o SubSeq(s, i, Len(s))
                      => u \in Seq(Grants) /\ Inserted(s, u, i)
        BY <3>1, Splice
      <3> QED
        BY <2>1, <3>2
    <2>3. registry' = [registry EXCEPT !.grants = t]
      BY <1>2, <1>4, <2>1 DEF Add
    <2>4. Len(t) <= MaxGrants
      BY <1>2, <1>4, <2>2, BoundsAssumption DEF Add, Inserted
    <2> QED
      BY <1>2, <1>3, <2>2, <2>3, <2>4
  <1>5. ASSUME NEW i \in DOMAIN registry.grants, Remove(i)
        PROVE  IsRegistry(registry)' /\ Inserted(registry'.grants, registry.grants, i)
    <2>1. PICK t : t = SubSeq(s, 1, i - 1) \o SubSeq(s, i + 1, Len(s))
      OBVIOUS
    <2>2. t \in Seq(Grants) /\ Inserted(t, s, i)
      BY <1>2, <2>1, Cut
    <2>3. registry' = [registry EXCEPT !.grants = t]
      BY <1>2, <1>5, <2>1 DEF Remove
    <2>4. Len(t) <= MaxGrants
      BY <1>2, <2>2, BoundsAssumption DEF Inserted
    <2> QED
      BY <1>2, <1>3, <2>2, <2>3, <2>4
  <1>6. ASSUME NEW i \in DOMAIN registry.grants, Swap(i)
        PROVE  IsRegistry(registry)' /\ Carried(registry') = Carried(registry)
    <2>1. i \in 1 .. Len(s) /\ i + 1 \in 1 .. Len(s) /\ s[i] \in Grants /\ s[i + 1] \in Grants
      BY <1>2, <1>6 DEF Swap
    <2>2. PICK t : t = [[s EXCEPT ![i] = s[i + 1]] EXCEPT ![i + 1] = s[i]]
      OBVIOUS
    <2>3. /\ t \in Seq(Grants) /\ Len(t) = Len(s) /\ DOMAIN t = DOMAIN s
          /\ \A j \in DOMAIN s : t[j] = IF j = i + 1 THEN s[i]
                                        ELSE IF j = i THEN s[i + 1] ELSE s[j]
      BY <1>2, <2>1, <2>2
    <2>4. registry' = [registry EXCEPT !.grants = t]
      BY <1>1, <1>2, <1>6, <2>2 DEF Swap
    <2>5. IsRegistry(registry)' /\ registry'.grants = t
      BY <1>2, <1>3, <2>3, <2>4
    <2>6. \A j \in DOMAIN t : \E k \in DOMAIN s : t[j] = s[k]
      BY <1>2, <2>1, <2>3
    <2>7. \A k \in DOMAIN s : \E j \in DOMAIN t : s[k] = t[j]
      <3>1. ASSUME NEW k \in DOMAIN s PROVE \E j \in DOMAIN t : s[k] = t[j]
        <4>1. i \in DOMAIN t /\ i + 1 \in DOMAIN t /\ k \in DOMAIN t /\ i # i + 1
          BY <1>2, <2>1, <2>3
        <4>2. CASE k = i
          BY <2>3, <4>1, <4>2
        <4>3. CASE k = i + 1
          BY <2>3, <4>1, <4>3
        <4>4. CASE k # i /\ k # i + 1
          BY <2>3, <4>1, <4>4
        <4> QED
          BY <4>2, <4>3, <4>4
      <3> QED
        BY <3>1
    <2> QED
      BY <1>2, <2>5, <2>6, <2>7 DEF Carried
  <1> QED
    BY <1>4, <1>5, <1>6 DEF EditRegistry

\* No edit widens authority that adds no permission and takes no restriction away.
LEMMA EditWidens ==
    ASSUME IsRegistry(registry), EditRegistry
    PROVE  WidenedByGrants
  <1>1. PICK old, new : old = registry /\ new = registry'
    OBVIOUS
  <1>2. old.grants \in Seq(Grants) /\ new.grants \in Seq(Grants)
    BY <1>1, EditMoves DEF IsRegistry
  <1>3. SUFFICES \/ Count(new, {"ALLOW", "REVIEW"}) > Count(old, {"ALLOW", "REVIEW"})
                 \/ Count(new, {"DENY", "REVIEW"}) < Count(old, {"DENY", "REVIEW"})
                 \/ \A r \in Requests :
                       Rank(Evaluate(r, new).verdict) <= Rank(Evaluate(r, old).verdict)
    BY <1>1 DEF WidenedByGrants
  <1>4. ASSUME \A g \in Carried(old) : g.effect \in {"DENY", "REVIEW"} => g \in Carried(new),
               \A g \in Carried(new) : g.effect \in {"ALLOW", "REVIEW"} => g \in Carried(old)
        PROVE  \A r \in Requests :
                  Rank(Evaluate(r, new).verdict) <= Rank(Evaluate(r, old).verdict)
    BY <1>2, <1>4, NoWider
  <1>5. ASSUME NEW i, Inserted(old.grants, new.grants, i),
               new.grants[i].effect \notin {"ALLOW", "REVIEW"}
        PROVE  \A r \in Requests :
                  Rank(Evaluate(r, new).verdict) <= Rank(Evaluate(r, old).verdict)
    <2>1. Carried(old) \subseteq Carried(new)
      BY <1>5, InsertedCarries DEF Carried
    <2>2. \A g \in Carried(new) : g = new.grants[i] \/ g \in Carried(old)
      BY <1>5, InsertedCarries DEF Carried
    <2> QED
      BY <1>4, <1>5, <2>1, <2>2
  <1>6. ASSUME NEW i, Inserted(new.grants, old.grants, i),
               old.grants[i].effect \notin {"DENY", "REVIEW"}
        PROVE  \A r \in Requests :
                  Rank(Evaluate(r, new).verdict) <= Rank(Evaluate(r, old).verdict)
    <2>1. Carried(new) \subseteq Carried(old)
      BY <1>6, InsertedCarries DEF Carried
    <2>2. \A g \in Carried(old) : g = old.grants[i] \/ g \in Carried(new)
      BY <1>6, InsertedCarries DEF Carried
    <2> QED
      BY <1>4, <1>6, <2>1, <2>2
  <1>7. CASE \E i : Inserted(old.grants, new.grants, i)
    BY <1>5, <1>7, InsertedCounts
  <1>8. CASE \E i : Inserted(new.grants, old.grants, i)
    <2>1. PICK i : Inserted(new.grants, old.grants, i)
      BY <1>8
    <2>2. CASE old.grants[i].effect \in {"DENY", "REVIEW"}
      <3>1. Count(old, {"DENY", "REVIEW"}) > Count(new, {"DENY", "REVIEW"})
        BY <2>1, <2>2, InsertedCounts
      <3> QED
        BY <3>1
    <2> QED
      BY <1>6, <2>1, <2>2
  <1>9. CASE Carried(new) = Carried(old)
    BY <1>4, <1>9
  <1> QED
    BY <1>1, <1>7, <1>8, <1>9, EditMoves

-----------------------------------------------------------------------------
(* Digests and deltas.                                                     *)

\* The grants of one id, in the order of the file: of all grants, those.
LEMMA WithIdHolds ==
    ASSUME NEW S, NEW reg, reg.grants \in Seq(S), NEW id, NEW list, list = WithId(reg, id)
    PROVE  /\ list \in Seq(S)
           /\ \A k \in DOMAIN list : list[k] \in Carried(reg) /\ list[k].id = id
           /\ \A g \in Carried(reg) : g.id = id => \E k \in DOMAIN list : list[k] = g
  <1> DEFINE places == {i \in DOMAIN reg.grants : reg.grants[i].id = id}
  <1>1. list = Sublist(reg.grants, places)
    BY DEF WithId
  <1>2. places \subseteq DOMAIN reg.grants
    OBVIOUS
  <1>3. /\ list \in Seq(S)
        /\ \A k \in DOMAIN list : \E i \in places : list[k] = reg.grants[i]
        /\ \A i \in places : \E k \in DOMAIN list : list[k] = reg.grants[i]
    <2> HIDE DEF places
    <2> QED
      BY <1>1, <1>2, SublistKeeps
  <1> QED
    BY <1>3 DEF Carried

\* A grant is among those of its id.
LEMMA WithIdFinds ==
    ASSUME NEW S, NEW reg, reg.grants \in Seq(S), NEW g \in Carried(reg),
           NEW list, list = WithId(reg, g.id)
    PROVE  \E k \in DOMAIN list : list[k] = g
  BY WithIdHolds

\* Registries of one digest carry the same grants.
LEMMA DigestFixesGrants ==
    ASSUME NEW S, NEW a, a.grants \in Seq(S), NEW b, b.grants \in Seq(S),
           RegistryDigest(a) = RegistryDigest(b)
    PROVE  Carried(a) \subseteq Carried(b)
  <1>1. GrantIds(a) = GrantIds(b) /\ \A id \in GrantIds(a) : WithId(a, id) = WithId(b, id)
    <2> DEFINE f == [id \in GrantIds(a) |-> WithId(a, id)]
               h == [id \in GrantIds(b) |-> WithId(b, id)]
    <2>1. f = h
      BY DEF RegistryDigest
    <2>2. DOMAIN f = GrantIds(a) /\ DOMAIN h = GrantIds(b)
      OBVIOUS
    <2>3. \A id \in GrantIds(a) : f[id] = WithId(a, id)
      OBVIOUS
    <2>4. \A id \in GrantIds(b) : h[id] = WithId(b, id)
      OBVIOUS
    <2> HIDE DEF f, h
    <2> QED
      BY <2>1, <2>2, <2>3, <2>4
  <1>2. ASSUME NEW g \in Carried(a) PROVE g \in Carried(b)
    <2>1. g.id \in GrantIds(a)
      BY DEF Carried, GrantIds
    <2>2. PICK list : list = WithId(a, g.id) /\ list = WithId(b, g.id)
      BY <1>1, <2>1
    <2>3. PICK k \in DOMAIN list : list[k] = g
      BY <2>2, WithIdFinds
    <2>4. \A j \in DOMAIN list : list[j] \in Carried(b)
      BY <2>2, WithIdHolds
    <2> QED
      BY <2>3, <2>4
  <1> QED
    BY <1>2

\* What a delta compares of an id is a grant of the registry that has that id,
\* and where ids do not repeat there is no other.
LEMMA GrantsByIdHolds ==
    ASSUME NEW S, NEW reg, reg.grants \in Seq(S), NEW id \in GrantIds(reg)
    PROVE  /\ GrantsById(reg)[id] \in Carried(reg)
           /\ GrantsById(reg)[id].id = id
           /\ ~ RepeatsIds(reg) => \A g \in Carried(reg) : g.id = id => g = GrantsById(reg)[id]
  <1>1. PICK s : s = WithId(reg, id)
    OBVIOUS
  <1>2. /\ s \in Seq(S)
        /\ \A k \in DOMAIN s : s[k] \in Carried(reg) /\ s[k].id = id
        /\ \A g \in Carried(reg) : g.id = id => \E k \in DOMAIN s : s[k] = g
    BY <1>1, WithIdHolds
  <1>3. Len(s) \in DOMAIN s
    <2>1. PICK g \in Carried(reg) : g.id = id
      BY DEF GrantIds, Carried
    <2>2. PICK k \in DOMAIN s : s[k] = g
      BY <1>2, <2>1
    <2>3. Len(s) \in Nat /\ DOMAIN s = 1 .. Len(s)
      BY <1>2
    <2> QED
      BY <2>2, <2>3
  <1>4. GrantsById(reg)[id] = s[Len(s)]
    BY <1>1 DEF GrantsById
  <1>5. ASSUME ~ RepeatsIds(reg), NEW g \in Carried(reg), NEW h \in Carried(reg), g.id = h.id
        PROVE  g = h
    <2>1. PICK i \in DOMAIN reg.grants : g = reg.grants[i]
      BY DEF Carried
    <2>2. PICK j \in DOMAIN reg.grants : h = reg.grants[j]
      BY DEF Carried
    <2>3. i = j
      BY <1>5, <2>1, <2>2 DEF RepeatsIds
    <2> QED
      BY <2>1, <2>2, <2>3
  <1> QED
    BY <1>2, <1>3, <1>4, <1>5


\* The ids of a registry are those of the grants it carries.
LEMMA IdsCarried ==
    ASSUME NEW S, NEW reg, reg.grants \in Seq(S) PROVE GrantIds(reg) = {g.id : g \in Carried(reg)}
  BY DEF GrantIds, Carried

\* A proposal that is not flagged and takes no restriction away lets no request
\* further than the registry it is compared with.
LEMMA UnflaggedIsNoWider ==
    ASSUME NEW S, NEW a, a.grants \in Seq(S), NEW b, b.grants \in Seq(S),
           ~ RepeatsIds(a), ~ RepeatsIds(b),
           NEW delta, delta = DiffRegistries(b, a),
           ~ HasPossibleAuthorityExpansion(delta),
           \A id \in delta.removed : GrantsById(b)[id].effect \notin {"DENY", "REVIEW"},
           NEW r
    PROVE  Rank(Evaluate(r, a).verdict) <= Rank(Evaluate(r, b).verdict)
  <1>1. DOMAIN GrantsById(a) = GrantIds(a) /\ DOMAIN GrantsById(b) = GrantIds(b)
    BY DEF GrantsById
  <1>2. /\ delta.added = GrantIds(a) \ GrantIds(b)
        /\ delta.removed = GrantIds(b) \ GrantIds(a)
        /\ delta.changed = {id \in GrantIds(b) \intersect GrantIds(a) :
                               GrantsById(b)[id] # GrantsById(a)[id]}
    BY <1>1 DEF DiffRegistries
  <1>3. GrantIds(a) \subseteq GrantIds(b) /\ \A id \in GrantIds(a) : GrantsById(b)[id] = GrantsById(a)[id]
    BY <1>2 DEF HasPossibleAuthorityExpansion
  <1>4. ASSUME NEW g \in Carried(a) PROVE g \in Carried(b)
    <2>1. PICK id : id = g.id /\ id \in GrantIds(a) /\ id \in GrantIds(b)
      BY <1>3 DEF Carried, GrantIds
    <2>2. g = GrantsById(a)[id]
      BY <2>1, GrantsByIdHolds
    <2>3. GrantsById(b)[id] \in Carried(b)
      BY <2>1, GrantsByIdHolds
    <2> QED
      BY <1>3, <2>1, <2>2, <2>3
  <1>5. ASSUME NEW g \in Carried(b), g.effect \in {"DENY", "REVIEW"} PROVE g \in Carried(a)
    <2>1. PICK id : id = g.id /\ id \in GrantIds(b)
      BY DEF Carried, GrantIds
    <2>2. g = GrantsById(b)[id]
      BY <2>1, GrantsByIdHolds
    <2>3. id \in GrantIds(a)
      BY <1>2, <1>5, <2>1, <2>2
    <2>4. GrantsById(a)[id] \in Carried(a)
      BY <2>3, GrantsByIdHolds
    <2> QED
      BY <1>3, <2>2, <2>3, <2>4
  <1> QED
    BY <1>4, <1>5, NoWider

-----------------------------------------------------------------------------
(* The promotion gate.                                                     *)

\* A decision that makes a request eligible rests on evidence for it.
LEMMA EligibleHasEvidence ==
    ASSUME NEW d, Eligible(d)
    PROVE  LET body == d.evidence.body
               results == body.prsp_receipt.results
           IN  /\ d.evidence.intact /\ d.evidence.key = "prsp"
               /\ body.authority_effect = "EVIDENCE_ONLY"
               /\ body.promotion_request_digest = d.request
               /\ \A i \in DOMAIN results : results[i].status \in {"PASS", "SKIP"}
               /\ \A domain \in RequiredDomains : \E i \in DOMAIN results :
                     results[i].domain = domain /\ results[i].status = "PASS"
  <1> DEFINE body == d.evidence.body
             receipt == body.prsp_receipt
             results == receipt.results
  <1>1. /\ VerifyEnvelope(d.evidence, PromotionTrust, "promotion_evidence_issuer",
                          "prsp_promotion_evidence")
        /\ body.authority_effect = "EVIDENCE_ONLY"
        /\ Bound(body, d.request)
        /\ WellFormed(receipt)
        /\ d.request.required_domains \ Covered(results) = {}
        /\ RecomputePrspGate(results) = "PASS"
    BY DEF Eligible, EvaluatePromotion
  <1>2. d.evidence.intact /\ d.evidence.key = "prsp"
    <2>1. /\ d.evidence.intact
          /\ <<d.evidence.key, "promotion_evidence_issuer">> \in PromotionTrust
      BY <1>1 DEF VerifyEnvelope
    <2> QED
      BY <2>1 DEF PromotionTrust
  <1>3. body.promotion_request_digest = d.request
    BY <1>1 DEF Bound
  <1>4. ASSUME NEW i \in DOMAIN results PROVE results[i].status \in {"PASS", "SKIP"}
    <2>1. results[i].status \in {"PASS", "REVIEW", "HOLD", "REJECT", "SKIP"}
      BY <1>1 DEF WellFormed, Gates
    <2>2. {"REVIEW", "HOLD", "REJECT"} \intersect Active(results) = {}
      BY <1>1 DEF RecomputePrspGate
    <2>3. results[i].status # "SKIP" => results[i].status \in Active(results)
      BY DEF Active
    <2> QED
      BY <2>1, <2>2, <2>3
  <1>5. ASSUME NEW domain \in RequiredDomains
        PROVE  \E i \in DOMAIN results : results[i].domain = domain /\ results[i].status = "PASS"
    <2>1. domain \in Covered(results)
      BY <1>1 DEF Eligible
    <2>2. PICK i \in DOMAIN results : results[i].domain = domain /\ results[i].status # "SKIP"
      BY <2>1 DEF Covered
    <2> QED
      BY <1>4, <2>2
  <1> QED
    BY <1>1, <1>2, <1>3, <1>4, <1>5

-----------------------------------------------------------------------------
(* The invariant and what follows from it.                                 *)

\* Registries stay registries, and what is handed on from step to step is what
\* the gate decided on.
THEOREM Inductive == Spec => []IInv
  <1>1. Init => IInv
    BY BaselineAssumption, BoundsAssumption DEF Init, IInv, HandedOn
  <1>2. IInv /\ [Next]_vars => IInv'
    <2> SUFFICES ASSUME IInv, [Next]_vars PROVE IInv'
      OBVIOUS
    <2> USE DEF IInv
    <2>1. CASE Edit
      <3>1. IsRegistry(registry)'
        BY <2>1, EditMoves DEF Edit
      <3>2. UNCHANGED <<active, promotionVars, grounds, starts>>
        BY <2>1 DEF Edit
      <3>3. HandedOn' /\ IsRegistry(active)'
        BY <3>2 DEF HandedOn, promotionVars, IsRegistry
      <3> QED
        BY <3>1, <3>2, <3>3
    <2>2. CASE BuildRequest
      <3>1. /\ request' = BuildPromotionRequest("promotion", active, registry)
            /\ UNCHANGED <<registry, active, decision, attestation, grounds, starts>>
        BY <2>2 DEF BuildRequest
      <3>2. request'.required_domains = RequiredDomains
        BY <3>1 DEF BuildPromotionRequest
      <3>3. HandedOn'
        BY <3>1, <3>2 DEF HandedOn
      <3> QED
        BY <3>1, <3>3 DEF IsRegistry
    <2>3. CASE SignEvidence
      <3>1. UNCHANGED <<registry, active, request, decision, attestation, grounds, starts>>
        BY <2>3 DEF SignEvidence
      <3> QED
        BY <3>1 DEF HandedOn, IsRegistry
    <2>4. CASE Decide
      <3>1. /\ request # None
            /\ decision' = IF EvaluatePromotion(request, evidence) = "PASS"
                           THEN [kind |-> "eligible", request |-> request, evidence |-> evidence]
                           ELSE None
            /\ UNCHANGED <<registry, active, request, evidence, attestation, grounds, starts>>
        BY <2>4 DEF Decide
      <3>2. decision' # None => Eligible(decision')
        <4>1. CASE EvaluatePromotion(request, evidence) = "PASS"
          <5>1. /\ decision'.kind = "eligible"
                /\ decision'.request = request /\ decision'.evidence = evidence
            BY <3>1, <4>1
          <5> QED
            BY <3>1, <4>1, <5>1 DEF Eligible, HandedOn
        <4>2. CASE EvaluatePromotion(request, evidence) # "PASS"
          BY <3>1, <4>2
        <4> QED
          BY <4>1, <4>2
      <3>3. HandedOn'
        BY <3>1, <3>2 DEF HandedOn
      <3> QED
        BY <3>1, <3>3 DEF IsRegistry
    <2>5. CASE Attest
      <3>1. /\ decision # None /\ decision' = None
            /\ RegistryDigest(registry) = decision.request.proposed_registry_digest
            /\ attestation' = [kind |-> "attested", decision |-> decision,
                               envelope |-> AttestCapabilityRegistry(registry, "authority")]
            /\ UNCHANGED <<registry, active, request, evidence, grounds, starts>>
        BY <2>5 DEF Attest
      <3>2. /\ attestation'.kind = "attested" /\ attestation'.decision = decision
            /\ attestation'.envelope.body = RegistryDigest(registry)
        BY <3>1 DEF AttestCapabilityRegistry, SignPayload
      <3>3. HandedOn'
        BY <3>1, <3>2 DEF HandedOn
      <3> QED
        BY <3>1, <3>3 DEF IsRegistry
    <2>6. CASE StartRuntime
      <3>1. /\ starts < MaxStarts /\ starts' = starts + 1
            /\ attestation # None
            /\ UNCHANGED <<registry, request, evidence, decision, attestation>>
        BY <2>6 DEF StartRuntime, promotionVars
      <3>2. CASE VerifyAttestation(registry, attestation.envelope)
        <4>1. active' = registry /\ grounds' = attestation.decision
          BY <2>6, <3>2 DEF StartRuntime
        <4>2. attestation.envelope.body = RegistryDigest(registry)
          BY <3>2 DEF VerifyAttestation
        <4>3. Eligible(grounds') /\ RegistryDigest(active') = grounds'.request.proposed_registry_digest
          BY <3>1, <4>1, <4>2 DEF HandedOn
        <4>4. HandedOn'
          BY <3>1, <4>3 DEF HandedOn
        <4> QED
          BY <3>1, <4>1, <4>4, BoundsAssumption DEF IsRegistry
      <3>3. CASE ~ VerifyAttestation(registry, attestation.envelope)
        <4>1. UNCHANGED <<active, grounds>>
          BY <2>6, <3>3 DEF StartRuntime
        <4>2. HandedOn'
          BY <3>1, <4>1 DEF HandedOn
        <4> QED
          BY <3>1, <4>1, <4>2, BoundsAssumption DEF IsRegistry
      <3> QED
        BY <3>2, <3>3
    <2>7. CASE UNCHANGED vars
      BY <2>7 DEF vars, promotionVars, HandedOn, IsRegistry
    <2> QED
      BY <2>1, <2>2, <2>3, <2>4, <2>5, <2>6, <2>7 DEF Next
  <1> QED
    BY <1>1, <1>2, PTL DEF Spec

\* Type correctness: registries of bounded length, complete requests.
THEOREM TypeCorrect == Spec => []TypeOK
  <1>1. ASSUME NEW reg, IsRegistry(reg)
        PROVE  reg.grants \in UNION {[1 .. n -> Grants] : n \in 0 .. MaxGrants}
    <2>1. /\ Len(reg.grants) \in 0 .. MaxGrants
          /\ reg.grants \in [1 .. Len(reg.grants) -> Grants]
      BY <1>1, BoundsAssumption, LenProperties DEF IsRegistry
    <2> QED
      BY <2>1
  <1>2. IInv => TypeOK
    <2> SUFFICES ASSUME IInv PROVE TypeOK
      OBVIOUS
    <2>1. decision.kind \in {"none", "eligible"} /\ attestation.kind \in {"none", "attested"}
      BY DEF IInv, HandedOn, None, Eligible
    <2> QED
      BY <1>1, <2>1 DEF IInv, HandedOn, TypeOK
  <1> QED
    BY <1>2, Inductive, PTL

\* Whatever is edited, replayed or exchanged on the way, a promoted registry
\* rests on evidence for exactly the policy in force (evaluate and
\* verify_capability_registry_attestation together).
THEOREM PromotedOnEvidenceAlways == Spec => []PromotedOnEvidence
  <1>1. IInv => PromotedOnEvidence
    BY EligibleHasEvidence DEF IInv, HandedOn, PromotedOnEvidence
  <1> QED
    BY <1>1, Inductive, PTL

\* The verdict of CapabilityGate.evaluate is the one the registry justifies, and
\* a decision names exactly the grants it rests on.
THEOREM VerdictIsJustifiedAlways == Spec => []VerdictIsJustified
  <1>1. IInv => VerdictIsJustified
    <2> SUFFICES ASSUME IInv, NEW r \in Requests
                 PROVE  LET d == Evaluate(r, registry)
                            deny == Matching(r, "DENY")
                            review == Matching(r, "REVIEW")
                            allow == Matching(r, "ALLOW")
                        IN  /\ d.verdict = "ALLOW" <=> /\ r.capability \notin Protected
                                                       /\ deny = {} /\ review = {} /\ allow # {}
                            /\ d.verdict = "REVIEW" <=> /\ r.capability \notin Protected
                                                        /\ deny = {} /\ review # {}
                            /\ d.matched_grant_ids # << >> =>
                                  {d.matched_grant_ids[k] : k \in DOMAIN d.matched_grant_ids} =
                                     {registry.grants[i].id : i \in Matching(r, d.verdict)}
      BY DEF VerdictIsJustified
    <2>1. registry.grants \in Seq(Grants)
      BY DEF IInv, IsRegistry
    <2>2. ASSUME NEW effect
          PROVE  /\ Matching(r, effect) = {} <=> Touching(r, registry, effect) = {}
                 /\ {registry.grants[i].id : i \in Matching(r, effect)} = Named(r, registry, effect)
      BY DEF Matching, Touching, Named, Carried
    <2>3. PICK d : d = Evaluate(r, registry)
      OBVIOUS
    <2>4. /\ d.verdict = IF \/ r.capability \in Protected
                            \/ Touching(r, registry, "DENY") # {} THEN "DENY"
                         ELSE IF Touching(r, registry, "REVIEW") # {} THEN "REVIEW"
                         ELSE IF Touching(r, registry, "ALLOW") # {} THEN "ALLOW"
                         ELSE "DENY"
          /\ IdsIn(d.matched_grant_ids) =
                IF r.capability \in Protected THEN {} ELSE Named(r, registry, d.verdict)
          /\ d.matched_grant_ids # << >> => r.capability \notin Protected
      BY <2>1, <2>3, VerdictReads
    <2>5. d.verdict = "ALLOW" <=> /\ r.capability \notin Protected
                                  /\ Matching(r, "DENY") = {} /\ Matching(r, "REVIEW") = {}
                                  /\ Matching(r, "ALLOW") # {}
      BY <2>2, <2>4
    <2>6. d.verdict = "REVIEW" <=> /\ r.capability \notin Protected
                                   /\ Matching(r, "DENY") = {} /\ Matching(r, "REVIEW") # {}
      BY <2>2, <2>4
    <2>7. d.matched_grant_ids # << >> =>
             IdsIn(d.matched_grant_ids) = {registry.grants[i].id : i \in Matching(r, d.verdict)}
      BY <2>2, <2>4
    <2> QED
      BY <2>3, <2>5, <2>6, <2>7 DEF IdsIn
  <1> QED
    BY <1>1, Inductive, PTL

\* Two registry files of one digest give every request the same verdict, on the
\* same grants (registry_digest, CapabilityGate.evaluate).
THEOREM DigestFixesPolicyAlways == Spec => []DigestFixesPolicy
  <1>1. IInv => DigestFixesPolicy
    <2> SUFFICES ASSUME IInv, RegistryDigest(registry) = RegistryDigest(active), NEW r \in Requests
                 PROVE  LET d == Evaluate(r, registry)
                            e == Evaluate(r, active)
                        IN  /\ d.verdict = e.verdict
                            /\ {d.matched_grant_ids[k] : k \in DOMAIN d.matched_grant_ids} =
                                  {e.matched_grant_ids[k] : k \in DOMAIN e.matched_grant_ids}
      BY DEF DigestFixesPolicy
    <2>1. PICK a, b : a = registry /\ b = active
      OBVIOUS
    <2>2. a.grants \in Seq(Grants) /\ b.grants \in Seq(Grants)
      BY <2>1 DEF IInv, IsRegistry
    <2>3. Carried(a) = Carried(b)
      <3>1. RegistryDigest(a) = RegistryDigest(b)
        BY <2>1
      <3>2. Carried(a) \subseteq Carried(b)
        BY <2>2, <3>1, DigestFixesGrants
      <3>3. Carried(b) \subseteq Carried(a)
        BY <2>2, <3>1, DigestFixesGrants
      <3> QED
        BY <3>2, <3>3
    <2>4. ASSUME NEW effect
          PROVE  /\ Touching(r, a, effect) = Touching(r, b, effect)
                 /\ Named(r, a, effect) = Named(r, b, effect)
      BY <2>3 DEF Touching, Named
    <2>5. PICK d, e : d = Evaluate(r, a) /\ e = Evaluate(r, b)
      OBVIOUS
    <2>6. d.verdict = e.verdict
      BY <2>2, <2>4, <2>5, VerdictReads
    <2>7. IdsIn(d.matched_grant_ids) = IdsIn(e.matched_grant_ids)
      <3>1. IdsIn(d.matched_grant_ids) =
               IF r.capability \in Protected THEN {} ELSE Named(r, a, d.verdict)
        BY <2>2, <2>5, VerdictReads
      <3>2. IdsIn(e.matched_grant_ids) =
               IF r.capability \in Protected THEN {} ELSE Named(r, b, e.verdict)
        BY <2>2, <2>5, VerdictReads
      <3> QED
        BY <2>4, <2>6, <3>1, <3>2
    <2> QED
      BY <2>1, <2>5, <2>6, <2>7 DEF IdsIn
  <1> QED
    BY <1>1, Inductive, PTL

\* has_possible_authority_expansion misses no proposal that gives some request
\* more, but for lifted restrictions and files that repeat an id.
THEOREM ExpansionFlaggedAlways == Spec => []ExpansionFlagged
  <1>1. IInv => ExpansionFlagged
    <2> SUFFICES ASSUME IInv PROVE ExpansionFlagged
      OBVIOUS
    <2>1. PICK a, b : a = registry /\ b = active
      OBVIOUS
    <2>2. a.grants \in Seq(Grants) /\ b.grants \in Seq(Grants)
      BY <2>1 DEF IInv, IsRegistry
    <2>3. PICK delta : delta = DiffRegistries(b, a)
      OBVIOUS
    <2>4. \/ HasPossibleAuthorityExpansion(delta)
          \/ \E id \in delta.removed : GrantsById(b)[id].effect \in {"DENY", "REVIEW"}
          \/ RepeatsIds(b) \/ RepeatsIds(a)
          \/ \A r \in Requests : Rank(Evaluate(r, a).verdict) <= Rank(Evaluate(r, b).verdict)
      BY <2>2, <2>3, UnflaggedIsNoWider
    <2> QED
      BY <2>1, <2>3, <2>4 DEF ExpansionFlagged
  <1> QED
    BY <1>1, Inductive, PTL

\* Adding restrictions, removing permissions and moving grants about never widen
\* what the gate lets through.
THEOREM OnlyGrantsWidenAlways == Spec => OnlyGrantsWiden
  <1>1. IInv /\ [Next]_vars => [WidenedByGrants]_registry
    <2>1. [Next]_vars => EditRegistry \/ UNCHANGED registry
      BY DEF Next, vars, Edit, BuildRequest, SignEvidence, Decide, Attest, StartRuntime
    <2> QED
      BY <2>1, EditWidens DEF IInv
  <1> QED
    BY <1>1, Inductive, PTL DEF Spec, OnlyGrantsWiden

=============================================================================
