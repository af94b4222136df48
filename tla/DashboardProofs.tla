--------------------------- MODULE DashboardProofs ---------------------------
(***************************************************************************)
(* Proofs about the parts of the panel whose data are sequences and sums:  *)
(* Traffic, for any finite set of users and any lengths of a day, an hour  *)
(* and the retentions; Quota, for any calendar and limits; Streams, for    *)
(* any number of log streams, dashboards and sessions and any capacity,    *)
(* backlog and bounds.  Sums over rows of a table are folds, come first    *)
(* and serve both Traffic and Quota.                                       *)
(***************************************************************************)
EXTENDS Streams, Traffic, Quota, FiniteSetTheorems, SequenceTheorems, WellFoundedInduction, TLAPS

-----------------------------------------------------------------------------
(* Sums over finite sets, whatever the order the elements are chosen in. *)

Below == {ss \in Nat \X Nat : ss[1] < ss[2]}

LEMMA Least == ASSUME NEW T, T \subseteq Nat, T # {} PROVE \E n \in T : \A m \in T : ~ (m < n)
  <1>1. IsWellFoundedOn(Below, Nat)
    BY NatLessThanWellFounded DEF OpToRel, Below
  <1>2. \E x \in T : \A y \in T : ~ (<<y, x>> \in Below)
    BY <1>1, WFMin
  <1>3. QED
    BY <1>2 DEF Below

Some(s) == CHOOSE x \in s : TRUE

\* h has the sums of f over the subsets of D.
Folds(h, f, D) ==
    h = [s \in SUBSET D |-> IF s = {} THEN 0 ELSE f[Some(s)] + h[s \ {Some(s)}]]

LEMMA SumIs ==
    ASSUME NEW f, NEW D PROVE SumFunctionOnSet(f, D) = (CHOOSE h : Folds(h, f, D))[D]
  BY DEF SumFunctionOnSet, FoldFunctionOnSet, MapThenFoldSet, Folds, Some

LEMMA OneLess ==
    ASSUME NEW s, IsFiniteSet(s), NEW x \in s
    PROVE  /\ IsFiniteSet(s \ {x}) /\ Cardinality(s) \in Nat /\ Cardinality(s \ {x}) \in Nat
           /\ Cardinality(s \ {x}) = Cardinality(s) - 1
  BY FS_RemoveElement, FS_CardinalityType

LEMMA SomeIn == ASSUME NEW s, s # {} PROVE Some(s) \in s
  BY DEF Some

\* On the smaller of two sets their sums agree.
LEMMA FoldsAgree ==
    ASSUME NEW f, NEW D, IsFiniteSet(D), NEW E \in SUBSET D, NEW g, Folds(g, f, D), NEW h, Folds(h, f, E)
    PROVE  \A s \in SUBSET E : g[s] = h[s]
  <1> DEFINE T == {n \in Nat : \E s \in SUBSET E : Cardinality(s) = n /\ g[s] # h[s]}
  <1>1. \A s \in SUBSET E : IsFiniteSet(s) /\ Cardinality(s) \in Nat
    BY FS_Subset, FS_CardinalityType
  <1>2. SUFFICES ASSUME T # {} PROVE FALSE
    BY <1>1
  <1>3. PICK n \in T : \A m \in T : ~ (m < n)
    BY <1>2, Least
  <1>4. PICK s \in SUBSET E : Cardinality(s) = n /\ g[s] # h[s]
    BY <1>3
  <1>5. s \in SUBSET D
    OBVIOUS
  <1>6. /\ g[s] = IF s = {} THEN 0 ELSE f[Some(s)] + g[s \ {Some(s)}]
        /\ h[s] = IF s = {} THEN 0 ELSE f[Some(s)] + h[s \ {Some(s)}]
    BY <1>5 DEF Folds
  <1>7. s # {}
    BY <1>4, <1>6
  <1>8. Some(s) \in s
    BY <1>7, SomeIn
  <1> DEFINE t == s \ {Some(s)}
  <1>9. t \in SUBSET E /\ Cardinality(t) \in Nat /\ Cardinality(t) < n
    BY <1>1, <1>4, <1>8, OneLess
  <1>10. g[t] # h[t]
    BY <1>4, <1>6, <1>7
  <1>11. Cardinality(t) \in T
    BY <1>9, <1>10
  <1>12. QED
    BY <1>3, <1>9, <1>11

LEMMA FoldsExists == ASSUME NEW f, NEW D, IsFiniteSet(D) PROVE \E h : Folds(h, f, D)
  <1> DEFINE Up(n) == {s \in SUBSET D : Cardinality(s) <= n}
             Good(h, n) == h = [s \in Up(n) |-> IF s = {} THEN 0 ELSE f[Some(s)] + h[s \ {Some(s)}]]
             T == {n \in Nat : ~ \E h : Good(h, n)}
  <1>1. \A s \in SUBSET D : IsFiniteSet(s) /\ Cardinality(s) \in Nat
    BY FS_Subset, FS_CardinalityType
  <1>2. ASSUME T # {} PROVE FALSE
    <2>1. PICK n \in T : \A m \in T : ~ (m < n)
      BY <1>2, Least
    <2>2. CASE n = 0
      <3>1. \A s \in Up(0) : s = {}
        BY <1>1, FS_EmptySet
      <3>2. Good([s \in Up(0) |-> 0], 0)
        BY <3>1
      <3>3. QED
        BY <2>1, <2>2, <3>2
    <2>3. CASE n # 0
      <3>1. n - 1 \in Nat /\ n - 1 < n
        BY <2>1, <2>3
      <3>2. n - 1 \notin T
        BY <2>1, <3>1
      <3>3. PICK h : Good(h, n - 1)
        BY <3>1, <3>2
      <3> DEFINE g == [s \in Up(n) |-> IF s = {} THEN 0 ELSE f[Some(s)] + h[s \ {Some(s)}]]
      <3>4. \A s \in Up(n - 1) : s \in Up(n) /\ g[s] = h[s]
        <4>1. SUFFICES ASSUME NEW s \in Up(n - 1) PROVE s \in Up(n) /\ g[s] = h[s]
          OBVIOUS
        <4>2. s \in Up(n)
          BY <1>1, <2>1, <3>1
        <4> HIDE DEF Up
        <4>3. h[s] = IF s = {} THEN 0 ELSE f[Some(s)] + h[s \ {Some(s)}]
          BY <3>3
        <4>4. QED
          BY <4>2, <4>3
      <3>5. \A s \in Up(n) : s # {} => s \ {Some(s)} \in Up(n - 1)
        <4>1. SUFFICES ASSUME NEW s \in Up(n), s # {} PROVE s \ {Some(s)} \in Up(n - 1)
          OBVIOUS
        <4>2. Some(s) \in s /\ IsFiniteSet(s)
          BY <1>1, <4>1, SomeIn
        <4>3. /\ Cardinality(s \ {Some(s)}) = Cardinality(s) - 1
              /\ Cardinality(s) \in Nat /\ Cardinality(s) <= n
          BY <4>1, <4>2, OneLess
        <4>4. QED
          BY <3>1, <4>3
      <3>6. \A s \in Up(n) : s # {} => g[s \ {Some(s)}] = h[s \ {Some(s)}]
        BY <3>4, <3>5
      <3>7. g = [s \in Up(n) |-> IF s = {} THEN 0 ELSE f[Some(s)] + g[s \ {Some(s)}]]
        <4> HIDE DEF Up
        <4>1. \A s \in Up(n) : g[s] = (IF s = {} THEN 0 ELSE f[Some(s)] + h[s \ {Some(s)}])
          OBVIOUS
        <4>2. \A s \in Up(n) : g[s] = (IF s = {} THEN 0 ELSE f[Some(s)] + g[s \ {Some(s)}])
          BY <3>6, <4>1
        <4>3. g = [s \in Up(n) |-> g[s]]
          OBVIOUS
        <4> HIDE DEF g
        <4>4. QED
          BY <4>2, <4>3
      <3>8. Good(g, n)
        BY <3>7
      <3>9. QED
        BY <2>1, <3>8
    <2>4. QED
      BY <2>2, <2>3
  <1>3. Cardinality(D) \in Nat
    BY FS_CardinalityType
  <1>4. \E h : Good(h, Cardinality(D))
    BY <1>2, <1>3
  <1>5. Up(Cardinality(D)) = SUBSET D
    <2>1. ASSUME NEW s \in SUBSET D PROVE Cardinality(s) <= Cardinality(D)
      BY FS_Subset
    <2>2. QED
      BY <2>1
  <1>6. QED
    BY <1>4, <1>5 DEF Folds

\* One element after the other.
LEMMA SumSteps ==
    ASSUME NEW f, NEW D, IsFiniteSet(D)
    PROVE  SumFunctionOnSet(f, D) =
              IF D = {} THEN 0 ELSE f[Some(D)] + SumFunctionOnSet(f, D \ {Some(D)})
  <1> DEFINE E == D \ {Some(D)}
             g == CHOOSE h : Folds(h, f, D)
             k == CHOOSE h : Folds(h, f, E)
  <1>1. IsFiniteSet(E) /\ E \in SUBSET D
    BY FS_Subset
  <1>2. Folds(g, f, D)
    BY FoldsExists
  <1>3. Folds(k, f, E)
    BY <1>1, FoldsExists
  <1>4. SumFunctionOnSet(f, D) = g[D] /\ SumFunctionOnSet(f, E) = k[E]
    BY SumIs
  <1> HIDE DEF g, k
  <1>5. g[D] = IF D = {} THEN 0 ELSE f[Some(D)] + g[E]
    BY <1>2 DEF Folds
  <1>6. g[E] = k[E]
    <2> HIDE DEF E
    <2>1. ASSUME NEW a, NEW F \in SUBSET D, Folds(a, f, F) PROVE g[F] = a[F]
      BY <1>2, <2>1, FoldsAgree
    <2>2. QED
      BY <1>1, <1>3, <2>1
  <1>7. QED
    BY <1>4, <1>5, <1>6

\* What a sum is made of.
LEMMA SumIn ==
    ASSUME NEW f, NEW D, IsFiniteSet(D), \A x \in D : f[x] \in Nat
    PROVE  \A s \in SUBSET D : SumFunctionOnSet(f, s) \in Nat
  <1> DEFINE T == {n \in Nat : \E s \in SUBSET D : Cardinality(s) = n
                                                  /\ SumFunctionOnSet(f, s) \notin Nat}
  <1>1. \A s \in SUBSET D : IsFiniteSet(s) /\ Cardinality(s) \in Nat
    BY FS_Subset, FS_CardinalityType
  <1>2. SUFFICES ASSUME T # {} PROVE FALSE
    BY <1>1
  <1>3. PICK n \in T : \A m \in T : ~ (m < n)
    BY <1>2, Least
  <1>4. PICK s \in SUBSET D : Cardinality(s) = n /\ SumFunctionOnSet(f, s) \notin Nat
    BY <1>3
  <1> DEFINE t == s \ {Some(s)}
  <1>5. SumFunctionOnSet(f, s) = IF s = {} THEN 0 ELSE f[Some(s)] + SumFunctionOnSet(f, t)
    BY <1>1, SumSteps
  <1>6. s # {} /\ Some(s) \in s
    BY <1>4, <1>5, SomeIn
  <1>7. t \in SUBSET D /\ Cardinality(t) \in Nat /\ Cardinality(t) < n
    BY <1>1, <1>4, <1>6, OneLess
  <1>8. SumFunctionOnSet(f, t) \in Nat
    BY <1>3, <1>7
  <1>9. QED
    BY <1>4, <1>5, <1>6, <1>8

\* Any element may be taken out.
LEMMA SumOut ==
    ASSUME NEW f, NEW D, IsFiniteSet(D), \A x \in D : f[x] \in Nat
    PROVE  \A s \in SUBSET D : \A x \in s :
              SumFunctionOnSet(f, s) = f[x] + SumFunctionOnSet(f, s \ {x})
  <1> DEFINE Bad(s) == \E x \in s : SumFunctionOnSet(f, s) # f[x] + SumFunctionOnSet(f, s \ {x})
             T == {n \in Nat : \E s \in SUBSET D : Cardinality(s) = n /\ Bad(s)}
  <1>1. \A s \in SUBSET D : IsFiniteSet(s) /\ Cardinality(s) \in Nat
    BY FS_Subset, FS_CardinalityType
  <1>2. SUFFICES ASSUME T # {} PROVE FALSE
    BY <1>1
  <1>3. PICK n \in T : \A m \in T : ~ (m < n)
    BY <1>2, Least
  <1>4. PICK s \in SUBSET D : Cardinality(s) = n /\ Bad(s)
    BY <1>3
  <1>5. PICK x \in s : SumFunctionOnSet(f, s) # f[x] + SumFunctionOnSet(f, s \ {x})
    BY <1>4
  <1> DEFINE y == Some(s)
  <1>6. y \in s /\ SumFunctionOnSet(f, s) = f[y] + SumFunctionOnSet(f, s \ {y})
    BY <1>1, <1>5, SumSteps, SomeIn
  <1>7. x # y
    BY <1>5, <1>6
  <1>8. \A z \in s : /\ s \ {z} \in SUBSET D /\ Cardinality(s \ {z}) \in Nat
                     /\ Cardinality(s \ {z}) < n
    BY <1>1, <1>4, OneLess
  <1>9. ~Bad(s \ {x}) /\ ~Bad(s \ {y})
    BY <1>3, <1>6, <1>8
  <1> HIDE DEF y
  <1>10. /\ SumFunctionOnSet(f, s \ {x}) = f[y] + SumFunctionOnSet(f, (s \ {x}) \ {y})
         /\ SumFunctionOnSet(f, s \ {y}) = f[x] + SumFunctionOnSet(f, (s \ {y}) \ {x})
    BY <1>6, <1>7, <1>9
  <1>11. (s \ {x}) \ {y} = (s \ {y}) \ {x}
    OBVIOUS
  <1>12. SumFunctionOnSet(f, (s \ {x}) \ {y}) \in Nat /\ f[x] \in Nat /\ f[y] \in Nat
    <2>1. (s \ {x}) \ {y} \in SUBSET D
      OBVIOUS
    <2>2. QED
      BY <1>6, <2>1, SumIn
  <1> DEFINE whole == SumFunctionOnSet(f, s)
             one == SumFunctionOnSet(f, s \ {x})
             other == SumFunctionOnSet(f, s \ {y})
             rest == SumFunctionOnSet(f, (s \ {x}) \ {y})
  <1>13. /\ whole = f[y] + other /\ one = f[y] + rest /\ other = f[x] + rest
         /\ rest \in Nat /\ f[x] \in Nat /\ f[y] \in Nat /\ whole # f[x] + one
    BY <1>5, <1>6, <1>10, <1>11, <1>12
  <1> HIDE DEF whole, one, other, rest
  <1>14. QED
    BY <1>13

LEMMA SumNone == ASSUME NEW f PROVE SumFunctionOnSet(f, {}) = 0
  BY SumSteps, FS_EmptySet

\* A set that two others cover has no greater a sum.
LEMMA SumCovered ==
    ASSUME NEW f, NEW D, IsFiniteSet(D), \A x \in D : f[x] \in Nat
    PROVE  \A s, t, u \in SUBSET D : s \subseteq t \cup u =>
              SumFunctionOnSet(f, s) <= SumFunctionOnSet(f, t) + SumFunctionOnSet(f, u)
  <1> DEFINE Sum(s) == SumFunctionOnSet(f, s)
             Bad(s) == \E t, u \in SUBSET D : s \subseteq t \cup u /\ ~ (Sum(s) <= Sum(t) + Sum(u))
             T == {n \in Nat : \E s \in SUBSET D : Cardinality(s) = n /\ Bad(s)}
  <1>1. \A s \in SUBSET D : IsFiniteSet(s) /\ Cardinality(s) \in Nat
    BY FS_Subset, FS_CardinalityType
  <1>2. /\ \A s \in SUBSET D : Sum(s) \in Nat
        /\ \A s \in SUBSET D : \A x \in s : Sum(s) = f[x] + Sum(s \ {x})
    BY SumIn, SumOut
  <1>3. Sum({}) = 0
    BY SumNone
  <1> HIDE DEF Sum
  <1>4. SUFFICES ASSUME T # {} PROVE FALSE
    BY <1>1 DEF Sum
  <1>5. PICK n \in T : \A m \in T : ~ (m < n)
    BY <1>4, Least
  <1>6. PICK s \in SUBSET D : Cardinality(s) = n /\ Bad(s)
    BY <1>5
  <1>7. PICK t, u \in SUBSET D : s \subseteq t \cup u /\ ~ (Sum(s) <= Sum(t) + Sum(u))
    BY <1>6
  <1>8. PICK x \in s : TRUE
    <2>1. s # {}
      BY <1>2, <1>3, <1>7
    <2>2. QED
      BY <2>1
  <1> DEFINE r == s \ {x}
  <1>9. r \in SUBSET D /\ ~Bad(r)
    <2>1. r \in SUBSET D /\ Cardinality(r) \in Nat /\ Cardinality(r) < n
      BY <1>1, <1>6, OneLess
    <2>2. QED
      BY <1>5, <2>1
  <1>10. Sum(s) = f[x] + Sum(r) /\ f[x] \in Nat /\ Sum(r) \in Nat
    BY <1>2, <1>9
  <1>11. ASSUME NEW v \in SUBSET D, NEW w \in SUBSET D, r \subseteq v \cup w
         PROVE  Sum(r) <= Sum(v) + Sum(w)
    BY <1>9, <1>11
  <1>12. CASE x \in t
    <2>1. Sum(t) = f[x] + Sum(t \ {x}) /\ Sum(t \ {x}) \in Nat /\ Sum(u) \in Nat
      BY <1>2, <1>12
    <2>2. Sum(r) <= Sum(t \ {x}) + Sum(u)
      BY <1>7, <1>11
    <2>3. QED
      BY <1>7, <1>10, <2>1, <2>2
  <1>13. CASE x \in u
    <2>1. Sum(u) = f[x] + Sum(u \ {x}) /\ Sum(u \ {x}) \in Nat /\ Sum(t) \in Nat
      BY <1>2, <1>13
    <2>2. Sum(r) <= Sum(t) + Sum(u \ {x})
      BY <1>7, <1>11
    <2>3. QED
      BY <1>7, <1>10, <2>1, <2>2
  <1>14. QED
    BY <1>7, <1>12, <1>13

\* Functions that agree have the same sum.
LEMMA SumSame ==
    ASSUME NEW f, NEW g, NEW D, IsFiniteSet(D)
    PROVE  \A s \in SUBSET D : (\A x \in s : f[x] = g[x]) =>
              SumFunctionOnSet(f, s) = SumFunctionOnSet(g, s)
  <1> DEFINE Bad(s) == (\A x \in s : f[x] = g[x]) /\ SumFunctionOnSet(f, s) # SumFunctionOnSet(g, s)
             T == {n \in Nat : \E s \in SUBSET D : Cardinality(s) = n /\ Bad(s)}
  <1>1. \A s \in SUBSET D : IsFiniteSet(s) /\ Cardinality(s) \in Nat
    BY FS_Subset, FS_CardinalityType
  <1>2. SUFFICES ASSUME T # {} PROVE FALSE
    BY <1>1
  <1>3. PICK n \in T : \A m \in T : ~ (m < n)
    BY <1>2, Least
  <1>4. PICK s \in SUBSET D : Cardinality(s) = n /\ Bad(s)
    BY <1>3
  <1> DEFINE t == s \ {Some(s)}
  <1>5. /\ SumFunctionOnSet(f, s) = IF s = {} THEN 0 ELSE f[Some(s)] + SumFunctionOnSet(f, t)
        /\ SumFunctionOnSet(g, s) = IF s = {} THEN 0 ELSE g[Some(s)] + SumFunctionOnSet(g, t)
    BY <1>1, SumSteps
  <1>6. s # {} /\ Some(s) \in s
    BY <1>4, <1>5, SomeIn
  <1>7. t \in SUBSET D /\ Cardinality(t) \in Nat /\ Cardinality(t) < n
    BY <1>1, <1>4, <1>6, OneLess
  <1>8. ~Bad(t)
    BY <1>3, <1>7
  <1>9. SumFunctionOnSet(f, t) = SumFunctionOnSet(g, t)
    BY <1>4, <1>8
  <1>10. QED
    BY <1>4, <1>5, <1>6, <1>9

\* A sum of nothing but zeros.
LEMMA SumZero ==
    ASSUME NEW f, NEW D, IsFiniteSet(D)
    PROVE  \A s \in SUBSET D : (\A x \in s : f[x] = 0) => SumFunctionOnSet(f, s) = 0
  <1> DEFINE Bad(s) == (\A x \in s : f[x] = 0) /\ SumFunctionOnSet(f, s) # 0
             T == {n \in Nat : \E s \in SUBSET D : Cardinality(s) = n /\ Bad(s)}
  <1>1. \A s \in SUBSET D : IsFiniteSet(s) /\ Cardinality(s) \in Nat
    BY FS_Subset, FS_CardinalityType
  <1>2. SUFFICES ASSUME T # {} PROVE FALSE
    BY <1>1
  <1>3. PICK n \in T : \A m \in T : ~ (m < n)
    BY <1>2, Least
  <1>4. PICK s \in SUBSET D : Cardinality(s) = n /\ Bad(s)
    BY <1>3
  <1> DEFINE t == s \ {Some(s)}
  <1>5. SumFunctionOnSet(f, s) = IF s = {} THEN 0 ELSE f[Some(s)] + SumFunctionOnSet(f, t)
    BY <1>1, SumSteps
  <1>6. s # {} /\ Some(s) \in s
    BY <1>4, <1>5, SomeIn
  <1>7. t \in SUBSET D /\ Cardinality(t) \in Nat /\ Cardinality(t) < n
    BY <1>1, <1>4, <1>6, OneLess
  <1>8. ~Bad(t)
    BY <1>3, <1>7
  <1>9. SumFunctionOnSet(f, t) = 0
    BY <1>4, <1>8
  <1>10. f[Some(s)] = 0
    BY <1>4, <1>6
  <1>11. QED
    BY <1>4, <1>5, <1>6, <1>9, <1>10

\* One more at x is one more in every sum that has x.
LEMMA SumBumped ==
    ASSUME NEW D, IsFiniteSet(D), NEW f, NEW g, NEW x \in D,
           \A y \in D : f[y] \in Nat /\ g[y] \in Nat,
           g[x] = f[x] + 1, \A y \in D : y # x => f[y] = g[y]
    PROVE  \A s \in SUBSET D : SumFunctionOnSet(g, s) =
              IF x \in s THEN SumFunctionOnSet(f, s) + 1 ELSE SumFunctionOnSet(f, s)
  <1>1. ASSUME NEW s \in SUBSET D, x \notin s PROVE SumFunctionOnSet(g, s) = SumFunctionOnSet(f, s)
    <2>1. \A y \in s : f[y] = g[y]
      BY <1>1
    <2>2. QED
      BY <2>1, SumSame
  <1>2. ASSUME NEW s \in SUBSET D, x \in s PROVE SumFunctionOnSet(g, s) = SumFunctionOnSet(f, s) + 1
    <2> DEFINE a == SumFunctionOnSet(g, s)
               b == SumFunctionOnSet(f, s)
               c == SumFunctionOnSet(f, s \ {x})
    <2>1. a = g[x] + SumFunctionOnSet(g, s \ {x})
      BY <1>2, SumOut
    <2>2. b = f[x] + c
      BY <1>2, SumOut
    <2>3. SumFunctionOnSet(g, s \ {x}) = c
      BY <1>1
    <2>4. c \in Nat
      BY SumIn
    <2> HIDE DEF a, b, c
    <2>5. a = b + 1
      BY <2>1, <2>2, <2>3, <2>4
    <2>6. QED
      BY <2>5 DEF a, b
  <1>3. QED
    BY <1>1, <1>2

\* The sum of two sets that share nothing.
LEMMA SumUnion ==
    ASSUME NEW f, NEW D, IsFiniteSet(D), \A x \in D : f[x] \in Nat
    PROVE  \A s, t \in SUBSET D : s \cap t = {} =>
              SumFunctionOnSet(f, s \cup t) = SumFunctionOnSet(f, s) + SumFunctionOnSet(f, t)
  <1> DEFINE Sum(s) == SumFunctionOnSet(f, s)
             Bad(s) == \E t \in SUBSET D : s \cap t = {} /\ Sum(s \cup t) # Sum(s) + Sum(t)
             T == {n \in Nat : \E s \in SUBSET D : Cardinality(s) = n /\ Bad(s)}
  <1>1. \A s \in SUBSET D : IsFiniteSet(s) /\ Cardinality(s) \in Nat
    BY FS_Subset, FS_CardinalityType
  <1>2. /\ \A s \in SUBSET D : Sum(s) \in Nat
        /\ \A s \in SUBSET D : \A x \in s : Sum(s) = f[x] + Sum(s \ {x})
    BY SumIn, SumOut
  <1>3. Sum({}) = 0
    BY SumNone
  <1> HIDE DEF Sum
  <1>4. SUFFICES ASSUME T # {} PROVE FALSE
    BY <1>1 DEF Sum
  <1>5. PICK n \in T : \A m \in T : ~ (m < n)
    BY <1>4, Least
  <1>6. PICK s \in SUBSET D : Cardinality(s) = n /\ Bad(s)
    BY <1>5
  <1>7. PICK t \in SUBSET D : s \cap t = {} /\ Sum(s \cup t) # Sum(s) + Sum(t)
    BY <1>6
  <1>8. CASE s = {}
    <2>1. s \cup t = t /\ Sum(t) \in Nat
      BY <1>2, <1>8
    <2>2. QED
      BY <1>3, <1>7, <1>8, <2>1
  <1>9. CASE s # {}
    <2>1. PICK x \in s : TRUE
      BY <1>9
    <2> DEFINE r == s \ {x}
    <2>2. r \in SUBSET D /\ ~Bad(r)
      <3>1. r \in SUBSET D /\ Cardinality(r) \in Nat /\ Cardinality(r) < n
        BY <1>1, <1>6, OneLess
      <3>2. QED
        BY <1>5, <3>1
    <2>3. Sum(r \cup t) = Sum(r) + Sum(t)
      BY <1>7, <2>2
    <2>4. /\ s \cup t \in SUBSET D /\ x \in s \cup t /\ (s \cup t) \ {x} = r \cup t
      BY <1>7, <2>1
    <2>5. Sum(s \cup t) = f[x] + Sum(r \cup t) /\ Sum(s) = f[x] + Sum(r) /\ f[x] \in Nat
      BY <1>2, <2>1, <2>4
    <2>6. Sum(r) \in Nat /\ Sum(t) \in Nat
      BY <1>2, <2>2
    <2>7. QED
      BY <1>7, <2>3, <2>5, <2>6
  <1>10. QED
    BY <1>8, <1>9

LEMMA SumSubset ==
    ASSUME NEW f, NEW D, IsFiniteSet(D), \A x \in D : f[x] \in Nat
    PROVE  \A t \in SUBSET D : \A s \in SUBSET t :
              SumFunctionOnSet(f, s) <= SumFunctionOnSet(f, t)
  <1> SUFFICES ASSUME NEW t \in SUBSET D, NEW s \in SUBSET t
               PROVE  SumFunctionOnSet(f, s) <= SumFunctionOnSet(f, t)
    OBVIOUS
  <1>1. /\ s \in SUBSET D /\ t \ s \in SUBSET D /\ s \cap (t \ s) = {} /\ s \cup (t \ s) = t
    OBVIOUS
  <1>2. SumFunctionOnSet(f, s) \in Nat /\ SumFunctionOnSet(f, t \ s) \in Nat
    BY <1>1, SumIn
  <1>3. SumFunctionOnSet(f, s \cup (t \ s)) = SumFunctionOnSet(f, s) + SumFunctionOnSet(f, t \ s)
    BY <1>1, SumUnion
  <1> DEFINE a == SumFunctionOnSet(f, s)
             b == SumFunctionOnSet(f, t \ s)
             c == SumFunctionOnSet(f, t)
  <1>4. c = a + b /\ a \in Nat /\ b \in Nat
    BY <1>1, <1>2, <1>3
  <1> HIDE DEF a, b, c
  <1>5. a <= c
    BY <1>4
  <1>6. QED
    BY <1>5 DEF a, c

LEMMA SumElement ==
    ASSUME NEW f, NEW D, IsFiniteSet(D), \A x \in D : f[x] \in Nat
    PROVE  \A s \in SUBSET D : \A x \in s : f[x] <= SumFunctionOnSet(f, s)
  <1> SUFFICES ASSUME NEW s \in SUBSET D, NEW x \in s PROVE f[x] <= SumFunctionOnSet(f, s)
    OBVIOUS
  <1> DEFINE a == SumFunctionOnSet(f, s)
             b == SumFunctionOnSet(f, s \ {x})
  <1>1. a = f[x] + b
    BY SumOut
  <1>2. b \in Nat /\ f[x] \in Nat
    BY SumIn
  <1> HIDE DEF a, b
  <1>3. f[x] <= a
    BY <1>1, <1>2
  <1>4. QED
    BY <1>3 DEF a

\* A sum of greater numbers is greater.
LEMMA SumMonotone ==
    ASSUME NEW f, NEW g, NEW D, IsFiniteSet(D),
           \A x \in D : f[x] \in Nat /\ g[x] \in Nat /\ f[x] <= g[x]
    PROVE  \A s \in SUBSET D : SumFunctionOnSet(f, s) <= SumFunctionOnSet(g, s)
  <1> DEFINE F(s) == SumFunctionOnSet(f, s)
             G(s) == SumFunctionOnSet(g, s)
             T == {n \in Nat : \E s \in SUBSET D : Cardinality(s) = n /\ ~ (F(s) <= G(s))}
  <1>1. \A s \in SUBSET D : IsFiniteSet(s) /\ Cardinality(s) \in Nat
    BY FS_Subset, FS_CardinalityType
  <1>2. /\ \A s \in SUBSET D : F(s) \in Nat /\ G(s) \in Nat
        /\ \A s \in SUBSET D : \A x \in s : F(s) = f[x] + F(s \ {x}) /\ G(s) = g[x] + G(s \ {x})
    BY SumIn, SumOut
  <1>3. F({}) = 0 /\ G({}) = 0
    BY SumNone
  <1> HIDE DEF F, G
  <1>4. SUFFICES ASSUME T # {} PROVE FALSE
    BY <1>1 DEF F, G
  <1>5. PICK n \in T : \A m \in T : ~ (m < n)
    BY <1>4, Least
  <1>6. PICK s \in SUBSET D : Cardinality(s) = n /\ ~ (F(s) <= G(s))
    BY <1>5
  <1>7. PICK x \in s : TRUE
    BY <1>3, <1>6
  <1> DEFINE r == s \ {x}
  <1>8. r \in SUBSET D /\ F(r) <= G(r)
    <2>1. r \in SUBSET D /\ Cardinality(r) \in Nat /\ Cardinality(r) < n
      BY <1>1, <1>6, OneLess
    <2>2. QED
      BY <1>5, <2>1
  <1>9. /\ F(s) = f[x] + F(r) /\ G(s) = g[x] + G(r) /\ F(r) \in Nat /\ G(r) \in Nat
        /\ f[x] \in Nat /\ g[x] \in Nat /\ f[x] <= g[x]
    BY <1>2, <1>8
  <1>10. QED
    BY <1>6, <1>8, <1>9

\* The sums of groups, one for each key, add up to the sum of all that have a key.
Grouped(f, D, key, K, g) ==
    \A k \in K : g[k] = SumFunctionOnSet(f, {x \in D : key[x] = k})

LEMMA SumGroups ==
    ASSUME NEW f, NEW D, IsFiniteSet(D), \A x \in D : f[x] \in Nat,
           NEW key, NEW K, IsFiniteSet(K), NEW g, Grouped(f, D, key, K, g)
    PROVE  \A s \in SUBSET K : SumFunctionOnSet(g, s) = SumFunctionOnSet(f, {x \in D : key[x] \in s})
  <1> DEFINE Sum(s) == SumFunctionOnSet(f, s)
             All(s) == {x \in D : key[x] \in s}
             G(s) == SumFunctionOnSet(g, s)
             T == {n \in Nat : \E s \in SUBSET K : Cardinality(s) = n /\ G(s) # Sum(All(s))}
  <1>1. \A s \in SUBSET K : IsFiniteSet(s) /\ Cardinality(s) \in Nat
    BY FS_Subset, FS_CardinalityType
  <1>2. \A k \in K : g[k] \in Nat /\ g[k] = Sum(All({k}))
    <2>1. ASSUME NEW k \in K PROVE g[k] \in Nat /\ g[k] = Sum(All({k}))
      <3>1. All({k}) = {x \in D : key[x] = k} /\ All({k}) \in SUBSET D
        OBVIOUS
      <3>2. Sum(All({k})) \in Nat
        BY <3>1, SumIn
      <3>3. QED
        BY <3>1, <3>2 DEF Grouped
    <2>2. QED
      BY <2>1
  <1>3. \A s \in SUBSET K : \A k \in s : G(s) = g[k] + G(s \ {k})
    <2>1. \A k \in K : g[k] \in Nat
      BY <1>2
    <2> HIDE DEF Sum, All
    <2>2. QED
      BY <2>1, SumOut
  <1>4. \A s, t \in SUBSET D : s \cap t = {} => Sum(s \cup t) = Sum(s) + Sum(t)
    BY SumUnion
  <1>5. All({}) = {} /\ Sum({}) = 0 /\ G({}) = 0
    BY SumNone
  <1>6. \A s : All(s) \in SUBSET D
    OBVIOUS
  <1>7. \A s : \A k \in s : All({k}) \cap All(s \ {k}) = {} /\ All({k}) \cup All(s \ {k}) = All(s)
    OBVIOUS
  <1> HIDE DEF Sum, All, G
  <1>8. SUFFICES ASSUME T # {} PROVE FALSE
    BY <1>1 DEF Sum, G, All
  <1>9. PICK n \in T : \A m \in T : ~ (m < n)
    BY <1>8, Least
  <1>10. PICK s \in SUBSET K : Cardinality(s) = n /\ G(s) # Sum(All(s))
    BY <1>9
  <1>11. s # {}
    BY <1>5, <1>10
  <1>12. PICK k \in s : TRUE
    BY <1>11
  <1> DEFINE r == s \ {k}
  <1>13. r \in SUBSET K /\ G(r) = Sum(All(r))
    <2>1. r \in SUBSET K /\ Cardinality(r) \in Nat /\ Cardinality(r) < n
      BY <1>1, <1>10, OneLess
    <2>2. QED
      BY <1>9, <2>1
  <1>14. G(s) = g[k] + G(r)
    BY <1>3
  <1>15. Sum(All(s)) = Sum(All({k})) + Sum(All(r))
    <2>1. All({k}) \in SUBSET D /\ All(r) \in SUBSET D
      BY <1>6
    <2>2. All({k}) \cap All(r) = {} /\ All({k}) \cup All(r) = All(s)
      BY <1>7
    <2> HIDE DEF r
    <2>3. Sum(All({k}) \cup All(r)) = Sum(All({k})) + Sum(All(r))
      BY <1>4, <2>1, <2>2
    <2>4. QED
      BY <2>2, <2>3
  <1>16. QED
    BY <1>2, <1>10, <1>13, <1>14, <1>15

-----------------------------------------------------------------------------
(* Days, hours and other multiples. *)

LEMMA Divides == ASSUME NEW D \in Nat \ {0}, NEW t \in Nat PROVE t = D * (t \div D) + (t % D)
  OBVIOUS

LEMMA Quotient == ASSUME NEW D \in Nat \ {0}, NEW t \in Nat PROVE t \div D \in Nat /\ t % D \in 0..D - 1
  <1>1. t \div D \in Nat
    OBVIOUS
  <1>2. t % D \in 0..D - 1
    OBVIOUS
  <1>3. QED
    BY <1>1, <1>2

LEMMA Product == ASSUME NEW D \in Nat \ {0}, NEW q \in Nat PROVE (D * q) % D = 0
  OBVIOUS

\* No greater multiple fits in.
LEMMA Fits ==
    ASSUME NEW D \in Nat \ {0}, NEW q \in Nat, NEW r \in 0..D - 1, NEW k \in Nat
    PROVE  D * k <= D * q + r <=> k <= q
  <1>1. ASSUME k <= q PROVE D * k <= D * q + r
    BY <1>1
  <1>2. ASSUME k > q PROVE D * k > D * q + r
    <2>1. k >= q + 1
      BY <1>2
    <2>2. D * k >= D * (q + 1)
      BY <2>1
    <2>3. D * (q + 1) = D * q + D
      OBVIOUS
    <2>4. D * k \in Nat /\ D * q \in Nat
      OBVIOUS
    <2>5. QED
      BY <2>2, <2>3, <2>4
  <1>3. D * k \in Nat /\ D * q \in Nat
    OBVIOUS
  <1>4. QED
    BY <1>1, <1>2, <1>3

LEMMA Floor ==
    ASSUME NEW D \in Nat \ {0}, NEW t \in Nat
    PROVE  /\ t - (t % D) \in Nat /\ t - (t % D) <= t /\ (t - (t % D)) % D = 0
           /\ \A m \in Nat : m % D = 0 => (m <= t - (t % D) <=> m <= t)
  <1> DEFINE q == t \div D
             r == t % D
  <1>1. q \in Nat /\ r \in 0..D - 1 /\ t = D * q + r
    BY Divides, Quotient
  <1> HIDE DEF q, r
  <1>2. D * q \in Nat /\ (D * q) % D = 0
    BY <1>1, Product
  <1>3. t - r = D * q
    BY <1>1, <1>2
  <1>4. ASSUME NEW m \in Nat, m % D = 0 PROVE m <= D * q <=> m <= t
    <2> DEFINE k == m \div D
    <2>1. m = D * k /\ k \in Nat
      <3>1. m = D * k + 0 /\ k \in Nat
        BY <1>4, Divides, Quotient
      <3>2. QED
        BY <3>1
    <2> HIDE DEF k
    <2>2. D * k <= D * q + r <=> k <= q
      BY <1>1, <2>1, Fits
    <2>3. D * k <= D * q + 0 <=> k <= q
      <3>1. 0 \in 0..D - 1
        OBVIOUS
      <3>2. QED
        BY <1>1, <2>1, <3>1, Fits
    <2>4. QED
      BY <1>1, <1>2, <2>1, <2>2, <2>3
  <1>5. QED
    <2>1. t - r \in Nat /\ t - r <= t
      BY <1>1, <1>2, <1>3
    <2>2. (t - r) % D = 0
      BY <1>2, <1>3
    <2>3. \A m \in Nat : m % D = 0 => (m <= t - r <=> m <= t)
      BY <1>3, <1>4
    <2>4. QED
      BY <2>1, <2>2, <2>3 DEF r

-----------------------------------------------------------------------------
(* Traffic: rows by time. *)

LEMMA TrafficConstants ==
    /\ IsFiniteSet(Users) /\ HourLen \in Nat /\ HourLen > 0 /\ DayLen \in Nat /\ DayLen > 0
    /\ Default \in Retentions /\ Retentions \subseteq [minute : Nat \ {0}, hour : Nat \ {0}]
    /\ MaxTime \in Nat /\ MaxBytes \in Nat /\ MaxEvents \in Nat
    /\ IsFiniteSet(Time) /\ Time \subseteq Nat /\ 0 \in Time /\ Hours \subseteq Time /\ Days \subseteq Time
  <1>1. IsFiniteSet(Time)
    BY TrafficAssumption, FS_Interval DEF Time
  <1>2. QED
    BY <1>1, TrafficAssumption DEF Time, Hours, Days

LEMMA RowIs ==
    ASSUME NEW S, NEW r
    PROVE  r \in Rows(S) <=> /\ DOMAIN r \subseteq S /\ r = [t \in DOMAIN r |-> r[t]]
                             /\ \A t \in DOMAIN r : r[t] \in Nat
  <1>1. ASSUME r \in Rows(S)
        PROVE  /\ DOMAIN r \subseteq S /\ r = [t \in DOMAIN r |-> r[t]]
               /\ \A t \in DOMAIN r : r[t] \in Nat
    <2>1. PICK ts \in SUBSET S : r \in [ts -> Nat]
      BY <1>1 DEF Rows
    <2>2. QED
      BY <2>1
  <1>2. ASSUME DOMAIN r \subseteq S, r = [t \in DOMAIN r |-> r[t]], \A t \in DOMAIN r : r[t] \in Nat
        PROVE  r \in Rows(S)
    <2>1. r \in [DOMAIN r -> Nat]
      BY <1>2
    <2>2. QED
      BY <1>2, <2>1 DEF Rows
  <1>3. QED
    BY <1>1, <1>2

\* What the rows of some times add up to.
Within(r, s) == SumFunctionOnSet(r, DOMAIN r \cap s)

LEMMA RowSums ==
    ASSUME NEW r \in Rows(Time)
    PROVE  /\ IsFiniteSet(DOMAIN r)
           /\ \A t \in DOMAIN r : r[t] \in Nat /\ r[t] <= SumFunction(r) /\ t \in Time
           /\ \A s : Within(r, s) \in Nat /\ Within(r, s) <= SumFunction(r)
           /\ SumFunction(r) \in Nat
           /\ \A s : DOMAIN r \subseteq s => Within(r, s) = SumFunction(r)
  <1>1. /\ DOMAIN r \in SUBSET Time /\ IsFiniteSet(Time)
        /\ \A t \in DOMAIN r : r[t] \in Nat
    BY RowIs, TrafficConstants
  <1>2. IsFiniteSet(DOMAIN r)
    BY <1>1, FS_Subset
  <1> DEFINE D == DOMAIN r
  <1>3. D \in SUBSET D /\ \A s : D \cap s \in SUBSET D
    OBVIOUS
  <1>4. \A s \in SUBSET D : SumFunctionOnSet(r, s) \in Nat
    BY <1>1, <1>2, SumIn
  <1>5. \A s \in SUBSET D : SumFunctionOnSet(r, s) <= SumFunctionOnSet(r, D)
    BY <1>1, <1>2, <1>3, SumSubset
  <1>6. \A t \in D : r[t] <= SumFunctionOnSet(r, D)
    BY <1>1, <1>2, <1>3, SumElement
  <1>7. \A s : D \subseteq s => D \cap s = D
    OBVIOUS
  <1>8. QED
    BY <1>1, <1>2, <1>3, <1>4, <1>5, <1>6, <1>7 DEF Within, SumFunction

\* One more row, or an addition to one.
LEMMA PlusRow ==
    ASSUME NEW S \in SUBSET Time, NEW r \in Rows(S), NEW k \in S, NEW n \in Nat
    PROVE  /\ Plus(r, k, n) \in Rows(S) /\ DOMAIN Plus(r, k, n) = DOMAIN r \cup {k}
           /\ \A t \in DOMAIN r : t # k => Plus(r, k, n)[t] = r[t]
  <1> DEFINE p == Plus(r, k, n)
             D == DOMAIN r
             E == D \cup {k}
  <1>1. D \subseteq S /\ \A t \in D : r[t] \in Nat
    BY RowIs
  <1>2. DOMAIN p = E /\ p[k] = (IF k \in D THEN r[k] + n ELSE n) /\ \A t \in D : t # k => p[t] = r[t]
    BY DEF Plus
  <1>3. /\ \A t \in E : p[t] \in Nat
        /\ p = [t \in E |-> p[t]]
    BY <1>1, <1>2 DEF Plus
  <1> HIDE DEF p
  <1>4. p \in Rows(S)
    BY <1>1, <1>2, <1>3, RowIs
  <1>5. QED
    BY <1>2, <1>4 DEF p

LEMMA PlusSums ==
    ASSUME NEW r \in Rows(Time), NEW k \in Time, NEW n \in Nat
    PROVE  /\ Plus(r, k, n)[k] = Within(r, {k}) + n
           /\ \A s : Within(Plus(r, k, n), s) = IF k \in s THEN Within(r, s) + n ELSE Within(r, s)
           /\ SumFunction(Plus(r, k, n)) = SumFunction(r) + n
  <1> DEFINE p == Plus(r, k, n)
             D == DOMAIN r
             E == D \cup {k}
  <1>1. D \subseteq Time /\ \A t \in D : r[t] \in Nat
    BY RowIs
  <1>2. DOMAIN p = E /\ p[k] = (IF k \in D THEN r[k] + n ELSE n) /\ \A t \in D : t # k => p[t] = r[t]
    BY DEF Plus
  <1>3. \A t \in E : p[t] \in Nat
    BY <1>1, <1>2 DEF Plus
  <1> HIDE DEF p
  <1>4. IsFiniteSet(E) /\ IsFiniteSet(D)
    <2>1. E \subseteq Time
      BY <1>1
    <2>2. QED
      BY <2>1, FS_Subset, TrafficConstants
  <1>5. \A s : Within(r, s) \in Nat
    BY RowSums
  \* Without k nothing has changed.
  <1>6. ASSUME NEW s, s \subseteq D, k \notin s
        PROVE  SumFunctionOnSet(p, s) = SumFunctionOnSet(r, s) /\ SumFunctionOnSet(r, s) \in Nat
    <2>1. \A t \in s : r[t] = p[t]
      BY <1>2, <1>6
    <2>2. SumFunctionOnSet(r, s) = SumFunctionOnSet(p, s)
      BY <1>4, <1>6, <2>1, SumSame
    <2>3. SumFunctionOnSet(r, s) \in Nat
      BY <1>1, <1>4, <1>6, SumIn
    <2>4. QED
      BY <2>2, <2>3
  <1>7. ASSUME NEW s, k \notin s PROVE Within(p, s) = Within(r, s)
    <2>1. E \cap s = D \cap s /\ D \cap s \subseteq D /\ k \notin D \cap s
      BY <1>7
    <2>2. QED
      BY <1>2, <1>6, <2>1 DEF Within
  <1>8. ASSUME NEW s, k \in s PROVE Within(p, s) = Within(r, s) + n
    <2> DEFINE rest == (D \cap s) \ {k}
               a == SumFunctionOnSet(r, rest)
    <2>1. rest \subseteq D /\ k \notin rest /\ rest = (E \cap s) \ {k} /\ k \in E \cap s /\ E \cap s \in SUBSET E
      BY <1>8
    <2>2. SumFunctionOnSet(p, rest) = a /\ a \in Nat
      BY <1>6, <2>1
    <2>3. Within(p, s) = p[k] + a
      <3>1. SumFunctionOnSet(p, E \cap s) = p[k] + SumFunctionOnSet(p, (E \cap s) \ {k})
        <4>1. \A t \in E : p[t] \in Nat
          BY <1>3
        <4>2. QED
          BY <1>4, <2>1, <4>1, SumOut
      <3>2. QED
        BY <1>2, <2>1, <2>2, <3>1 DEF Within
    <2>4. CASE k \in D
      <3>1. Within(r, s) = r[k] + a
        <4>1. D \cap s \in SUBSET D /\ k \in D \cap s
          BY <1>8, <2>4
        <4>2. QED
          BY <1>1, <1>4, <4>1, SumOut DEF Within
      <3>2. r[k] \in Nat
        BY <1>1, <2>4
      <3> HIDE DEF a
      <3>3. QED
        BY <1>2, <2>2, <2>3, <2>4, <3>1, <3>2
    <2>5. CASE k \notin D
      <3>1. D \cap s = rest
        BY <2>5
      <3>2. Within(r, s) = a
        BY <3>1 DEF Within
      <3> HIDE DEF a
      <3>3. QED
        BY <1>2, <2>2, <2>3, <2>5, <3>2
    <2>6. QED
      BY <2>4, <2>5
  <1>9. p[k] = Within(r, {k}) + n
    <2>1. CASE k \in D
      <3>1. D \cap {k} = {k} /\ {k} \in SUBSET D /\ {k} \ {k} = {}
        BY <2>1
      <3>2. SumFunctionOnSet(r, {k}) = r[k] + SumFunctionOnSet(r, {k} \ {k})
        BY <1>1, <1>4, <3>1, SumOut
      <3>3. Within(r, {k}) = r[k] + 0
        BY <3>1, <3>2, SumNone DEF Within
      <3>4. QED
        BY <1>1, <1>2, <2>1, <3>3
    <2>2. CASE k \notin D
      <3>1. D \cap {k} = {}
        BY <2>2
      <3>2. Within(r, {k}) = 0
        BY <3>1, SumNone DEF Within
      <3>3. QED
        BY <1>2, <2>2, <3>2
    <2>3. QED
      BY <2>1, <2>2
  <1>10. SumFunction(p) = SumFunction(r) + n
    <2>1. Within(p, E) = SumFunction(p) /\ Within(r, E) = SumFunction(r)
      <3>1. E \cap E = E /\ D \cap E = D
        OBVIOUS
      <3>2. QED
        BY <1>2, <3>1 DEF Within, SumFunction
    <2>2. Within(p, E) = Within(r, E) + n
      BY <1>8
    <2>3. QED
      BY <2>1, <2>2
  <1>11. QED
    BY <1>7, <1>8, <1>9, <1>10 DEF p

LEMMA OneRow == ASSUME NEW r \in Rows(Time), NEW k \in DOMAIN r PROVE Within(r, {k}) = r[k]
  <1> DEFINE D == DOMAIN r
  <1>1. IsFiniteSet(D) /\ \A t \in D : r[t] \in Nat
    BY RowSums
  <1>2. D \cap {k} = {k} /\ {k} \in SUBSET D /\ {k} \ {k} = {} /\ k \in {k}
    OBVIOUS
  <1>3. SumFunctionOnSet(r, {k}) = r[k] + SumFunctionOnSet(r, {k} \ {k})
    BY <1>1, <1>2, SumOut
  <1>4. Within(r, {k}) = r[k] + 0
    BY <1>2, <1>3, SumNone DEF Within
  <1>5. QED
    BY <1>1, <1>4

\* Some of the rows.
LEMMA RestrictRow ==
    ASSUME NEW S \in SUBSET Time, NEW r \in Rows(S), NEW s \in SUBSET (DOMAIN r)
    PROVE  /\ Restrict(r, s) \in Rows(S) /\ DOMAIN Restrict(r, s) = s
           /\ \A t \in s : Restrict(r, s)[t] = r[t]
           /\ \A v : Within(Restrict(r, s), v) = Within(r, s \cap v)
           /\ SumFunction(Restrict(r, s)) = Within(r, s)
  <1> DEFINE p == Restrict(r, s)
             D == DOMAIN r
  <1>1. D \subseteq S /\ \A t \in D : r[t] \in Nat
    BY RowIs
  <1>2. DOMAIN p = s /\ \A t \in s : p[t] = r[t]
    BY DEF Restrict
  <1>3. p \in Rows(S)
    <2>1. p = [t \in DOMAIN p |-> p[t]]
      BY DEF Restrict
    <2> HIDE DEF p
    <2>2. QED
      BY <1>1, <1>2, <2>1, RowIs
  <1>4. IsFiniteSet(D)
    <2>1. D \subseteq Time
      BY <1>1
    <2>2. QED
      BY <2>1, FS_Subset, TrafficConstants
  <1> HIDE DEF p
  <1>5. \A v : v \subseteq s => SumFunctionOnSet(p, v) = SumFunctionOnSet(r, v)
    <2>1. SUFFICES ASSUME NEW v, v \subseteq s PROVE SumFunctionOnSet(p, v) = SumFunctionOnSet(r, v)
      OBVIOUS
    <2>2. \A t \in v : r[t] = p[t]
      BY <1>2, <2>1
    <2>3. v \in SUBSET D
      BY <2>1
    <2>4. QED
      BY <1>4, <2>2, <2>3, SumSame
  <1>6. \A v : Within(p, v) = Within(r, s \cap v)
    <2>1. SUFFICES ASSUME NEW v PROVE Within(p, v) = Within(r, s \cap v)
      OBVIOUS
    <2>2. D \cap (s \cap v) = s \cap v /\ s \cap v \subseteq s
      OBVIOUS
    <2>3. QED
      BY <1>2, <1>5, <2>2 DEF Within
  <1>7. SumFunction(p) = Within(r, s)
    <2>1. D \cap s = s
      OBVIOUS
    <2>2. QED
      BY <1>2, <1>5, <2>1 DEF Within, SumFunction
  <1>8. QED
    BY <1>2, <1>3, <1>6, <1>7 DEF p

\* Rows in the place of others.
LEMMA OverRow ==
    ASSUME NEW S \in SUBSET Time, NEW new \in Rows(S), NEW old \in Rows(S)
    PROVE  /\ Over(new, old) \in Rows(S)
           /\ \A t \in DOMAIN Over(new, old) :
                 \/ t \in DOMAIN new /\ Over(new, old)[t] = new[t]
                 \/ t \in DOMAIN old /\ Over(new, old)[t] = old[t]
           /\ SumFunction(Over(new, old)) <= SumFunction(new) + SumFunction(old)
  <1> DEFINE p == Over(new, old)
             N == DOMAIN new
             O == DOMAIN old
             R == O \ N
  <1>1. /\ N \subseteq S /\ (\A t \in N : new[t] \in Nat)
        /\ O \subseteq S /\ (\A t \in O : old[t] \in Nat)
    BY RowIs
  <1>2. /\ DOMAIN p = N \cup R /\ p = [t \in DOMAIN p |-> p[t]]
        /\ (\A t \in N : p[t] = new[t]) /\ (\A t \in R : p[t] = old[t])
    BY DEF Over
  <1> HIDE DEF p
  <1>3. p \in Rows(S) /\ \A t \in N \cup R : p[t] \in Nat
    BY <1>1, <1>2, RowIs
  <1>4. IsFiniteSet(N \cup R) /\ IsFiniteSet(N) /\ IsFiniteSet(O)
    <2>1. N \cup R \subseteq Time /\ N \subseteq Time /\ O \subseteq Time
      BY <1>1
    <2>2. QED
      BY <2>1, FS_Subset, TrafficConstants
  <1>5. SumFunctionOnSet(p, N) = SumFunctionOnSet(new, N)
    <2>1. \A t \in N : new[t] = p[t]
      BY <1>2
    <2>2. QED
      BY <1>4, <2>1, SumSame
  <1>6. SumFunctionOnSet(p, R) = SumFunctionOnSet(old, R)
    <2>1. (\A t \in R : old[t] = p[t]) /\ R \in SUBSET O
      BY <1>2
    <2>2. QED
      BY <1>4, <2>1, SumSame
  <1>7. SumFunctionOnSet(old, R) <= SumFunctionOnSet(old, O) /\ SumFunctionOnSet(old, R) \in Nat
        /\ SumFunctionOnSet(old, O) \in Nat
    <2>1. R \in SUBSET O /\ O \in SUBSET O /\ \A t \in O : old[t] \in Nat
      BY <1>1
    <2>2. QED
      BY <1>4, <2>1, SumSubset, SumIn
  <1>8. SumFunctionOnSet(p, N \cup R) = SumFunctionOnSet(p, N) + SumFunctionOnSet(p, R)
    <2>1. N \in SUBSET (N \cup R) /\ R \in SUBSET (N \cup R) /\ N \cap R = {} /\ \A t \in N \cup R : p[t] \in Nat
      BY <1>3
    <2>2. QED
      BY <1>4, <2>1, SumUnion
  <1>9. SumFunctionOnSet(new, N) \in Nat
    BY <1>1, <1>4, SumIn
  <1>10. SumFunction(p) <= SumFunction(new) + SumFunction(old)
    <2> DEFINE a == SumFunctionOnSet(new, N)
               b == SumFunctionOnSet(old, R)
               c == SumFunctionOnSet(old, O)
               d == SumFunctionOnSet(p, N \cup R)
    <2>1. d = a + b /\ b <= c /\ a \in Nat /\ b \in Nat /\ c \in Nat
      BY <1>5, <1>6, <1>7, <1>8, <1>9
    <2>2. SumFunction(p) = d /\ SumFunction(new) = a /\ SumFunction(old) = c
      BY <1>2 DEF SumFunction
    <2> HIDE DEF a, b, c, d
    <2>3. QED
      BY <2>1, <2>2
  <1>11. QED
    BY <1>2, <1>3, <1>10 DEF p
-----------------------------------------------------------------------------
(* Traffic: types. *)

Counters == [Users -> 0..MaxBytes]
Steps == {"idle", "aggregate", "delete_samples", "delete_hourly", "delete_ops"}
Minutes == {k.minute : k \in Retentions}

\* What the sampler and Teleproxy count.
Metered ==
    /\ now \in Time
    /\ carried \in Counters /\ counter \in Counters /\ prev \in Counters
    /\ \A u \in Users : counter[u] <= carried[u]
    /\ scraped \in {None} \cup Counters /\ stamp \in Time \cup {Never}
    /\ stamp # Never => scraped # None
    /\ nextTick \in 0..MaxTime + 1

\* The tables.
Tables ==
    /\ samples \in [Users -> Rows(Time)] /\ hourly \in [Users -> Rows(Hours)]
    /\ daily \in [Users -> Rows(Days)]
    /\ ops \in Rows(Time) /\ opsPrev \in {None} \cup [{1} -> Nat]

\* The retainer.  It began in the past, and keeps samples no shorter than the shortest time.
Retained ==
    /\ keep \in [minute : Nat \ {0}, hour : Nat \ {0}]
    /\ setting \in [minute : Nat \ {0}, hour : Nat \ {0}]
    /\ {keep.minute, setting.minute, shortest} \subseteq Minutes /\ shortest <= keep.minute
    /\ step \in Steps
    /\ cutoffs \in [{"minute", "hour"} -> Time] /\ nextRun \in 0..MaxTime + 2 * DayLen
    /\ cutoffs.minute = 0 \/ cutoffs.minute + shortest <= now
    /\ events \in 0..MaxEvents /\ mishaps \subseteq {"teleproxy", "retention"}

Shaped == Metered /\ Tables /\ Retained

LEMMA Delta ==
    ASSUME NEW c \in Nat, NEW p \in Nat
    PROVE  /\ CounterDelta(c, p) \in Nat /\ CounterDelta(c, p) <= c
           /\ CounterDelta(c + 1, p) <= CounterDelta(c, p) + 1
           /\ CounterDelta(0, p) = 0 /\ CounterDelta(c, c) = 0
           /\ p <= c => CounterDelta(c, p) = c - p
  BY DEF CounterDelta

\* Looking at the counter in between takes nothing away.
LEMMA Triangle ==
    ASSUME NEW c \in Nat, NEW s \in Nat, NEW p \in Nat
    PROVE  CounterDelta(c, p) <= CounterDelta(s, p) + CounterDelta(c, s)
  BY DEF CounterDelta

LEMMA Shapes ==
    ASSUME Shaped
    PROVE  /\ now \in Nat /\ now \in Time /\ MaxBytes \in Nat
           /\ \A u \in Users : /\ carried[u] \in Nat /\ counter[u] \in Nat /\ prev[u] \in Nat
                               /\ carried[u] <= MaxBytes /\ counter[u] <= MaxBytes
                               /\ prev[u] <= MaxBytes /\ counter[u] <= carried[u]
           /\ scraped # None => \A u \in Users : scraped[u] \in Nat /\ scraped[u] <= MaxBytes
           /\ \A u \in Users : samples[u] \in Rows(Time) /\ hourly[u] \in Rows(Hours)
                               /\ daily[u] \in Rows(Days) /\ hourly[u] \in Rows(Time)
                               /\ daily[u] \in Rows(Time)
           /\ cutoffs.minute \in Nat /\ cutoffs.hour \in Nat /\ shortest \in Nat \ {0}
           /\ keep.minute \in Nat /\ keep.hour \in Nat
           /\ cutoffs.minute <= now
           /\ DayOf(now) \in Days /\ HourOf(now) \in Hours
  <1>1. Rows(Hours) \subseteq Rows(Time) /\ Rows(Days) \subseteq Rows(Time)
    BY RowIs, TrafficConstants
  <1>2. now \in Nat /\ now \in Time
    BY TrafficConstants DEF Shaped, Metered
  <1>3. shortest \in Nat \ {0}
    BY TrafficConstants DEF Shaped, Retained, Minutes
  <1>4. cutoffs.minute \in Nat /\ cutoffs.hour \in Nat
    BY TrafficConstants DEF Shaped, Retained
  <1>5. cutoffs.minute <= now
    BY <1>2, <1>3, <1>4 DEF Shaped, Retained
  <1>6. \A u \in Users : /\ carried[u] \in 0..MaxBytes /\ counter[u] \in 0..MaxBytes
                         /\ prev[u] \in 0..MaxBytes /\ counter[u] <= carried[u]
    BY DEF Shaped, Metered, Counters
  <1>7. scraped # None => \A u \in Users : scraped[u] \in 0..MaxBytes
    BY DEF Shaped, Metered, Counters
  <1>8. DayOf(now) \in Days /\ HourOf(now) \in Hours
    <2>1. ASSUME NEW L \in Nat, L > 0 PROVE now - (now % L) \in Time /\ (now - (now % L)) % L = 0
      <3>1. L \in Nat \ {0}
        BY <2>1
      <3>2. now - (now % L) \in Nat /\ now - (now % L) <= now /\ (now - (now % L)) % L = 0
        BY <1>2, <3>1, Floor
      <3>3. now <= MaxTime /\ now \in Nat /\ MaxTime \in Nat
        BY <1>2, TrafficConstants DEF Time
      <3> DEFINE a == now - (now % L)
      <3>4. a \in Nat /\ a <= now
        BY <3>2
      <3> HIDE DEF a
      <3>5. a \in Time
        BY <3>3, <3>4 DEF Time
      <3>6. QED
        BY <3>2, <3>5 DEF a
    <2>2. QED
      BY <2>1, TrafficConstants DEF DayOf, HourOf, Days, Hours
  <1>9. \A u \in Users : samples[u] \in Rows(Time) /\ hourly[u] \in Rows(Hours) /\ daily[u] \in Rows(Days)
    BY DEF Shaped, Tables
  <1>10. keep.minute \in Nat /\ keep.hour \in Nat
    BY DEF Shaped, Retained
  <1>11. QED
    BY <1>1, <1>2, <1>3, <1>4, <1>5, <1>6, <1>7, <1>8, <1>9, <1>10, TrafficConstants

LEMMA InitShaped == Init => Shaped
  <1> SUFFICES ASSUME Init PROVE Shaped
    OBVIOUS
  <1>1. None \in Rows(Time) /\ None \in Rows(Hours) /\ None \in Rows(Days)
    <2>1. DOMAIN None = {} /\ None = [t \in DOMAIN None |-> None[t]]
      BY DEF None
    <2>2. QED
      BY <2>1, RowIs
  <1>2. Metered
    BY TrafficConstants DEF Init, Metered, Counters, Never
  <1>3. Tables
    BY <1>1 DEF Init, Tables
  <1>4. Default \in [minute : Nat \ {0}, hour : Nat \ {0}] /\ Default.minute \in Minutes
        /\ Default.minute \in Nat
    BY TrafficConstants DEF Minutes
  <1>5. cutoffs \in [{"minute", "hour"} -> Time] /\ cutoffs.minute = 0
    BY TrafficConstants DEF Init, Nothing
  <1>6. Retained
    BY <1>4, <1>5, TrafficConstants DEF Init, Retained, Steps
  <1>7. QED
    BY <1>2, <1>3, <1>6 DEF Shaped

-----------------------------------------------------------------------------
(* Traffic: every step keeps the types. *)

LEMMA Lucky ==
    ASSUME Shaped, NEW m \in {"teleproxy", "retention"}, Happens(m) \/ Unrecorded
    PROVE  /\ events' \in 0..MaxEvents /\ mishaps' \subseteq {"teleproxy", "retention"}
           /\ mishaps \subseteq mishaps'
  <1>1. events \in 0..MaxEvents /\ mishaps \subseteq {"teleproxy", "retention"}
    BY DEF Shaped, Retained
  <1>2. events < MaxEvents /\ events' = events + 1
    BY DEF Happens, Unrecorded, Event
  <1>3. mishaps' = mishaps \/ mishaps' = mishaps \cup {m}
    BY DEF Happens, Unrecorded
  <1>4. events' \in 0..MaxEvents
    BY <1>1, <1>2, TrafficConstants
  <1>5. QED
    BY <1>1, <1>3, <1>4

LEMMA PassMetered == ASSUME Shaped, Pass PROVE Metered'
  <1>1. now' \in Time
    <2>1. now \in Nat /\ now < MaxTime /\ now' = now + 1
      BY TrafficConstants DEF Shaped, Metered, Pass
    <2>2. QED
      BY <2>1, TrafficConstants DEF Time
  <1>2. QED
    BY <1>1 DEF Shaped, Metered, Pass, sampler, traffic

LEMMA TransferMetered == ASSUME Shaped, NEW u \in Users, Transfer(u) PROVE Metered'
  <1> USE DEF Shaped, Metered, Counters
  <1>1. carried[u] \in Nat /\ counter[u] \in Nat /\ carried[u] + 1 <= MaxBytes /\ counter[u] <= carried[u]
    BY Shapes DEF Transfer
  <1>2. carried[u] + 1 \in 0..MaxBytes /\ counter[u] + 1 \in 0..MaxBytes
    BY <1>1, TrafficConstants
  <1>3. carried' = [carried EXCEPT ![u] = @ + 1] /\ counter' = [counter EXCEPT ![u] = @ + 1]
    BY DEF Transfer
  <1>4. carried' \in Counters /\ counter' \in Counters
    BY <1>2, <1>3
  <1>5. \A v \in Users : counter'[v] <= carried'[v]
    BY <1>1, <1>3
  <1>6. QED
    BY <1>4, <1>5 DEF Transfer, sampler, traffic

LEMMA OtherMetered ==
    ASSUME Shaped, [\/ TeleproxyRestarts \/ PanelRestarts \/ SaveRetention \/ Scrape \/ ScrapeFails
                   \/ StoreFails \/ StoreOps \/ StoreOpsFails \/ Retain]_vars
    PROVE  Metered'
  <1> USE DEF Shaped, Metered
  <1>1. now + 1 \in 0..MaxTime + 1 /\ now \in 0..MaxTime + 1
    BY TrafficConstants DEF Time
  <1>2. CASE TeleproxyRestarts
    <2>1. counter' \in Counters /\ \A u \in Users : counter'[u] = 0
      BY <1>2, TrafficConstants DEF TeleproxyRestarts, Counters
    <2>2. \A u \in Users : 0 <= carried[u]
      BY Shapes
    <2>3. QED
      BY <1>2, <2>1, <2>2 DEF TeleproxyRestarts, sampler, traffic
  <1>3. CASE PanelRestarts
    BY <1>1, <1>3 DEF PanelRestarts, world, traffic
  <1>4. CASE SaveRetention
    BY <1>4 DEF SaveRetention, world, sampler, traffic
  <1>5. CASE Scrape
    BY <1>5 DEF Scrape, world, traffic
  <1>6. CASE ScrapeFails
    BY <1>1, <1>6 DEF ScrapeFails, world, traffic
  <1>7. CASE StoreFails
    BY <1>7 DEF StoreFails, world, traffic
  <1>8. CASE StoreOps \/ StoreOpsFails
    BY <1>1, <1>8 DEF StoreOps, StoreOpsFails, Ticked, world, traffic
  <1>9. CASE Retain
    BY <1>9 DEF Retain, Begin, Aggregate, DeleteSamples, DeleteHourly, DeleteOps, RetentionFails, Step,
       world, sampler, traffic
  <1>10. CASE UNCHANGED vars
    BY <1>10 DEF vars, world, sampler, traffic
  <1>11. QED
    BY <1>2, <1>3, <1>4, <1>5, <1>6, <1>7, <1>8, <1>9, <1>10

\* What a stored scrape adds to the rows of a user, if anything.
Added(u) == CounterDelta(scraped[u], prev[u])

LEMMA StoreUser ==
    ASSUME Shaped, Store, NEW u \in Users
    PROVE  /\ scraped # None /\ scraped \in Counters /\ Added(u) \in Nat
           /\ \/ /\ now \notin DOMAIN samples[u]
                 /\ samples'[u] = Plus(samples[u], now, Added(u))
                 /\ daily'[u] = Plus(daily[u], DayOf(now), Added(u)) /\ prev'[u] = scraped[u]
              \/ now \in DOMAIN samples[u]
                 /\ samples'[u] = samples[u] /\ daily'[u] = daily[u] /\ prev'[u] = prev[u]
  <1>1. scraped # None /\ scraped \in Counters
    BY DEF Store, Shaped, Metered
  <1>2. scraped[u] \in Nat /\ prev[u] \in Nat
    BY <1>1, Shapes
  <1>3. Added(u) \in Nat
    BY <1>2, Delta DEF Added
  <1>4. CASE now \notin DOMAIN samples[u]
    BY <1>1, <1>3, <1>4 DEF Store, Added
  <1>5. CASE now \in DOMAIN samples[u]
    BY <1>1, <1>3, <1>5 DEF Store
  <1>6. QED
    BY <1>4, <1>5

LEMMA StoreMetered == ASSUME Shaped, Store PROVE Metered'
  <1>1. prev' \in Counters
    <2>1. prev' = [u \in Users |-> prev'[u]]
      BY DEF Store
    <2>2. \A u \in Users : prev'[u] = scraped[u] \/ prev'[u] = prev[u]
      BY StoreUser
    <2>3. scraped \in Counters /\ prev \in Counters
      BY DEF Store, Shaped, Metered
    <2>4. \A u \in Users : prev'[u] \in 0..MaxBytes
      BY <2>2, <2>3 DEF Counters
    <2>5. QED
      BY <2>1, <2>4 DEF Counters
  <1>2. QED
    BY <1>1 DEF Shaped, Metered, Store, world

LEMMA StepMetered == ASSUME Shaped, [Next]_vars PROVE Metered'
  BY PassMetered, TransferMetered, OtherMetered, StoreMetered DEF Next, Sample

LEMMA FrameTables ==
    ASSUME Shaped, [\/ Pass \/ (\E u \in Users : Transfer(u)) \/ TeleproxyRestarts \/ PanelRestarts
                   \/ SaveRetention \/ Scrape \/ ScrapeFails \/ StoreFails \/ StoreOpsFails \/ Begin
                   \/ RetentionFails]_vars
    PROVE  /\ UNCHANGED <<samples, daily, hourly, ops, opsPrev, prev>>
           /\ Tables'
  <1>1. UNCHANGED <<samples, daily, hourly, ops, opsPrev, prev>>
    BY DEF Pass, Transfer, TeleproxyRestarts, PanelRestarts, SaveRetention, Scrape, ScrapeFails,
       StoreFails, StoreOpsFails, Begin, RetentionFails, vars, sampler, traffic, trend
  <1>2. QED
    BY <1>1 DEF Shaped, Tables

LEMMA StoreTables == ASSUME Shaped, Store PROVE Tables'
  <1>1. samples' = [u \in Users |-> samples'[u]] /\ daily' = [u \in Users |-> daily'[u]]
    BY DEF Store
  <1>2. ASSUME NEW u \in Users PROVE samples'[u] \in Rows(Time) /\ daily'[u] \in Rows(Days)
    <2>1. samples[u] \in Rows(Time) /\ daily[u] \in Rows(Days) /\ now \in Time /\ DayOf(now) \in Days
      BY Shapes
    <2>2. Added(u) \in Nat
      BY StoreUser
    <2>3. Plus(samples[u], now, Added(u)) \in Rows(Time)
      BY <2>1, <2>2, PlusRow
    <2>4. Plus(daily[u], DayOf(now), Added(u)) \in Rows(Days)
      BY <2>1, <2>2, PlusRow, TrafficConstants
    <2>5. QED
      BY <2>1, <2>3, <2>4, StoreUser
  <1>3. UNCHANGED <<hourly, ops, opsPrev>>
    BY DEF Store, trend
  <1>4. samples' \in [Users -> Rows(Time)] /\ daily' \in [Users -> Rows(Days)]
    BY <1>1, <1>2
  <1>5. QED
    BY <1>3, <1>4 DEF Shaped, Tables

\* The trend before and after a scrape is stored in it.
LEMMA OpsStored ==
    ASSUME Shaped, StoreOps
    PROVE  /\ scraped # None /\ scraped \in Counters /\ SumFunction(scraped) \in Nat
           /\ ops' \in Rows(Time) /\ opsPrev' = [one \in {1} |-> SumFunction(scraped)]
           /\ opsPrev # None => opsPrev[1] \in Nat
           /\ opsPrev = None => ops' = ops
           /\ opsPrev # None =>
                 SumFunction(ops') <= SumFunction(ops) + CounterDelta(SumFunction(scraped), opsPrev[1])
  <1> DEFINE cur == SumFunction(scraped)
  <1>1. scraped # None /\ scraped \in Counters
    BY DEF Shaped, Metered, StoreOps, Ticked
  <1>2. cur \in Nat
    <2>1. DOMAIN scraped = Users /\ IsFiniteSet(Users) /\ \A u \in Users : scraped[u] \in Nat
      BY <1>1, Shapes, TrafficConstants DEF Counters
    <2>2. Users \in SUBSET Users
      OBVIOUS
    <2>3. QED
      BY <2>1, <2>2, SumIn DEF SumFunction
  <1>3. stamp \in Time /\ ops \in Rows(Time)
    BY DEF StoreOps, Ticked, Shaped, Metered, Tables
  <1>4. opsPrev # None => opsPrev[1] \in Nat
    BY DEF Shaped, Tables
  <1>5. opsPrev' = [one \in {1} |-> cur]
    BY DEF StoreOps
  <1>6. /\ ops' = ops \/ (opsPrev # None /\ ops' = Plus(ops, stamp, CounterDelta(cur, opsPrev[1])))
        /\ opsPrev = None => ops' = ops
    BY DEF StoreOps
  <1> HIDE DEF cur
  <1>7. opsPrev # None => CounterDelta(cur, opsPrev[1]) \in Nat
    BY <1>2, <1>4, Delta
  <1>8. SumFunction(ops) \in Nat
    BY <1>3, RowSums
  <1>9. CASE ops' = ops
    BY <1>1, <1>2, <1>3, <1>4, <1>5, <1>6, <1>7, <1>8, <1>9 DEF cur
  <1>10. CASE opsPrev # None /\ ops' = Plus(ops, stamp, CounterDelta(cur, opsPrev[1]))
    <2> DEFINE d == CounterDelta(cur, opsPrev[1])
               p == Plus(ops, stamp, d)
    <2>1. d \in Nat
      BY <1>7, <1>10
    <2> HIDE DEF d
    <2>2. p \in Rows(Time) /\ SumFunction(p) = SumFunction(ops) + d
      BY <1>3, <2>1, PlusRow, PlusSums
    <2> HIDE DEF p
    <2>3. SumFunction(p) <= SumFunction(ops) + d
      BY <1>8, <2>1, <2>2
    <2>4. ops' = p
      BY <1>10 DEF p, d
    <2>5. QED
      BY <1>1, <1>2, <1>4, <1>5, <1>10, <2>2, <2>3, <2>4 DEF cur, d
  <1>11. QED
    BY <1>6, <1>9, <1>10

LEMMA StoreOpsTables == ASSUME Shaped, StoreOps PROVE Tables'
  <1>1. ops' \in Rows(Time)
    BY OpsStored
  <1>2. opsPrev' \in [{1} -> Nat]
    <2>1. SumFunction(scraped) \in Nat /\ opsPrev' = [one \in {1} |-> SumFunction(scraped)]
      BY OpsStored
    <2>2. QED
      BY <2>1
  <1>3. UNCHANGED <<samples, daily, hourly>>
    BY DEF StoreOps, traffic
  <1>4. QED
    BY <1>1, <1>2, <1>3 DEF Shaped, Tables

\* What the retainer writes for the samples that are old.
OldHours(u) == {HourOf(t) : t \in Old(u)}
OfHour(u, h) == {t \in Old(u) : HourOf(t) = h}
ByHour(u) == [h \in OldHours(u) |-> SumFunctionOnSet(samples[u], OfHour(u, h))]

LEMMA HourType == ASSUME NEW t \in Time PROVE HourOf(t) \in Hours
  <1>1. t \in Nat /\ t <= MaxTime /\ MaxTime \in Nat /\ HourLen \in Nat \ {0}
    BY TrafficConstants DEF Time
  <1> DEFINE a == t - (t % HourLen)
  <1>2. a \in Nat /\ a <= t /\ a % HourLen = 0
    BY <1>1, Floor
  <1>3. a = HourOf(t)
    BY DEF HourOf
  <1> HIDE DEF a
  <1>4. a \in Time
    BY <1>1, <1>2 DEF Time
  <1>5. QED
    BY <1>2, <1>3, <1>4 DEF Hours

LEMMA Summed ==
    ASSUME Shaped, NEW u \in Users
    PROVE  /\ ByHour(u) \in Rows(Hours) /\ SumFunction(ByHour(u)) = Within(samples[u], Old(u))
           /\ \A h \in DOMAIN ByHour(u) : ByHour(u)[h] <= SumFunction(samples[u])
  <1> DEFINE r == samples[u]
             D == DOMAIN r
             g == ByHour(u)
             K == OldHours(u)
  <1>1. r \in Rows(Time) /\ IsFiniteSet(D) /\ D \subseteq Time /\ \A t \in D : r[t] \in Nat
    <2>1. r \in Rows(Time)
      BY Shapes
    <2>2. QED
      BY <2>1, RowIs, RowSums
  <1>2. Old(u) \in SUBSET D
    BY DEF Old
  <1>3. IsFiniteSet(Old(u)) /\ \A t \in Old(u) : r[t] \in Nat
    BY <1>1, <1>2, FS_Subset
  <1>4. K \subseteq Hours /\ IsFiniteSet(K)
    <2>1. K \subseteq Hours
      BY <1>1, <1>2, HourType DEF OldHours
    <2>2. QED
      BY <2>1, FS_Subset, TrafficConstants
  <1>5. \A h : OfHour(u, h) \in SUBSET Old(u) /\ OfHour(u, h) \in SUBSET D
    BY <1>2 DEF OfHour
  <1>6. \A h \in K : g[h] = SumFunctionOnSet(r, OfHour(u, h))
    BY DEF ByHour
  <1>7. DOMAIN g = K /\ g = [h \in DOMAIN g |-> g[h]]
    BY DEF ByHour
  <1> HIDE DEF g
  <1>8. \A h \in K : g[h] \in Nat /\ g[h] <= SumFunction(r)
    <2>1. \A s \in SUBSET D : SumFunctionOnSet(r, s) \in Nat
      BY <1>1, SumIn
    <2>2. \A s \in SUBSET D : SumFunctionOnSet(r, s) <= SumFunctionOnSet(r, D)
      <3>1. D \in SUBSET D
        OBVIOUS
      <3>2. QED
        BY <1>1, <3>1, SumSubset
    <2>3. QED
      BY <1>5, <1>6, <2>1, <2>2 DEF SumFunction
  <1>9. g \in Rows(Hours)
    BY <1>4, <1>7, <1>8, RowIs
  <1>10. SumFunction(g) = SumFunctionOnSet(r, Old(u))
    <2> DEFINE key == [t \in Old(u) |-> HourOf(t)]
    <2>1. \A h : {t \in Old(u) : key[t] = h} = OfHour(u, h)
      BY DEF OfHour
    <2>2. {t \in Old(u) : key[t] \in K} = Old(u)
      BY DEF OldHours
    <2> HIDE DEF key
    <2>3. Grouped(r, Old(u), key, K, g)
      <3>1. ASSUME NEW h \in K PROVE g[h] = SumFunctionOnSet(r, {x \in Old(u) : key[x] = h})
        <4>1. {x \in Old(u) : key[x] = h} = OfHour(u, h)
          BY <2>1
        <4>2. QED
          BY <1>6, <4>1
      <3>2. QED
        BY <3>1 DEF Grouped
    <2>4. K \in SUBSET K
      OBVIOUS
    <2>5. SumFunctionOnSet(g, K) = SumFunctionOnSet(r, {x \in Old(u) : key[x] \in K})
      BY <1>3, <1>4, <2>3, <2>4, SumGroups
    <2>6. {x \in Old(u) : key[x] \in K} = Old(u)
      BY <2>2
    <2>7. QED
      BY <1>7, <2>5, <2>6 DEF SumFunction
  <1>11. D \cap Old(u) = Old(u)
    BY <1>2
  <1>12. QED
    BY <1>7, <1>8, <1>9, <1>10, <1>11 DEF Within, g

LEMMA AggregateUser ==
    ASSUME Shaped, Aggregate, NEW u \in Users
    PROVE  /\ hourly'[u] = Over(ByHour(u), hourly[u])
           /\ hourly'[u] \in Rows(Hours)
           /\ \A t \in DOMAIN hourly'[u] :
                 \/ hourly'[u][t] <= SumFunction(samples[u])
                 \/ t \in DOMAIN hourly[u] /\ hourly'[u][t] = hourly[u][t]
           /\ SumFunction(hourly'[u]) <= Within(samples[u], Old(u)) + SumFunction(hourly[u])
  <1>1. hourly'[u] = Over(ByHour(u), hourly[u])
    BY DEF Aggregate, ByHour, OldHours, OfHour
  <1>2. /\ ByHour(u) \in Rows(Hours) /\ SumFunction(ByHour(u)) = Within(samples[u], Old(u))
        /\ \A h \in DOMAIN ByHour(u) : ByHour(u)[h] <= SumFunction(samples[u])
    BY Summed
  <1>3. hourly[u] \in Rows(Hours)
    BY Shapes
  <1> DEFINE g == ByHour(u)
             o == hourly[u]
             p == Over(g, o)
  <1> HIDE DEF g
  <1>4. Hours \in SUBSET Time
    BY TrafficConstants
  <1>5. /\ p \in Rows(Hours)
        /\ \A t \in DOMAIN p : \/ t \in DOMAIN g /\ p[t] = g[t]
                               \/ t \in DOMAIN o /\ p[t] = o[t]
        /\ SumFunction(p) <= SumFunction(g) + SumFunction(o)
    BY <1>2, <1>3, <1>4, OverRow DEF g
  <1>6. hourly'[u] = p
    BY <1>1 DEF g
  <1> HIDE DEF p
  <1>7. QED
    BY <1>1, <1>2, <1>5, <1>6 DEF g

LEMMA AggregateTables == ASSUME Shaped, Aggregate PROVE Tables'
  <1>1. hourly' = [u \in Users |-> hourly'[u]]
    BY DEF Aggregate
  <1>2. \A u \in Users : hourly'[u] \in Rows(Hours)
    BY AggregateUser
  <1>3. hourly' \in [Users -> Rows(Hours)]
    BY <1>1, <1>2
  <1>4. UNCHANGED <<samples, daily, ops, opsPrev>>
    BY DEF Aggregate, Step
  <1>5. QED
    BY <1>3, <1>4 DEF Shaped, Tables

\* Samples that are not old yet.
Kept == {t \in Time : cutoffs.minute <= t}

LEMMA DeleteUser ==
    ASSUME Shaped, DeleteSamples, NEW u \in Users
    PROVE  /\ samples'[u] = Restrict(samples[u], DOMAIN samples[u] \cap Kept)
           /\ samples'[u] \in Rows(Time)
  <1>1. samples[u] \in Rows(Time) /\ DOMAIN samples[u] \subseteq Time
    BY Shapes, RowSums
  <1>2. DOMAIN samples[u] \ Old(u) = DOMAIN samples[u] \cap Kept
    <2>1. cutoffs.minute \in Nat /\ \A t \in Time : t \in Nat
      BY Shapes, TrafficConstants
    <2>2. QED
      BY <1>1, <2>1 DEF Old, Kept
  <1>3. samples'[u] = Restrict(samples[u], DOMAIN samples[u] \cap Kept)
    BY <1>2 DEF DeleteSamples
  <1>4. DOMAIN samples[u] \cap Kept \in SUBSET (DOMAIN samples[u]) /\ Time \in SUBSET Time
    OBVIOUS
  <1>5. QED
    BY <1>1, <1>3, <1>4, RestrictRow

LEMMA DeleteTables == ASSUME Shaped, DeleteSamples \/ DeleteHourly \/ DeleteOps PROVE Tables'
  <1>1. CASE DeleteSamples
    <2>1. samples' = [u \in Users |-> samples'[u]] /\ \A u \in Users : samples'[u] \in Rows(Time)
      BY <1>1, DeleteUser DEF DeleteSamples
    <2>2. samples' \in [Users -> Rows(Time)]
      BY <2>1
    <2>3. QED
      BY <1>1, <2>2 DEF DeleteSamples, Step, Shaped, Tables
  <1>2. CASE DeleteHourly
    <2>1. hourly' = [u \in Users |-> hourly'[u]]
      BY <1>2 DEF DeleteHourly
    <2>2. ASSUME NEW u \in Users PROVE hourly'[u] \in Rows(Hours)
      <3> DEFINE s == {h \in DOMAIN hourly[u] : h >= cutoffs.hour}
      <3>1. hourly'[u] = Restrict(hourly[u], s)
        BY <1>2 DEF DeleteHourly
      <3>2. hourly[u] \in Rows(Hours) /\ s \in SUBSET (DOMAIN hourly[u]) /\ Hours \in SUBSET Time
        BY Shapes, TrafficConstants
      <3> HIDE DEF s
      <3>3. QED
        BY <3>1, <3>2, RestrictRow
    <2>3. hourly' \in [Users -> Rows(Hours)]
      BY <2>1, <2>2
    <2>4. QED
      BY <1>2, <2>3 DEF DeleteHourly, Step, Shaped, Tables
  <1>3. CASE DeleteOps
    <2> DEFINE s == {t \in DOMAIN ops : t >= cutoffs.minute}
    <2>1. ops' = Restrict(ops, s) /\ s \in SUBSET (DOMAIN ops) /\ Time \in SUBSET Time
      BY <1>3 DEF DeleteOps
    <2>2. ops \in Rows(Time)
      BY DEF Shaped, Tables
    <2> HIDE DEF s
    <2>3. ops' \in Rows(Time)
      BY <2>1, <2>2, RestrictRow
    <2>4. QED
      BY <1>3, <2>3 DEF DeleteOps, Step, Shaped, Tables
  <1>4. QED
    BY <1>1, <1>2, <1>3

LEMMA StepTables == ASSUME Shaped, [Next]_vars PROVE Tables'
  BY FrameTables, StoreTables, StoreOpsTables, AggregateTables, DeleteTables DEF Next, Sample, Retain

LEMMA MinOfTwo ==
    ASSUME NEW a \in Nat, NEW b \in Nat
    PROVE  Min({a, b}) \in {a, b} /\ Min({a, b}) <= a /\ Min({a, b}) <= b
  <1>1. \E x \in {a, b} : \A y \in {a, b} : x <= y
    OBVIOUS
  <1>2. Min({a, b}) = CHOOSE x \in {a, b} : \A y \in {a, b} : x <= y
    BY DEF Min
  <1> DEFINE m == CHOOSE x \in {a, b} : \A y \in {a, b} : x <= y
  <1>3. m \in {a, b} /\ \A y \in {a, b} : m <= y
    BY <1>1
  <1>4. QED
    BY <1>2, <1>3

\* What the retainer goes by.
Keeping ==
    /\ keep \in [minute : Nat \ {0}, hour : Nat \ {0}]
    /\ setting \in [minute : Nat \ {0}, hour : Nat \ {0}]
    /\ {keep.minute, setting.minute, shortest} \subseteq Minutes /\ shortest <= keep.minute

Running ==
    /\ step \in Steps
    /\ cutoffs \in [{"minute", "hour"} -> Time] /\ nextRun \in 0..MaxTime + 2 * DayLen
    /\ cutoffs.minute = 0 \/ cutoffs.minute + shortest <= now

Lucks == events \in 0..MaxEvents /\ mishaps \subseteq {"teleproxy", "retention"}

LEMMA RetainedParts == Retained <=> Keeping /\ Running /\ Lucks
  BY DEF Retained, Keeping, Running, Lucks

LEMMA StepLucks == ASSUME Shaped, [Next]_vars PROVE Lucks' /\ mishaps \subseteq mishaps'
  <1>1. CASE UNCHANGED luck
    <2>1. UNCHANGED <<events, mishaps>>
      BY <1>1 DEF luck
    <2>2. QED
      BY <2>1 DEF Shaped, Retained, Lucks
  <1>2. CASE Happens("teleproxy") \/ Happens("retention") \/ Unrecorded
    BY <1>2, Lucky DEF Lucks
  <1>3. UNCHANGED luck \/ Happens("teleproxy") \/ Happens("retention") \/ Unrecorded
    BY DEF Next, Sample, Retain, Pass, Transfer, TeleproxyRestarts, PanelRestarts, SaveRetention, Scrape,
       ScrapeFails, Store, StoreFails, StoreOps, StoreOpsFails, Begin, Aggregate, DeleteSamples,
       DeleteHourly, DeleteOps, RetentionFails, Step, vars, luck
  <1>4. QED
    BY <1>1, <1>2, <1>3

LEMMA StepKeeping ==
    ASSUME Shaped, [Next]_vars
    PROVE  Keeping' /\ shortest' <= shortest /\ shortest' \in Nat /\ (shortest' = shortest \/ PanelRestarts)
  <1>0. Keeping /\ shortest \in Nat /\ keep.minute \in Nat
    BY Shapes DEF Shaped, Retained, Keeping
  <1>1. CASE PanelRestarts
    <2>1. shortest \in Nat /\ setting.minute \in Nat
      BY Shapes, <1>0 DEF Keeping
    <2>2. keep' = setting /\ shortest' = Min({shortest, setting.minute}) /\ setting' = setting
      BY <1>1 DEF PanelRestarts
    <2>3. shortest' \in {shortest, setting.minute} /\ shortest' <= shortest /\ shortest' <= setting.minute
      BY <2>1, <2>2, MinOfTwo
    <2>4. QED
      BY <1>0, <1>1, <2>1, <2>2, <2>3 DEF Keeping, Minutes
  <1>2. CASE SaveRetention
    <2>1. UNCHANGED <<keep, shortest>>
      BY <1>2 DEF SaveRetention
    <2>2. PICK new \in Retentions : setting' = new \/ setting' = [setting EXCEPT !.minute = new.minute]
      BY <1>2 DEF SaveRetention
    <2>3. new \in [minute : Nat \ {0}, hour : Nat \ {0}] /\ new.minute \in Minutes
      BY TrafficConstants DEF Minutes
    <2>4. setting' \in [minute : Nat \ {0}, hour : Nat \ {0}] /\ setting'.minute = new.minute
      BY <1>0, <2>2, <2>3 DEF Keeping
    <2>5. QED
      BY <1>0, <2>1, <2>3, <2>4 DEF Keeping, Minutes
  <1>3. CASE UNCHANGED <<keep, setting, shortest>>
    BY <1>0, <1>3 DEF Keeping, Minutes
  <1>4. QED
    BY <1>1, <1>2, <1>3 DEF Next, Sample, Retain, Pass, Transfer, TeleproxyRestarts, Scrape,
       ScrapeFails, Store, StoreFails, StoreOps, StoreOpsFails, Begin, Aggregate, DeleteSamples,
       DeleteHourly, DeleteOps, RetentionFails, Step, vars, retainer

LEMMA StepRunning == ASSUME Shaped, [Next]_vars PROVE Running'
  <1>0. /\ Running /\ shortest \in Nat \ {0} /\ now \in Nat /\ cutoffs.minute \in Nat
        /\ cutoffs \in [{"minute", "hour"} -> Time] /\ now \in Time
        /\ keep.minute \in Nat /\ keep.hour \in Nat /\ shortest <= keep.minute
    BY Shapes DEF Shaped, Retained, Running
  <1>1. Nothing \in [{"minute", "hour"} -> Time] /\ Nothing.minute = 0
    BY TrafficConstants DEF Nothing
  <1>2. now' \in Nat /\ now <= now'
    <2>1. now' = now \/ now' = now + 1
      BY DEF Next, Sample, Retain, Pass, Transfer, TeleproxyRestarts, PanelRestarts, SaveRetention, Scrape,
         ScrapeFails, Store, StoreFails, StoreOps, StoreOpsFails, Begin, Aggregate, DeleteSamples,
         DeleteHourly, DeleteOps, RetentionFails, Step, vars, world
    <2>2. QED
      BY <1>0, <2>1
  <1>3. shortest' <= shortest /\ shortest' \in Nat
    BY StepKeeping
  <1>4. ASSUME cutoffs' = Nothing \/ cutoffs' = cutoffs
        PROVE  /\ cutoffs' \in [{"minute", "hour"} -> Time]
               /\ cutoffs'.minute = 0 \/ cutoffs'.minute + shortest' <= now'
    <2>1. cutoffs' \in [{"minute", "hour"} -> Time]
      BY <1>0, <1>1, <1>4
    <2>2. CASE cutoffs' = Nothing
      BY <1>1, <2>1, <2>2
    <2>3. CASE cutoffs' = cutoffs
      <3>1. cutoffs.minute = 0 \/ cutoffs.minute + shortest <= now
        BY <1>0 DEF Running
      <3>2. cutoffs.minute = 0 \/ cutoffs.minute + shortest' <= now'
        BY <1>0, <1>2, <1>3, <3>1
      <3>3. QED
        BY <2>1, <2>3, <3>2
    <2>4. QED
      BY <1>4, <2>2, <2>3
  <1>5. CASE PanelRestarts
    <2>1. cutoffs' = Nothing /\ step' = "idle" /\ nextRun' = now + DayLen
      BY <1>5 DEF PanelRestarts
    <2>2. now + DayLen \in 0..MaxTime + 2 * DayLen
      BY <1>0, TrafficConstants DEF Time
    <2>3. QED
      BY <1>4, <2>1, <2>2 DEF Running, Steps
  <1>6. CASE Begin
    <2>1. step' = "aggregate" /\ UNCHANGED <<now, shortest>>
      BY <1>6 DEF Begin, world
    <2>2. nextRun' \in 0..MaxTime + 2 * DayLen
      <3>1. nextRun \in Nat /\ nextRun <= now /\ nextRun' = nextRun + DayLen /\ now \in Nat /\ now <= MaxTime
        BY <1>0, <1>6, TrafficConstants DEF Running, Begin, Time
      <3>2. QED
        BY <3>1, TrafficConstants
    <2>3. cutoffs' = [minute |-> Before(keep.minute), hour |-> Before(keep.hour)]
      BY <1>6 DEF Begin
    <2>4. \A n \in Nat : Before(n) \in Time /\ (Before(n) = 0 \/ Before(n) + n <= now)
      <3>1. now <= MaxTime
        BY <1>0, TrafficConstants DEF Time
      <3>2. QED
        BY <1>0, <3>1, TrafficConstants DEF Before, Time
    <2>5. cutoffs' \in [{"minute", "hour"} -> Time] /\ cutoffs'.minute = Before(keep.minute)
      BY <1>0, <2>3, <2>4
    <2>6. Before(keep.minute) = 0 \/ Before(keep.minute) + shortest <= now
      <3>1. Before(keep.minute) \in Nat /\ (Before(keep.minute) = 0 \/ Before(keep.minute) + keep.minute <= now)
        BY <1>0, <2>4, TrafficConstants
      <3> DEFINE b == Before(keep.minute)
      <3> HIDE DEF b
      <3>2. QED
        BY <1>0, <3>1 DEF b
    <2>7. QED
      BY <2>1, <2>2, <2>5, <2>6 DEF Running, Steps
  <1>7. CASE Retain /\ ~Begin
    <2>1. (cutoffs' = Nothing \/ cutoffs' = cutoffs) /\ step' \in Steps /\ nextRun' = nextRun
      BY <1>7 DEF Retain, Aggregate, DeleteSamples, DeleteHourly, DeleteOps, RetentionFails, Step, Steps
    <2>2. nextRun \in 0..MaxTime + 2 * DayLen
      BY <1>0 DEF Running
    <2>3. QED
      BY <1>4, <2>1, <2>2 DEF Running
  <1>8. CASE UNCHANGED <<step, cutoffs, nextRun>>
    <2>1. step \in Steps /\ nextRun \in 0..MaxTime + 2 * DayLen
      BY <1>0 DEF Running
    <2>2. QED
      BY <1>4, <1>8, <2>1 DEF Running
  <1>9. QED
    BY <1>5, <1>6, <1>7, <1>8 DEF Next, Sample, Pass, Transfer, TeleproxyRestarts, SaveRetention, Scrape,
       ScrapeFails, Store, StoreFails, StoreOps, StoreOpsFails, vars, retainer

LEMMA StepShaped == ASSUME Shaped, [Next]_vars PROVE Shaped'
  <1>1. Metered' /\ Tables'
    BY StepMetered, StepTables
  <1>2. Keeping' /\ Running' /\ Lucks'
    BY StepKeeping, StepRunning, StepLucks
  <1>3. Retained'
    BY <1>2 DEF Retained, Keeping, Running, Lucks
  <1>4. QED
    BY <1>1, <1>3 DEF Shaped

-----------------------------------------------------------------------------
(* Traffic: what is charged. *)

\* What has been charged, what the next scrape will charge, and what the one after that.
Charged(u) == SumFunction(daily[u])
Stored == scraped # None /\ stamp = Never

Conserved(u) ==
    /\ Charged(u) + CounterDelta(counter[u], prev[u]) <= carried[u]
    /\ Stored =>
          Charged(u) + CounterDelta(scraped[u], prev[u]) + CounterDelta(counter[u], scraped[u])
              <= carried[u]

\* As long as Teleproxy runs on, what has been scraped lies between what has been charged
\* and what is counted.
Complete(u) ==
    /\ Charged(u) = prev[u] /\ prev[u] <= counter[u]
    /\ scraped # None => scraped[u] <= counter[u]
    /\ Stored => prev[u] <= scraped[u]

\* No row has more than was charged.
Bounded(u) ==
    /\ SumFunction(samples[u]) <= Charged(u)
    /\ \A h \in DOMAIN hourly[u] : hourly[u][h] <= MaxBytes

Account(u) ==
    Conserved(u) /\ Bounded(u) /\ ("teleproxy" \notin mishaps => Complete(u))

Accounts == \A u \in Users : Account(u)

LEMMA Counts ==
    ASSUME Shaped, NEW u \in Users
    PROVE  /\ carried[u] \in Nat /\ counter[u] \in Nat /\ prev[u] \in Nat
           /\ scraped # None => scraped[u] \in Nat
           /\ Charged(u) \in Nat /\ SumFunction(samples[u]) \in Nat
           /\ CounterDelta(counter[u], prev[u]) \in Nat
           /\ scraped # None => /\ CounterDelta(scraped[u], prev[u]) \in Nat
                                /\ CounterDelta(counter[u], scraped[u]) \in Nat
  <1>1. carried[u] \in Nat /\ counter[u] \in Nat /\ prev[u] \in Nat /\ (scraped # None => scraped[u] \in Nat)
    BY Shapes
  <1>2. samples[u] \in Rows(Time) /\ daily[u] \in Rows(Time)
    BY Shapes
  <1>3. Charged(u) \in Nat /\ SumFunction(samples[u]) \in Nat
    BY <1>2, RowSums DEF Charged
  <1>4. QED
    BY <1>1, <1>3, Delta

LEMMA NoneSum == SumFunction(None) = 0
  <1>1. DOMAIN None = {}
    BY DEF None
  <1>2. QED
    BY <1>1, SumNone DEF SumFunction

LEMMA InitAccounts == Init => Accounts
  <1> SUFFICES ASSUME Init, NEW u \in Users PROVE Account(u)
    BY DEF Accounts
  <1>1. carried[u] = 0 /\ counter[u] = 0 /\ prev[u] = 0 /\ scraped = None
        /\ samples[u] = None /\ hourly[u] = None /\ daily[u] = None
    BY DEF Init
  <1>2. Charged(u) = 0 /\ SumFunction(samples[u]) = 0 /\ DOMAIN hourly[u] = {}
    BY <1>1, NoneSum DEF Charged, None
  <1>3. CounterDelta(0, 0) = 0
    BY DEF CounterDelta
  <1>4. Conserved(u)
    BY <1>1, <1>2, <1>3 DEF Conserved, Stored
  <1>5. Bounded(u)
    BY <1>2 DEF Bounded
  <1>6. Complete(u)
    BY <1>1, <1>2 DEF Complete, Stored
  <1>7. QED
    BY <1>4, <1>5, <1>6 DEF Account

\* The rows of a user stay as they are, or samples are deleted.
LEMMA SameBounded ==
    ASSUME Shaped, NEW u \in Users, Bounded(u), daily'[u] = daily[u], hourly'[u] = hourly[u],
           SumFunction(samples'[u]) <= SumFunction(samples[u]), SumFunction(samples'[u]) \in Nat
    PROVE  Bounded(u)'
  <1>1. SumFunction(samples[u]) \in Nat /\ Charged(u) \in Nat /\ Charged(u)' = Charged(u)
    BY Counts DEF Charged
  <1> DEFINE a == SumFunction(samples[u])
             b == SumFunction(samples'[u])
             c == Charged(u)
  <1>2. a \in Nat /\ b \in Nat /\ c \in Nat /\ b <= a /\ a <= c
    BY <1>1 DEF Bounded
  <1> HIDE DEF a, b, c
  <1>3. b <= c
    BY <1>2
  <1>4. SumFunction(samples'[u]) <= Charged(u)'
    BY <1>1, <1>3 DEF b, c
  <1>5. QED
    BY <1>4 DEF Bounded

LEMMA TransferAccount ==
    ASSUME Shaped, NEW u \in Users, NEW v \in Users, Transfer(v), Account(u) PROVE Account(u)'
  <1>1. UNCHANGED <<samples, daily, hourly, prev, scraped, stamp, mishaps>>
    BY DEF Transfer, sampler, traffic, luck
  <1>2. Charged(u)' = Charged(u) /\ (Stored' <=> Stored)
    BY <1>1 DEF Charged, Stored
  <1>3. Bounded(u)'
    BY <1>1, <1>2 DEF Account, Bounded
  <1>4. \/ carried'[u] = carried[u] + 1 /\ counter'[u] = counter[u] + 1
        \/ carried'[u] = carried[u] /\ counter'[u] = counter[u]
    <2>1. carried \in Counters /\ counter \in Counters
      BY DEF Shaped, Metered
    <2>2. carried' = [carried EXCEPT ![v] = @ + 1] /\ counter' = [counter EXCEPT ![v] = @ + 1]
      BY DEF Transfer
    <2>3. QED
      BY <2>1, <2>2 DEF Counters
  <1> DEFINE d == Charged(u)
             c == counter[u]
             p == prev[u]
             k == carried[u]
             s == scraped[u]
  <1>5. d \in Nat /\ c \in Nat /\ p \in Nat /\ k \in Nat /\ (scraped # None => s \in Nat)
    BY Counts
  <1>6. Conserved(u)'
    <2>1. CASE carried'[u] = carried[u] /\ counter'[u] = counter[u]
      BY <1>1, <1>2, <2>1 DEF Account, Conserved
    <2>2. CASE carried'[u] = k + 1 /\ counter'[u] = c + 1
      <3>1. d + CounterDelta(c, p) <= k /\ (Stored => d + CounterDelta(s, p) + CounterDelta(c, s) <= k)
        BY DEF Account, Conserved
      <3> HIDE DEF d, c, p, k, s
      <3>2. d + CounterDelta(c + 1, p) <= k + 1
        <4>1. CounterDelta(c + 1, p) <= CounterDelta(c, p) + 1 /\ CounterDelta(c, p) \in Nat
          BY <1>5, Delta
        <4>2. CounterDelta(c + 1, p) \in Nat
          <5>1. c + 1 \in Nat
            BY <1>5
          <5>2. QED
            BY <1>5, <5>1, Delta
        <4>3. QED
          BY <1>5, <3>1, <4>1, <4>2
      <3>3. ASSUME Stored PROVE d + CounterDelta(s, p) + CounterDelta(c + 1, s) <= k + 1
        <4>1. s \in Nat
          BY <1>5, <3>3 DEF Stored
        <4>2. CounterDelta(c + 1, s) <= CounterDelta(c, s) + 1 /\ CounterDelta(c, s) \in Nat
              /\ CounterDelta(s, p) \in Nat
          BY <1>5, <4>1, Delta
        <4>3. CounterDelta(c + 1, s) \in Nat
          <5>1. c + 1 \in Nat
            BY <1>5
          <5>2. QED
            BY <4>1, <5>1, Delta
        <4>4. d + CounterDelta(s, p) + CounterDelta(c, s) <= k
          BY <3>1, <3>3
        <4>5. QED
          BY <1>5, <4>2, <4>3, <4>4
      <3>4. prev'[u] = p /\ scraped'[u] = s /\ Charged(u)' = d /\ carried'[u] = k + 1 /\ counter'[u] = c + 1
        BY <1>1, <1>2, <2>2 DEF p, s, d, k, c
      <3>5. QED
        BY <1>2, <3>2, <3>3, <3>4 DEF Conserved
    <2>3. QED
      BY <1>4, <2>1, <2>2
  <1>7. Complete(u) => Complete(u)'
    <2>1. c <= counter'[u] /\ counter'[u] \in Nat
      BY <1>4, <1>5
    <2>2. \A x \in Nat : x <= c => x <= counter'[u]
      BY <1>5, <2>1
    <2>3. QED
      BY <1>1, <1>2, <1>5, <2>2 DEF Complete
  <1>8. QED
    BY <1>1, <1>3, <1>6, <1>7 DEF Account

\* Of the counters nothing changes but what has been scraped, which is stored or forgotten.
LEMMA QuietAccount ==
    ASSUME Shaped, NEW u \in Users, Account(u), UNCHANGED <<carried, counter, prev, daily>>,
           mishaps \subseteq mishaps',
           \/ scraped' = None
           \/ scraped' = scraped /\ (stamp' = stamp \/ stamp' # Never),
           Bounded(u)'
    PROVE  Account(u)'
  <1>1. Charged(u)' = Charged(u)
    BY DEF Charged
  <1>2. (Stored' => Stored /\ scraped' = scraped) /\ (scraped' # None => scraped' = scraped)
    BY DEF Stored
  <1>3. Conserved(u)'
    BY <1>1, <1>2 DEF Account, Conserved
  <1>4. Complete(u) => Complete(u)'
    BY <1>1, <1>2 DEF Complete
  <1>5. QED
    BY <1>3, <1>4 DEF Account

LEMMA OtherAccount ==
    ASSUME Shaped, NEW u \in Users, Account(u),
           [\/ Pass \/ PanelRestarts \/ SaveRetention \/ ScrapeFails \/ StoreFails \/ StoreOps
            \/ StoreOpsFails \/ Begin \/ DeleteOps \/ RetentionFails]_vars
    PROVE  Account(u)'
  <1>1. UNCHANGED <<carried, counter, prev, daily, samples, hourly>>
    BY DEF Pass, PanelRestarts, SaveRetention, ScrapeFails, StoreFails, StoreOps, StoreOpsFails, Begin,
       DeleteOps, RetentionFails, Step, vars, world, sampler, traffic
  <1>2. mishaps \subseteq mishaps'
    BY StepLucks DEF Next, Sample, Retain
  <1>3. \/ scraped' = None
        \/ scraped' = scraped /\ (stamp' = stamp \/ stamp' # Never)
    <2>1. now \in Nat /\ now # Never
      BY Shapes, TrafficConstants DEF Time, Never
    <2>2. QED
      BY <2>1 DEF Pass, PanelRestarts, SaveRetention, ScrapeFails, StoreFails, StoreOps, StoreOpsFails,
         Ticked, Begin, DeleteOps, RetentionFails, Step, vars, sampler
  <1>4. Bounded(u)'
    BY <1>1 DEF Account, Bounded, Charged
  <1>5. QED
    BY <1>1, <1>2, <1>3, <1>4, QuietAccount

LEMMA RetainAccount ==
    ASSUME Shaped, NEW u \in Users, Account(u), Aggregate \/ DeleteSamples \/ DeleteHourly PROVE Account(u)'
  <1>1. UNCHANGED <<carried, counter, prev, daily, scraped, stamp, mishaps>>
    BY DEF Aggregate, DeleteSamples, DeleteHourly, Step, world, luck
  <1>2. SumFunction(samples[u]) \in Nat /\ Charged(u) \in Nat /\ Charged(u)' = Charged(u)
    BY <1>1, Counts DEF Charged
  <1>3. CASE Aggregate
    <2>1. samples' = samples
      BY <1>3 DEF Aggregate
    <2>2. ASSUME NEW h \in DOMAIN hourly'[u] PROVE hourly'[u][h] <= MaxBytes
      <3>1. CASE h \in DOMAIN hourly[u] /\ hourly'[u][h] = hourly[u][h]
        BY <3>1 DEF Account, Bounded
      <3>2. CASE hourly'[u][h] <= SumFunction(samples[u])
        <4>1. hourly'[u] \in Rows(Hours)
          BY <1>3, AggregateUser
        <4>2. hourly'[u][h] \in Nat
          BY <4>1, RowIs
        <4>3. SumFunction(samples[u]) <= Charged(u) /\ Charged(u) <= carried[u]
          <5>1. Charged(u) + CounterDelta(counter[u], prev[u]) <= carried[u]
            BY DEF Account, Conserved
          <5>2. CounterDelta(counter[u], prev[u]) \in Nat /\ carried[u] \in Nat
            BY Counts
          <5> DEFINE x == CounterDelta(counter[u], prev[u])
          <5> HIDE DEF x
          <5>3. Charged(u) <= carried[u]
            BY <1>2, <5>1, <5>2 DEF x
          <5>4. QED
            BY <5>3 DEF Account, Bounded
        <4>4. carried[u] <= MaxBytes /\ carried[u] \in Nat /\ MaxBytes \in Nat
          BY Shapes
        <4> DEFINE a == SumFunction(samples[u])
                   c == hourly'[u][h]
                   d == Charged(u)
        <4>5. c <= a /\ a <= d /\ d <= carried[u] /\ c \in Nat /\ a \in Nat /\ d \in Nat
          BY <1>2, <3>2, <4>2, <4>3
        <4> HIDE DEF a, c, d
        <4>6. c <= MaxBytes
          BY <4>4, <4>5
        <4>7. QED
          BY <4>6 DEF c
      <3>3. QED
        BY <1>3, <3>1, <3>2, AggregateUser
    <2>3. Bounded(u)'
      BY <1>2, <2>1, <2>2 DEF Account, Bounded
    <2>4. QED
      BY <1>1, <2>3, QuietAccount
  <1>4. CASE DeleteSamples
    <2>1. hourly' = hourly
      BY <1>4 DEF DeleteSamples
    <2>2. SumFunction(samples'[u]) <= SumFunction(samples[u]) /\ SumFunction(samples'[u]) \in Nat
      <3> DEFINE s == DOMAIN samples[u] \cap Kept
      <3>1. samples'[u] = Restrict(samples[u], s) /\ samples[u] \in Rows(Time)
        BY <1>4, DeleteUser, Shapes
      <3>2. s \in SUBSET (DOMAIN samples[u]) /\ Time \in SUBSET Time
        OBVIOUS
      <3> HIDE DEF s
      <3>3. SumFunction(Restrict(samples[u], s)) = Within(samples[u], s)
        BY <3>1, <3>2, RestrictRow
      <3>4. Within(samples[u], s) \in Nat /\ Within(samples[u], s) <= SumFunction(samples[u])
        BY <3>1, RowSums
      <3>5. QED
        BY <3>1, <3>3, <3>4
    <2>3. Bounded(u)'
      BY <1>1, <2>1, <2>2, SameBounded DEF Account
    <2>4. QED
      BY <1>1, <2>3, QuietAccount
  <1>5. CASE DeleteHourly
    <2>1. samples' = samples /\ hourly'[u] = Restrict(hourly[u], {h \in DOMAIN hourly[u] : h >= cutoffs.hour})
      BY <1>5 DEF DeleteHourly
    <2>2. \A h \in DOMAIN hourly'[u] : h \in DOMAIN hourly[u] /\ hourly'[u][h] = hourly[u][h]
      BY <2>1 DEF Restrict
    <2>3. Bounded(u)'
      BY <1>2, <2>1, <2>2 DEF Account, Bounded
    <2>4. QED
      BY <1>1, <2>3, QuietAccount
  <1>6. QED
    BY <1>3, <1>4, <1>5

LEMMA RestartAccount == ASSUME Shaped, NEW u \in Users, Account(u), TeleproxyRestarts PROVE Account(u)'
  <1>1. counter'[u] = 0 /\ "teleproxy" \in mishaps'
        /\ UNCHANGED <<carried, prev, daily, samples, hourly, scraped, stamp>>
    BY DEF TeleproxyRestarts, Happens, sampler, traffic
  <1>2. Charged(u)' = Charged(u) /\ (Stored' <=> Stored)
    BY <1>1 DEF Charged, Stored
  <1>3. Bounded(u)'
    BY <1>1, <1>2 DEF Account, Bounded
  <1> DEFINE d == Charged(u)
             c == counter[u]
             p == prev[u]
             k == carried[u]
             s == scraped[u]
  <1>4. d \in Nat /\ c \in Nat /\ p \in Nat /\ k \in Nat /\ (scraped # None => s \in Nat)
    BY Counts
  <1>5. d + CounterDelta(c, p) <= k /\ (Stored => d + CounterDelta(s, p) + CounterDelta(c, s) <= k)
    BY DEF Account, Conserved
  <1>6. carried'[u] = k /\ prev'[u] = p /\ scraped'[u] = s /\ Charged(u)' = d
    BY <1>1, <1>2
  <1> HIDE DEF d, c, p, k, s
  <1>7. d + CounterDelta(0, p) <= k
    <2>1. CounterDelta(c, p) \in Nat /\ CounterDelta(0, p) = 0
      BY <1>4, Delta
    <2>2. QED
      BY <1>4, <1>5, <2>1
  <1>8. ASSUME Stored PROVE d + CounterDelta(s, p) + CounterDelta(0, s) <= k
    <2>1. s \in Nat
      BY <1>4, <1>8 DEF Stored
    <2>2. CounterDelta(c, s) \in Nat /\ CounterDelta(0, s) = 0 /\ CounterDelta(s, p) \in Nat
      BY <1>4, <2>1, Delta
    <2>3. d + CounterDelta(s, p) + CounterDelta(c, s) <= k
      BY <1>5, <1>8
    <2>4. QED
      BY <1>4, <2>2, <2>3
  <1>9. Conserved(u)'
    BY <1>1, <1>2, <1>6, <1>7, <1>8 DEF Conserved
  <1>10. QED
    BY <1>1, <1>3, <1>9 DEF Account

LEMMA ScrapeAccount == ASSUME Shaped, NEW u \in Users, Account(u), Scrape PROVE Account(u)'
  <1>1. scraped' = counter /\ UNCHANGED <<carried, counter, prev, daily, samples, hourly, stamp, mishaps>>
    BY DEF Scrape, world, traffic, luck
  <1>2. Charged(u)' = Charged(u)
    BY <1>1 DEF Charged
  <1>3. Bounded(u)'
    BY <1>1, <1>2 DEF Account, Bounded
  <1> DEFINE d == Charged(u)
             c == counter[u]
             p == prev[u]
             k == carried[u]
  <1>4. d \in Nat /\ c \in Nat /\ p \in Nat /\ k \in Nat
    BY Counts
  <1>5. d + CounterDelta(c, p) <= k
    BY DEF Account, Conserved
  <1>6. carried'[u] = k /\ prev'[u] = p /\ counter'[u] = c /\ scraped'[u] = c /\ Charged(u)' = d
    BY <1>1, <1>2
  <1>7. Complete(u) => Complete(u)'
    <2>1. c <= c
      BY <1>4
    <2>2. Complete(u) => d = p /\ p <= c
      BY DEF Complete
    <2> HIDE DEF d, c, p, k
    <2>3. QED
      BY <1>6, <2>1, <2>2 DEF Complete
  <1> HIDE DEF d, c, p, k
  <1>8. d + CounterDelta(c, p) + CounterDelta(c, c) <= k
    <2>1. CounterDelta(c, c) = 0 /\ CounterDelta(c, p) \in Nat
      BY <1>4, Delta
    <2>2. QED
      BY <1>4, <1>5, <2>1
  <1>9. Conserved(u)'
    BY <1>5, <1>6, <1>8 DEF Conserved
  <1>10. QED
    BY <1>1, <1>3, <1>7, <1>9 DEF Account

\* Both tables grow by what is added.
LEMMA StoreSums ==
    ASSUME Shaped, Store, NEW u \in Users
    PROVE  \/ /\ now \notin DOMAIN samples[u] /\ prev'[u] = scraped[u]
              /\ Charged(u)' = Charged(u) + Added(u)
              /\ SumFunction(samples'[u]) = SumFunction(samples[u]) + Added(u)
           \/ /\ now \in DOMAIN samples[u] /\ prev'[u] = prev[u]
              /\ Charged(u)' = Charged(u) /\ SumFunction(samples'[u]) = SumFunction(samples[u])
  <1>1. Added(u) \in Nat
    BY StoreUser
  <1>2. samples[u] \in Rows(Time) /\ daily[u] \in Rows(Time) /\ now \in Time /\ DayOf(now) \in Time
    BY Shapes, TrafficConstants
  <1> DEFINE a == Added(u)
             m == samples[u]
             r == daily[u]
             d == DayOf(now)
  <1>3. a \in Nat /\ m \in Rows(Time) /\ r \in Rows(Time) /\ now \in Time /\ d \in Time
    BY <1>1, <1>2
  <1> HIDE DEF a, m, r, d
  <1>4. SumFunction(Plus(m, now, a)) = SumFunction(m) + a
    BY <1>3, PlusSums
  <1>5. SumFunction(Plus(r, d, a)) = SumFunction(r) + a
    <2>1. r \in Rows(Time) /\ d \in Time /\ a \in Nat
      BY <1>3
    <2>2. QED
      BY <2>1, PlusSums
  <1>6. QED
    BY <1>4, <1>5, StoreUser DEF Charged, a, m, r, d

LEMMA StoreAccount == ASSUME Shaped, NEW u \in Users, Account(u), Store PROVE Account(u)'
  <1>1. UNCHANGED <<carried, counter, scraped, hourly, mishaps>> /\ scraped # None /\ Stored /\ stamp' # Never
    <2>1. now \in Nat /\ now # Never
      BY Shapes, TrafficConstants DEF Time, Never
    <2>2. QED
      BY <2>1 DEF Store, world, luck, Stored
  <1>2. ~ Stored'
    BY <1>1 DEF Stored
  <1>3. CASE prev'[u] = prev[u] /\ Charged(u)' = Charged(u) /\ SumFunction(samples'[u]) = SumFunction(samples[u])
    BY <1>1, <1>2, <1>3 DEF Account, Conserved, Complete, Bounded
  <1>4. CASE /\ prev'[u] = scraped[u]
             /\ Charged(u)' = Charged(u) + Added(u)
             /\ SumFunction(samples'[u]) = SumFunction(samples[u]) + Added(u)
    <2> DEFINE d == Charged(u)
               a == Added(u)
               c == counter[u]
               p == prev[u]
               k == carried[u]
               s == scraped[u]
               m == SumFunction(samples[u])
               r == CounterDelta(c, s)
    <2>1. d \in Nat /\ a \in Nat /\ c \in Nat /\ p \in Nat /\ k \in Nat /\ s \in Nat /\ m \in Nat /\ r \in Nat
      BY <1>1, Counts DEF Added
    <2>2. d + a + r <= k /\ m <= d
      BY <1>1 DEF Account, Conserved, Bounded, Added
    <2>3. "teleproxy" \notin mishaps => d = p /\ p <= s /\ s <= c /\ a = s - p
      <3>1. ASSUME "teleproxy" \notin mishaps PROVE d = p /\ p <= s /\ s <= c
        BY <1>1, <3>1 DEF Account, Complete
      <3>2. p <= s => a = s - p
        BY <2>1, Delta DEF Added
      <3>3. QED
        BY <3>1, <3>2
    <2>4. /\ prev'[u] = s /\ Charged(u)' = d + a /\ SumFunction(samples'[u]) = m + a
          /\ carried'[u] = k /\ counter'[u] = c /\ scraped'[u] = s
      BY <1>1, <1>4
    <2> HIDE DEF d, a, c, p, k, s, m
    <2>5. Conserved(u)'
      BY <1>2, <2>2, <2>4 DEF Conserved
    <2>6. m + a <= d + a
      BY <2>1, <2>2
    <2>7. Bounded(u)'
      <3>1. \A h \in DOMAIN hourly[u] : hourly[u][h] <= MaxBytes
        BY DEF Account, Bounded
      <3>2. QED
        BY <1>1, <2>4, <2>6, <3>1 DEF Bounded
    <2>8. ASSUME "teleproxy" \notin mishaps PROVE Complete(u)'
      <3>1. d + a = s /\ s <= c
        BY <2>1, <2>3, <2>8
      <3>2. QED
        BY <1>2, <2>4, <3>1 DEF Complete
    <2>9. QED
      BY <1>1, <2>5, <2>7, <2>8 DEF Account
  <1>5. QED
    BY <1>3, <1>4, StoreSums

LEMMA StepAccounts == Shaped /\ Accounts /\ [Next]_vars => Accounts'
  <1> SUFFICES ASSUME Shaped, Accounts, [Next]_vars, NEW u \in Users PROVE Account(u)'
    BY DEF Accounts
  <1>1. Account(u)
    BY DEF Accounts
  <1>2. QED
    BY <1>1, TransferAccount, OtherAccount, RetainAccount, RestartAccount, ScrapeAccount, StoreAccount
       DEF Next, Sample, Retain

-----------------------------------------------------------------------------
(* Traffic: the trend, the same with the sums over all users. *)

Total(c) == SumFunction(c)

\* Of the connections there were, the trend has no more than those before the last scrape that
\* was stored, the next one adds no more than those before it, and so on.
Trend ==
    /\ opsPrev = None => SumFunction(ops) = 0
    /\ opsPrev # None =>
          SumFunction(ops) + CounterDelta(Total(counter), opsPrev[1]) <= Total(carried)
    /\ opsPrev # None /\ scraped # None =>
          SumFunction(ops) + CounterDelta(Total(scraped), opsPrev[1])
                           + CounterDelta(Total(counter), Total(scraped)) <= Total(carried)

LEMMA Totals ==
    ASSUME Shaped
    PROVE  /\ Total(counter) \in Nat /\ Total(carried) \in Nat /\ Total(counter) <= Total(carried)
           /\ scraped # None => Total(scraped) \in Nat
           /\ opsPrev # None => opsPrev[1] \in Nat
           /\ SumFunction(ops) \in Nat
  <1>1. counter \in Counters /\ carried \in Counters /\ (scraped # None => scraped \in Counters)
    BY DEF Shaped, Metered
  <1>2. ASSUME NEW c \in Counters PROVE Total(c) \in Nat /\ DOMAIN c = Users
    <2>1. DOMAIN c = Users /\ IsFiniteSet(Users) /\ (\A u \in Users : c[u] \in Nat) /\ Users \in SUBSET Users
      BY TrafficConstants DEF Counters
    <2>2. QED
      BY <2>1, SumIn DEF SumFunction, Total
  <1>3. Total(counter) <= Total(carried)
    <2>1. IsFiniteSet(Users) /\ Users \in SUBSET Users
      BY TrafficConstants
    <2>2. \A u \in Users : counter[u] \in Nat /\ carried[u] \in Nat /\ counter[u] <= carried[u]
      BY Shapes
    <2>3. SumFunctionOnSet(counter, Users) <= SumFunctionOnSet(carried, Users)
      BY <2>1, <2>2, SumMonotone
    <2>4. QED
      BY <1>1, <1>2, <2>3 DEF SumFunction, Total
  <1>4. ops \in Rows(Time) /\ (opsPrev # None => opsPrev[1] \in Nat)
    BY DEF Shaped, Tables
  <1>5. SumFunction(ops) \in Nat
    BY <1>4, RowSums
  <1>6. QED
    BY <1>1, <1>2, <1>3, <1>4, <1>5

LEMMA InitTrend == Init => Trend
  BY NoneSum DEF Init, Trend

\* The counters stay as they are, and so does the trend, or rows are deleted.
LEMMA QuietTrend ==
    ASSUME Shaped, Trend, UNCHANGED <<counter, carried, opsPrev>>, scraped' \in {None, scraped},
           SumFunction(ops') <= SumFunction(ops), SumFunction(ops') \in Nat
    PROVE  Trend'
  <1> DEFINE o == SumFunction(ops)
             p == SumFunction(ops')
             q == opsPrev[1]
             c == Total(counter)
             k == Total(carried)
             s == Total(scraped)
  <1>1. /\ o \in Nat /\ p \in Nat /\ p <= o /\ c \in Nat /\ k \in Nat
        /\ (opsPrev # None => q \in Nat) /\ (scraped # None => s \in Nat)
    BY Totals
  <1>2. (opsPrev = None => o = 0) /\ (opsPrev # None => o + CounterDelta(c, q) <= k)
    BY DEF Trend
  <1>3. opsPrev # None /\ scraped # None => o + CounterDelta(s, q) + CounterDelta(c, s) <= k
    BY DEF Trend
  <1>4. SumFunction(ops)' = p /\ opsPrev' = opsPrev /\ Total(counter)' = c /\ Total(carried)' = k
        /\ (scraped' # None => scraped # None /\ Total(scraped)' = s)
    BY DEF Total
  <1>5. opsPrev # None => opsPrev'[1] = q
    BY <1>4
  <1> HIDE DEF o, p, q, c, k, s
  <1>6. opsPrev = None => p = 0
    BY <1>1, <1>2
  <1>7. ASSUME opsPrev # None PROVE p + CounterDelta(c, q) <= k
    <2>1. CounterDelta(c, q) \in Nat
      BY <1>1, <1>7, Delta
    <2>2. QED
      BY <1>1, <1>2, <1>7, <2>1
  <1>8. ASSUME opsPrev # None, scraped # None PROVE p + CounterDelta(s, q) + CounterDelta(c, s) <= k
    <2>1. CounterDelta(s, q) \in Nat /\ CounterDelta(c, s) \in Nat
      BY <1>1, <1>8, Delta
    <2>2. QED
      BY <1>1, <1>3, <1>8, <2>1
  <1>9. QED
    BY <1>4, <1>5, <1>6, <1>7, <1>8 DEF Trend

LEMMA OtherTrend ==
    ASSUME Shaped, Trend,
           [\/ Pass \/ PanelRestarts \/ SaveRetention \/ ScrapeFails \/ Store \/ StoreFails
            \/ StoreOpsFails \/ Retain]_vars
    PROVE  Trend'
  <1>1. UNCHANGED <<counter, carried, opsPrev>>
    BY DEF Pass, PanelRestarts, SaveRetention, ScrapeFails, Store, StoreFails, StoreOpsFails, Retain, Begin,
       Aggregate, DeleteSamples, DeleteHourly, DeleteOps, RetentionFails, Step, vars, world, sampler, trend
  <1>2. scraped' \in {None, scraped}
    BY DEF Pass, PanelRestarts, SaveRetention, ScrapeFails, Store, StoreFails, StoreOpsFails, Ticked, Retain,
       Begin, Aggregate, DeleteSamples, DeleteHourly, DeleteOps, RetentionFails, Step, vars, sampler
  <1>3. SumFunction(ops') <= SumFunction(ops) /\ SumFunction(ops') \in Nat
    <2>1. SumFunction(ops) \in Nat /\ ops \in Rows(Time)
      BY Totals DEF Shaped, Tables
    <2>2. CASE ops' = ops
      BY <2>1, <2>2
    <2>3. CASE DeleteOps
      <3> DEFINE s == {t \in DOMAIN ops : t >= cutoffs.minute}
      <3>1. ops' = Restrict(ops, s) /\ s \in SUBSET (DOMAIN ops) /\ Time \in SUBSET Time
        BY <2>3 DEF DeleteOps
      <3> HIDE DEF s
      <3>2. SumFunction(Restrict(ops, s)) = Within(ops, s)
        BY <2>1, <3>1, RestrictRow
      <3>3. Within(ops, s) \in Nat /\ Within(ops, s) <= SumFunction(ops)
        BY <2>1, RowSums
      <3>4. QED
        BY <3>1, <3>2, <3>3
    <2>4. ops' = ops \/ DeleteOps
      BY DEF Pass, PanelRestarts, SaveRetention, ScrapeFails, Store, StoreFails, StoreOpsFails, Retain,
         Begin, Aggregate, DeleteSamples, DeleteHourly, RetentionFails, vars, sampler, trend
    <2>5. QED
      BY <2>2, <2>3, <2>4
  <1>4. QED
    BY <1>1, <1>2, <1>3, QuietTrend

\* One more byte is one more in both sums.
LEMMA Bumped ==
    ASSUME NEW c, NEW d, DOMAIN c = Users, DOMAIN d = Users, \A v \in Users : c[v] \in Nat /\ d[v] \in Nat,
           NEW u \in Users, d[u] = c[u] + 1, \A v \in Users : v # u => c[v] = d[v]
    PROVE  Total(d) = Total(c) + 1
  <1>1. IsFiniteSet(Users) /\ Users \in SUBSET Users
    BY TrafficConstants
  <1>2. \A s \in SUBSET Users : SumFunctionOnSet(d, s) =
           IF u \in s THEN SumFunctionOnSet(c, s) + 1 ELSE SumFunctionOnSet(c, s)
    BY <1>1, SumBumped
  <1>3. SumFunctionOnSet(d, Users) = SumFunctionOnSet(c, Users) + 1
    BY <1>1, <1>2
  <1>4. QED
    BY <1>3 DEF Total, SumFunction

LEMMA TransferTrend == ASSUME Shaped, Trend, NEW u \in Users, Transfer(u) PROVE Trend'
  <1> DEFINE o == SumFunction(ops)
             q == opsPrev[1]
             c == Total(counter)
             k == Total(carried)
             s == Total(scraped)
  <1>1. /\ o \in Nat /\ c \in Nat /\ k \in Nat
        /\ (opsPrev # None => q \in Nat) /\ (scraped # None => s \in Nat)
    BY Totals
  <1>2. (opsPrev = None => o = 0) /\ (opsPrev # None => o + CounterDelta(c, q) <= k)
    BY DEF Trend
  <1>3. opsPrev # None /\ scraped # None => o + CounterDelta(s, q) + CounterDelta(c, s) <= k
    BY DEF Trend
  <1>4. UNCHANGED <<ops, opsPrev, scraped>>
    BY DEF Transfer, sampler, trend
  <1>5. Total(counter)' = c + 1 /\ Total(carried)' = k + 1
    <2>1. carried \in [Users -> Nat] /\ counter \in [Users -> Nat]
      BY TrafficConstants DEF Shaped, Metered, Counters
    <2>2. carried' = [carried EXCEPT ![u] = @ + 1] /\ counter' = [counter EXCEPT ![u] = @ + 1]
      BY DEF Transfer
    <2>3. /\ DOMAIN carried = Users /\ DOMAIN carried' = Users
          /\ DOMAIN counter = Users /\ DOMAIN counter' = Users
          /\ \A v \in Users : /\ carried[v] \in Nat /\ carried'[v] \in Nat
                              /\ counter[v] \in Nat /\ counter'[v] \in Nat
          /\ carried'[u] = carried[u] + 1 /\ counter'[u] = counter[u] + 1
          /\ \A v \in Users : v # u => carried[v] = carried'[v] /\ counter[v] = counter'[v]
      BY <2>1, <2>2
    <2>4. Total(counter') = c + 1
      BY <2>3, Bumped
    <2>5. Total(carried') = k + 1
      BY <2>3, Bumped
    <2>6. QED
      BY <2>4, <2>5 DEF Total
  <1>6. SumFunction(ops)' = o /\ opsPrev'[1] = q /\ Total(scraped)' = s
    BY <1>4 DEF Total
  <1> HIDE DEF o, q, c, k, s
  <1>7. ASSUME opsPrev # None PROVE o + CounterDelta(c + 1, q) <= k + 1
    <2>1. CounterDelta(c, q) \in Nat /\ CounterDelta(c + 1, q) <= CounterDelta(c, q) + 1
      BY <1>1, <1>7, Delta
    <2>2. CounterDelta(c + 1, q) \in Nat
      <3>1. c + 1 \in Nat
        BY <1>1
      <3>2. QED
        BY <1>1, <1>7, <3>1, Delta
    <2>3. QED
      BY <1>1, <1>2, <1>7, <2>1, <2>2
  <1>8. ASSUME opsPrev # None, scraped # None PROVE o + CounterDelta(s, q) + CounterDelta(c + 1, s) <= k + 1
    <2>1. CounterDelta(s, q) \in Nat /\ CounterDelta(c, s) \in Nat
          /\ CounterDelta(c + 1, s) <= CounterDelta(c, s) + 1
      BY <1>1, <1>8, Delta
    <2>2. CounterDelta(c + 1, s) \in Nat
      <3>1. c + 1 \in Nat
        BY <1>1
      <3>2. QED
        BY <1>1, <1>8, <3>1, Delta
    <2>3. QED
      BY <1>1, <1>3, <1>8, <2>1, <2>2
  <1>9. QED
    BY <1>2, <1>4, <1>5, <1>6, <1>7, <1>8 DEF Trend

LEMMA RestartTrend == ASSUME Shaped, Trend, TeleproxyRestarts PROVE Trend'
  <1> DEFINE o == SumFunction(ops)
             q == opsPrev[1]
             c == Total(counter)
             k == Total(carried)
             s == Total(scraped)
  <1>1. /\ o \in Nat /\ c \in Nat /\ k \in Nat
        /\ (opsPrev # None => q \in Nat) /\ (scraped # None => s \in Nat)
    BY Totals
  <1>2. (opsPrev = None => o = 0) /\ (opsPrev # None => o + CounterDelta(c, q) <= k)
    BY DEF Trend
  <1>3. opsPrev # None /\ scraped # None => o + CounterDelta(s, q) + CounterDelta(c, s) <= k
    BY DEF Trend
  <1>4. UNCHANGED <<ops, opsPrev, scraped, carried>>
    BY DEF TeleproxyRestarts, sampler, trend
  <1>5. Total(counter)' = 0
    <2>1. counter' = [u \in Users |-> 0]
      BY DEF TeleproxyRestarts
    <2>2. DOMAIN counter' = Users /\ (\A u \in Users : counter'[u] = 0) /\ Users \in SUBSET Users
      BY <2>1
    <2>3. SumFunctionOnSet(counter', Users) = 0
      BY <2>2, SumZero, TrafficConstants
    <2>4. QED
      BY <2>2, <2>3 DEF Total, SumFunction
  <1>6. SumFunction(ops)' = o /\ opsPrev'[1] = q /\ Total(scraped)' = s /\ Total(carried)' = k
    BY <1>4 DEF Total
  <1> HIDE DEF o, q, c, k, s
  <1>7. ASSUME opsPrev # None PROVE o + CounterDelta(0, q) <= k
    <2>1. CounterDelta(c, q) \in Nat /\ CounterDelta(0, q) = 0
      BY <1>1, <1>7, Delta
    <2>2. QED
      BY <1>1, <1>2, <1>7, <2>1
  <1>8. ASSUME opsPrev # None, scraped # None PROVE o + CounterDelta(s, q) + CounterDelta(0, s) <= k
    <2>1. CounterDelta(s, q) \in Nat /\ CounterDelta(c, s) \in Nat /\ CounterDelta(0, s) = 0
      BY <1>1, <1>8, Delta
    <2>2. QED
      BY <1>1, <1>3, <1>8, <2>1
  <1>9. QED
    BY <1>2, <1>4, <1>5, <1>6, <1>7, <1>8 DEF Trend

LEMMA ScrapeTrend == ASSUME Shaped, Trend, Scrape PROVE Trend'
  <1> DEFINE o == SumFunction(ops)
             q == opsPrev[1]
             c == Total(counter)
             k == Total(carried)
  <1>1. o \in Nat /\ c \in Nat /\ k \in Nat /\ (opsPrev # None => q \in Nat)
    BY Totals
  <1>2. (opsPrev = None => o = 0) /\ (opsPrev # None => o + CounterDelta(c, q) <= k)
    BY DEF Trend
  <1>3. UNCHANGED <<ops, opsPrev, carried, counter>> /\ scraped' = counter
    BY DEF Scrape, trend, world
  <1>4. SumFunction(ops)' = o /\ opsPrev'[1] = q /\ Total(scraped)' = c /\ Total(carried)' = k
        /\ Total(counter)' = c
    BY <1>3 DEF Total
  <1> HIDE DEF o, q, c, k
  <1>5. ASSUME opsPrev # None PROVE o + CounterDelta(c, q) + CounterDelta(c, c) <= k
    <2>1. CounterDelta(c, q) \in Nat /\ CounterDelta(c, c) = 0
      BY <1>1, <1>5, Delta
    <2>2. QED
      BY <1>1, <1>2, <1>5, <2>1
  <1>6. QED
    BY <1>2, <1>3, <1>4, <1>5 DEF Trend

LEMMA StoreTrend == ASSUME Shaped, Trend, StoreOps PROVE Trend'
  <1> DEFINE o == SumFunction(ops)
             p == SumFunction(ops')
             q == opsPrev[1]
             c == Total(counter)
             k == Total(carried)
             s == Total(scraped)
  <1>1. /\ scraped # None /\ s \in Nat /\ ops' \in Rows(Time) /\ opsPrev' = [one \in {1} |-> s]
        /\ (opsPrev = None => ops' = ops)
        /\ (opsPrev # None => p <= o + CounterDelta(s, q))
    BY OpsStored DEF Total
  <1>2. o \in Nat /\ c \in Nat /\ k \in Nat /\ c <= k /\ (opsPrev # None => q \in Nat)
    BY Totals
  <1>3. p \in Nat
    BY <1>1, RowSums
  <1>4. /\ opsPrev = None => o = 0
        /\ opsPrev # None => o + CounterDelta(s, q) + CounterDelta(c, s) <= k
    BY <1>1 DEF Trend
  <1>5. UNCHANGED <<carried, counter>> /\ scraped' = None
    BY DEF StoreOps, Ticked, world
  <1>6. SumFunction(ops)' = p /\ Total(carried)' = k /\ Total(counter)' = c
    BY <1>5 DEF Total
  <1>7. opsPrev' # None /\ opsPrev'[1] = s
    <2>1. 1 \in DOMAIN opsPrev' /\ DOMAIN None = {}
      BY <1>1 DEF None
    <2>2. QED
      BY <1>1, <2>1
  <1>8. opsPrev = None => p = 0
    BY <1>1, <1>4
  <1> HIDE DEF o, p, q, c, k, s
  <1>9. p + CounterDelta(c, s) <= k
    <2>1. CounterDelta(c, s) \in Nat /\ CounterDelta(c, s) <= c
      BY <1>1, <1>2, Delta
    <2>2. CASE opsPrev = None
      BY <1>2, <1>8, <2>1, <2>2
    <2>3. CASE opsPrev # None
      <3>1. CounterDelta(s, q) \in Nat
        BY <1>1, <1>2, <2>3, Delta
      <3>2. QED
        BY <1>1, <1>2, <1>3, <1>4, <2>1, <2>3, <3>1
    <2>4. QED
      BY <2>2, <2>3
  <1>10. QED
    BY <1>5, <1>6, <1>7, <1>9 DEF Trend

LEMMA StepTrend == ASSUME Shaped, Trend, [Next]_vars PROVE Trend'
  BY OtherTrend, TransferTrend, RestartTrend, ScrapeTrend, StoreTrend DEF Next, Sample

-----------------------------------------------------------------------------
(* Traffic: what the charts show. *)

\* The old samples of a run that has summed them up and not deleted them yet count once.
Shown(u) ==
    "retention" \notin mishaps =>
        IF step = "delete_samples"
        THEN SumFunction(hourly[u]) + Within(samples[u], Kept) <= Charged(u)
        ELSE SumFunction(hourly[u]) + SumFunction(samples[u]) <= Charged(u)

LEMMA ShownCounts ==
    ASSUME Shaped, NEW u \in Users
    PROVE  /\ SumFunction(hourly[u]) \in Nat /\ SumFunction(samples[u]) \in Nat /\ Charged(u) \in Nat
           /\ Within(samples[u], Kept) \in Nat
           /\ SumFunction(samples[u]) = Within(samples[u], Old(u)) + Within(samples[u], Kept)
           /\ Within(samples[u], Old(u)) \in Nat
  <1>1. samples[u] \in Rows(Time) /\ hourly[u] \in Rows(Time)
    BY Shapes
  <1>2. /\ SumFunction(hourly[u]) \in Nat /\ SumFunction(samples[u]) \in Nat /\ Charged(u) \in Nat
        /\ Within(samples[u], Kept) \in Nat /\ Within(samples[u], Old(u)) \in Nat
    BY <1>1, Counts, RowSums
  <1> DEFINE r == samples[u]
             D == DOMAIN r
             old == D \cap Old(u)
             new == D \cap Kept
  <1>3. old \cup new = D /\ old \cap new = {}
    <2>1. D \subseteq Time /\ cutoffs.minute \in Nat /\ Time \subseteq Nat
      BY <1>1, Shapes, RowSums, TrafficConstants
    <2> DEFINE c == cutoffs.minute
    <2>2. old = {t \in D : t < c} /\ new = {t \in D : t >= c}
      <3>1. c \in Nat /\ \A t \in D : t \in Time
        BY <2>1
      <3>2. QED
        BY <3>1 DEF Old, Kept
    <2>3. c \in Nat
      BY <2>1
    <2>4. \A t \in D : t \in Nat
      BY <2>1
    <2> HIDE DEF old, new, c, D
    <2>5. \A t \in D : ~ (t < c) <=> t >= c
      BY <2>3, <2>4
    <2>6. QED
      BY <2>2, <2>5
  <1>4. IsFiniteSet(D) /\ \A t \in D : r[t] \in Nat
    BY <1>1, RowSums
  <1>5. old \in SUBSET D /\ new \in SUBSET D
    OBVIOUS
  <1>6. SumFunctionOnSet(r, old \cup new) = SumFunctionOnSet(r, old) + SumFunctionOnSet(r, new)
    <2> HIDE DEF old, new, D, r
    <2>1. QED
      BY <1>3, <1>4, <1>5, SumUnion
  <1>7. QED
    BY <1>2, <1>3, <1>6 DEF Within, SumFunction

LEMMA InitShown == ASSUME Init, NEW u \in Users PROVE Shown(u)
  BY NoneSum DEF Init, Shown, Charged

LEMMA FrameShown ==
    ASSUME Shaped, NEW u \in Users, Shown(u),
           [\/ Pass \/ (\E v \in Users : Transfer(v)) \/ TeleproxyRestarts \/ PanelRestarts \/ SaveRetention
            \/ Scrape \/ ScrapeFails \/ StoreFails \/ StoreOps \/ StoreOpsFails \/ Begin \/ DeleteOps
            \/ RetentionFails]_vars
    PROVE  Shown(u)'
  <1>1. UNCHANGED <<samples, hourly, daily>>
    BY DEF Pass, Transfer, TeleproxyRestarts, PanelRestarts, SaveRetention, Scrape, ScrapeFails, StoreFails,
       StoreOps, StoreOpsFails, Begin, DeleteOps, RetentionFails, Step, vars, sampler, traffic
  <1>2. mishaps \subseteq mishaps'
    BY StepLucks DEF Next, Sample, Retain
  <1>3. \/ "retention" \in mishaps'
        \/ UNCHANGED <<step, cutoffs>>
        \/ step # "delete_samples" /\ step' # "delete_samples"
    BY DEF Pass, Transfer, TeleproxyRestarts, PanelRestarts, Happens, SaveRetention, Scrape, ScrapeFails,
       StoreFails, StoreOps, StoreOpsFails, Begin, DeleteOps, RetentionFails, Step, vars, retainer
  <1>4. Charged(u)' = Charged(u) /\ (cutoffs' = cutoffs => Kept' = Kept)
    BY <1>1 DEF Charged, Kept
  <1>5. QED
    BY <1>1, <1>2, <1>3, <1>4 DEF Shown

LEMMA StoreShown == ASSUME Shaped, NEW u \in Users, Shown(u), Store PROVE Shown(u)'
  <1>1. UNCHANGED <<hourly, step, cutoffs, mishaps>>
    BY DEF Store, retainer, luck
  <1>2. Kept' = Kept
    BY <1>1 DEF Kept
  <1> DEFINE h == SumFunction(hourly[u])
             w == Within(samples[u], Kept)
             m == SumFunction(samples[u])
             d == Charged(u)
             a == Added(u)
  <1>3. h \in Nat /\ w \in Nat /\ m \in Nat /\ d \in Nat /\ a \in Nat
    BY ShownCounts, StoreUser
  <1>4. \/ /\ Charged(u)' = d /\ SumFunction(samples'[u]) = m /\ Within(samples'[u], Kept) = w
        \/ /\ Charged(u)' = d + a /\ SumFunction(samples'[u]) = m + a
           /\ Within(samples'[u], Kept) = w + a
    <2>1. CASE now \in DOMAIN samples[u]
      BY <2>1, StoreSums, StoreUser
    <2>2. CASE now \notin DOMAIN samples[u]
      <3>1. now \in Kept
        BY Shapes DEF Kept
      <3>2. samples[u] \in Rows(Time) /\ now \in Time
        BY Shapes
      <3>3. Within(Plus(samples[u], now, Added(u)), Kept) = w + a
        <4> DEFINE r == samples[u]
        <4>1. r \in Rows(Time) /\ now \in Time /\ a \in Nat
          BY <1>3, <3>2
        <4> HIDE DEF r, a
        <4>2. \A s : Within(Plus(r, now, a), s) = IF now \in s THEN Within(r, s) + a ELSE Within(r, s)
          BY <4>1, PlusSums
        <4>3. QED
          BY <3>1, <4>2 DEF r, a
      <3>4. QED
        BY <2>2, <3>3, StoreSums, StoreUser
    <2>3. QED
      BY <2>1, <2>2
  <1>5. "retention" \notin mishaps => IF step = "delete_samples" THEN h + w <= d ELSE h + m <= d
    BY DEF Shown
  <1>6. SumFunction(hourly'[u]) = h
    BY <1>1
  <1> HIDE DEF h, w, m, d, a
  <1>7. QED
    BY <1>1, <1>2, <1>3, <1>4, <1>5, <1>6 DEF Shown

LEMMA RetainShown ==
    ASSUME Shaped, NEW u \in Users, Shown(u), Aggregate \/ DeleteSamples \/ DeleteHourly PROVE Shown(u)'
  <1>1. UNCHANGED <<daily, mishaps>>
    BY DEF Aggregate, DeleteSamples, DeleteHourly, Step, luck
  <1> DEFINE h == SumFunction(hourly[u])
             o == Within(samples[u], Old(u))
             w == Within(samples[u], Kept)
             m == SumFunction(samples[u])
             d == Charged(u)
  <1>2. h \in Nat /\ o \in Nat /\ w \in Nat /\ m \in Nat /\ d \in Nat /\ m = o + w
    BY ShownCounts
  <1>3. Charged(u)' = d
    BY <1>1 DEF Charged
  <1>4. "retention" \notin mishaps => IF step = "delete_samples" THEN h + w <= d ELSE h + m <= d
    BY DEF Shown
  <1>5. CASE Aggregate
    <2>1. step = "aggregate" /\ step' = "delete_samples" /\ cutoffs' = cutoffs /\ samples' = samples
      BY <1>5 DEF Aggregate, Step
    <2>2. Within(samples'[u], Kept') = w
      BY <2>1 DEF Kept
    <2> DEFINE n == SumFunction(hourly'[u])
    <2>3. n <= o + h
      BY <1>5, AggregateUser
    <2>4. n \in Nat
      <3>1. hourly'[u] \in Rows(Hours) /\ Rows(Hours) \subseteq Rows(Time)
        BY <1>5, AggregateUser, RowIs, TrafficConstants
      <3>2. QED
        BY <3>1, RowSums
    <2> HIDE DEF h, o, w, m, d, n
    <2>5. "retention" \notin mishaps => n + w <= d
      BY <1>2, <1>4, <2>1, <2>3, <2>4
    <2>6. QED
      BY <1>1, <1>3, <2>1, <2>2, <2>5 DEF Shown, n
  <1>6. CASE DeleteSamples
    <2>1. step = "delete_samples" /\ step' = "delete_hourly" /\ hourly' = hourly
      BY <1>6 DEF DeleteSamples, Step
    <2>2. SumFunction(samples'[u]) = w
      <3> DEFINE r == samples[u]
                 s == DOMAIN r \cap Kept
      <3>1. samples'[u] = Restrict(r, s) /\ r \in Rows(Time) /\ s \in SUBSET (DOMAIN r) /\ Time \in SUBSET Time
        BY <1>6, DeleteUser, Shapes
      <3>2. Within(r, s) = w
        <4>1. DOMAIN r \cap s = DOMAIN r \cap Kept
          OBVIOUS
        <4>2. QED
          BY <4>1 DEF Within
      <3> HIDE DEF r, s
      <3>3. SumFunction(Restrict(r, s)) = Within(r, s)
        BY <3>1, RestrictRow
      <3>4. QED
        BY <3>1, <3>2, <3>3
    <2>3. "retention" \notin mishaps => h + w <= d
      BY <1>4, <2>1
    <2>4. QED
      BY <1>1, <1>3, <2>1, <2>2, <2>3 DEF Shown
  <1>7. CASE DeleteHourly
    <2>1. step = "delete_hourly" /\ step' = "delete_ops" /\ samples' = samples
      BY <1>7 DEF DeleteHourly, Step
    <2> DEFINE n == SumFunction(hourly'[u])
    <2>2. n <= h /\ n \in Nat
      <3> DEFINE r == hourly[u]
                 s == {t \in DOMAIN r : t >= cutoffs.hour}
      <3>1. hourly'[u] = Restrict(r, s) /\ r \in Rows(Time) /\ s \in SUBSET (DOMAIN r) /\ Time \in SUBSET Time
        BY <1>7, Shapes DEF DeleteHourly
      <3> HIDE DEF r, s
      <3>2. SumFunction(Restrict(r, s)) = Within(r, s)
        BY <3>1, RestrictRow
      <3>3. Within(r, s) \in Nat /\ Within(r, s) <= SumFunction(r)
        BY <3>1, RowSums
      <3>4. QED
        BY <3>1, <3>2, <3>3 DEF r
    <2>3. SumFunction(samples'[u]) = m
      BY <2>1
    <2> HIDE DEF h, o, w, m, d, n
    <2>4. "retention" \notin mishaps => n + m <= d
      BY <1>2, <1>4, <2>1, <2>2
    <2>5. QED
      BY <1>1, <1>3, <2>1, <2>3, <2>4 DEF Shown, n
  <1>8. QED
    BY <1>5, <1>6, <1>7

LEMMA StepShown == ASSUME Shaped, NEW u \in Users, Shown(u), [Next]_vars PROVE Shown(u)'
  BY FrameShown, StoreShown, RetainShown DEF Next, Sample, Retain

-----------------------------------------------------------------------------
(* Traffic: the samples of a day add up to its total, until the first of them may be deleted. *)

OfDay(d) == {t \in Time : DayOf(t) = d}

Dated(u) ==
    /\ \A t \in DOMAIN samples[u] : DayOf(t) \in DOMAIN daily[u]
    /\ \A d \in DOMAIN daily[u] : now <= d + shortest => daily[u][d] = Within(samples[u], OfDay(d))

LEMMA InitDated == ASSUME Init, NEW u \in Users PROVE Dated(u)
  <1>1. DOMAIN samples[u] = {} /\ DOMAIN daily[u] = {}
    BY DEF Init, None
  <1>2. QED
    BY <1>1 DEF Dated

LEMMA Days1 == Days \subseteq Nat /\ \A t \in Time : DayOf(t) \in Nat /\ DayOf(t) <= t /\ t \in Nat
  <1>1. \A t \in Time : t \in Nat /\ DayLen \in Nat \ {0}
    BY TrafficConstants
  <1>2. QED
    BY <1>1, Floor, TrafficConstants DEF DayOf, Days

\* The condition on the days only becomes stronger.
LEMMA Later ==
    ASSUME Shaped, [Next]_vars, NEW d \in Nat, now' <= d + shortest'
    PROVE  now <= d + shortest
  <1>1. now \in Nat /\ shortest \in Nat /\ shortest' \in Nat /\ shortest' <= shortest
    BY Shapes, StepKeeping
  <1>2. now' \in Nat /\ now <= now'
    <2>1. now' = now \/ now' = now + 1
      BY DEF Next, Sample, Retain, Pass, Transfer, TeleproxyRestarts, PanelRestarts, SaveRetention, Scrape,
         ScrapeFails, Store, StoreFails, StoreOps, StoreOpsFails, Begin, Aggregate, DeleteSamples,
         DeleteHourly, DeleteOps, RetentionFails, Step, vars, world
    <2>2. QED
      BY <1>1, <2>1
  <1> DEFINE a == now'
             b == shortest'
  <1>3. a \in Nat /\ b \in Nat /\ now <= a /\ b <= shortest /\ a <= d + b
    BY <1>1, <1>2
  <1> HIDE DEF a, b
  <1>4. QED
    BY <1>1, <1>3

LEMMA FrameDated ==
    ASSUME Shaped, NEW u \in Users, Dated(u), [Next]_vars, UNCHANGED <<samples, daily>> PROVE Dated(u)'
  <1>1. ASSUME NEW d \in DOMAIN daily[u], now' <= d + shortest' PROVE daily[u][d] = Within(samples[u], OfDay(d))
    <2>1. d \in Nat
      <3>1. DOMAIN daily[u] \subseteq Days
        BY Shapes, RowIs
      <3>2. QED
        BY <3>1, Days1
    <2>2. now <= d + shortest
      BY <1>1, <2>1, Later
    <2>3. QED
      BY <2>2 DEF Dated
  <1>2. QED
    BY <1>1 DEF Dated

LEMMA StoreDated == ASSUME Shaped, NEW u \in Users, Dated(u), Store PROVE Dated(u)'
  <1>1. UNCHANGED <<now, shortest>>
    BY DEF Store, world, retainer
  <1>2. CASE samples'[u] = samples[u] /\ daily'[u] = daily[u]
    BY <1>1, <1>2 DEF Dated
  <1>3. CASE /\ samples'[u] = Plus(samples[u], now, Added(u))
             /\ daily'[u] = Plus(daily[u], DayOf(now), Added(u))
    <2> DEFINE m == samples[u]
               r == daily[u]
               k == DayOf(now)
               a == Added(u)
    <2>1. /\ m \in Rows(Time) /\ r \in Rows(Days) /\ r \in Rows(Time) /\ now \in Time /\ k \in Days
          /\ a \in Nat /\ Days \in SUBSET Time /\ Time \in SUBSET Time /\ k \in Time /\ now \in OfDay(k)
      BY Shapes, StoreUser, TrafficConstants DEF OfDay
    <2>2. /\ \A t \in DOMAIN m : DayOf(t) \in DOMAIN r
          /\ \A d \in DOMAIN r : now <= d + shortest => r[d] = Within(m, OfDay(d))
      BY DEF Dated
    <2>3. samples'[u] = Plus(m, now, a) /\ daily'[u] = Plus(r, k, a) /\ k = DayOf(now)
      BY <1>3
    <2>4. now <= k + shortest => (k \notin DOMAIN r => Within(m, OfDay(k)) = 0)
      <3>1. ASSUME k \notin DOMAIN r PROVE DOMAIN m \cap OfDay(k) = {}
        BY <2>2, <3>1 DEF OfDay
      <3>2. QED
        BY <3>1, SumNone DEF Within
    <2>5. \A d : d # k => now \notin OfDay(d)
      BY DEF OfDay
    <2> HIDE DEF m, r, k, a
    <2>6. /\ DOMAIN Plus(m, now, a) = DOMAIN m \cup {now}
          /\ DOMAIN Plus(r, k, a) = DOMAIN r \cup {k} /\ \A t \in DOMAIN r : t # k => Plus(r, k, a)[t] = r[t]
      BY DEF Plus
    <2>7. \A s : Within(Plus(m, now, a), s) = IF now \in s THEN Within(m, s) + a ELSE Within(m, s)
      <3>1. m \in Rows(Time) /\ now \in Time /\ a \in Nat
        BY <2>1
      <3>2. QED
        BY <3>1, PlusSums
    <2>8. \A t \in DOMAIN Plus(m, now, a) : DayOf(t) \in DOMAIN Plus(r, k, a)
      BY <2>2, <2>3, <2>6
    <2>9. ASSUME NEW d \in DOMAIN Plus(r, k, a), now <= d + shortest
          PROVE  Plus(r, k, a)[d] = Within(Plus(m, now, a), OfDay(d))
      <3>1. CASE d # k
        <4>1. d \in DOMAIN r /\ Plus(r, k, a)[d] = r[d]
          BY <2>6, <2>9, <3>1
        <4>2. Within(Plus(m, now, a), OfDay(d)) = Within(m, OfDay(d))
          BY <2>5, <2>7, <3>1
        <4>3. QED
          BY <2>2, <2>9, <4>1, <4>2
      <3>2. CASE d = k
        <4>1. Within(Plus(m, now, a), OfDay(k)) = Within(m, OfDay(k)) + a
          BY <2>1, <2>7
        <4>2. Within(r, {k}) = Within(m, OfDay(k))
          <5>1. CASE k \in DOMAIN r
            <6>1. r[k] = Within(m, OfDay(k))
              BY <2>2, <2>9, <3>2, <5>1
            <6>2. Within(r, {k}) = r[k]
              BY <2>1, <5>1, OneRow
            <6>3. QED
              BY <6>1, <6>2
          <5>2. CASE k \notin DOMAIN r
            <6>1. Within(m, OfDay(k)) = 0
              BY <2>4, <2>9, <3>2, <5>2
            <6>2. DOMAIN r \cap {k} = {}
              BY <5>2
            <6>3. Within(r, {k}) = 0
              BY <6>2, SumNone DEF Within
            <6>4. QED
              BY <6>1, <6>3
          <5>3. QED
            BY <5>1, <5>2
        <4>3. Plus(r, k, a)[k] = Within(r, {k}) + a
          BY <2>1, PlusSums
        <4>4. QED
          BY <3>2, <4>1, <4>2, <4>3
      <3>3. QED
        BY <3>1, <3>2
    <2>10. QED
      BY <1>1, <2>3, <2>8, <2>9 DEF Dated
  <1>4. QED
    BY <1>2, <1>3, StoreUser

LEMMA DeleteDated == ASSUME Shaped, NEW u \in Users, Dated(u), DeleteSamples PROVE Dated(u)'
  <1>1. UNCHANGED <<now, shortest, daily>>
    BY DEF DeleteSamples, Step, world
  <1> DEFINE m == samples[u]
             s == DOMAIN m \cap Kept
  <1>2. samples'[u] = Restrict(m, s) /\ m \in Rows(Time) /\ s \in SUBSET (DOMAIN m) /\ Time \in SUBSET Time
    BY DeleteUser, Shapes
  <1>3. /\ \A t \in DOMAIN m : DayOf(t) \in DOMAIN daily[u]
        /\ \A d \in DOMAIN daily[u] : now <= d + shortest => daily[u][d] = Within(m, OfDay(d))
    BY DEF Dated
  <1>4. ASSUME NEW d \in DOMAIN daily[u], now <= d + shortest
        PROVE  Within(m, s \cap OfDay(d)) = Within(m, OfDay(d))
    <2>1. ASSUME NEW t \in DOMAIN m, t \in OfDay(d) PROVE t \in Kept
      <3>1. t \in Time /\ DayOf(t) = d
        BY <2>1 DEF OfDay
      <3>2. t \in Nat /\ d \in Nat /\ d <= t
        BY <3>1, Days1
      <3>3. /\ cutoffs.minute \in Nat /\ shortest \in Nat /\ now \in Nat
            /\ cutoffs.minute = 0 \/ cutoffs.minute + shortest <= now
        BY Shapes DEF Shaped, Retained
      <3> DEFINE c == cutoffs.minute
      <3> HIDE DEF c
      <3>4. c \in Nat /\ (c = 0 \/ c + shortest <= now)
        BY <3>3 DEF c
      <3>5. c <= t
        BY <1>4, <3>2, <3>3, <3>4
      <3>6. QED
        BY <3>1, <3>5 DEF c, Kept
    <2>2. DOMAIN m \cap (s \cap OfDay(d)) = DOMAIN m \cap OfDay(d)
      BY <2>1
    <2>3. QED
      BY <2>2 DEF Within
  <1> HIDE DEF m, s
  <1>5. DOMAIN Restrict(m, s) = s /\ \A v : Within(Restrict(m, s), v) = Within(m, s \cap v)
    BY <1>2, RestrictRow
  <1>6. \A t \in DOMAIN Restrict(m, s) : DayOf(t) \in DOMAIN daily[u]
    BY <1>2, <1>3, <1>5
  <1>7. ASSUME NEW d \in DOMAIN daily[u], now <= d + shortest PROVE daily[u][d] = Within(Restrict(m, s), OfDay(d))
    BY <1>3, <1>4, <1>5, <1>7
  <1>8. QED
    BY <1>1, <1>2, <1>6, <1>7 DEF Dated

LEMMA StepDated == ASSUME Shaped, NEW u \in Users, Dated(u), [Next]_vars PROVE Dated(u)'
  <1>1. Store \/ DeleteSamples \/ UNCHANGED <<samples, daily>>
    BY DEF Next, Sample, Retain, Pass, Transfer, TeleproxyRestarts, PanelRestarts, SaveRetention, Scrape,
       ScrapeFails, StoreFails, StoreOps, StoreOpsFails, Begin, Aggregate, DeleteHourly, DeleteOps,
       RetentionFails, Step, vars, sampler, traffic
  <1>2. QED
    BY <1>1, FrameDated, StoreDated, DeleteDated

-----------------------------------------------------------------------------
(* Traffic: the charts. *)

\* The buckets of a period cover it.
LEMMA Covered ==
    ASSUME NEW p \in Nat \ {0}, NEW B \in Nat \ {0}, p % B = 0, NEW x \in Nat, x < p
    PROVE  x \div (p \div B) \in 0..B - 1
  <1> DEFINE w == p \div B
             q == x \div w
             r == x % w
  <1>1. p = B * w /\ w \in Nat
    <2>1. p = B * w + (p % B) /\ w \in Nat
      BY Divides, Quotient
    <2>2. QED
      BY <2>1
  <1>2. w # 0
    <2>1. w = 0 => B * w = 0
      OBVIOUS
    <2>2. QED
      BY <1>1, <2>1
  <1>3. x = w * q + r /\ q \in Nat /\ r \in 0..w - 1
    <2>1. w \in Nat \ {0}
      BY <1>1, <1>2
    <2> HIDE DEF w
    <2>2. QED
      BY <2>1, Divides, Quotient
  <1>4. w * B = p
    <2> HIDE DEF w
    <2>1. w * B = B * w
      BY <1>1
    <2>2. QED
      BY <1>1, <2>1
  <1>5. w \in Nat \ {0}
    BY <1>1, <1>2
  <1> HIDE DEF w, q, r
  <1>6. w * B <= w * q + r <=> B <= q
    BY <1>3, <1>5, Fits
  <1>7. ~ (B <= q)
    BY <1>3, <1>4, <1>6
  <1>8. q \in 0..B - 1
    BY <1>3, <1>7
  <1>9. QED
    BY <1>8 DEF q, w

Span(from) == {t \in Time : from <= t /\ t < now}

LEMMA ChartIs ==
    ASSUME Shaped, NEW r \in Rows(Time), NEW p \in Periods, p <= now
    PROVE  Chart(r, p) = Within(r, Span(now - p))
  <1> DEFINE start == now - p
             w == p \div Buckets
             K == 0..Buckets - 1
             D == DOMAIN r \cap Span(start)
             key == [t \in D |-> (t - start) \div w]
             g == [i \in K |-> Bucket(r, p, i)]
  <1>1. p \in Nat \ {0} /\ p % Buckets = 0 /\ Buckets \in Nat \ {0} /\ now \in Nat
    BY TrafficAssumption, Shapes
  <1>2. start \in Nat
    BY <1>1
  <1>3. /\ DOMAIN r \subseteq Time /\ IsFiniteSet(DOMAIN r)
        /\ \A t \in DOMAIN r : r[t] \in Nat
    BY RowSums
  <1>4. D \subseteq Time /\ Time \subseteq Nat
    BY <1>3, TrafficConstants
  <1>5. \A t \in D : key[t] \in K
    <2>1. SUFFICES ASSUME NEW t \in D PROVE (t - start) \div w \in K
      OBVIOUS
    <2> DEFINE x == t - start
    <2>2. t \in Nat /\ start <= t /\ t < now
      BY <1>4 DEF Span
    <2>3. x \in Nat /\ x < p
      BY <1>1, <1>2, <2>2
    <2> HIDE DEF x
    <2>4. x \div w \in K
      BY <1>1, <2>3, Covered
    <2>5. QED
      BY <2>4 DEF x
  <1>6. \A i : {t \in D : key[t] = i} =
                  {t \in DOMAIN r : start <= t /\ t < now /\ (t - start) \div (p \div Buckets) = i}
    <2>1. SUFFICES ASSUME NEW i
                   PROVE  \A t : t \in D /\ key[t] = i
                              <=> t \in DOMAIN r /\ start <= t /\ t < now /\ (t - start) \div (p \div Buckets) = i
      OBVIOUS
    <2>2. \A t : t \in D <=> t \in DOMAIN r /\ start <= t /\ t < now
      BY <1>3 DEF Span
    <2>3. \A t \in D : key[t] = (t - start) \div (p \div Buckets)
      OBVIOUS
    <2> HIDE DEF D, key, start
    <2>4. QED
      BY <2>2, <2>3
  <1>7. \A i \in K : g[i] = SumFunctionOnSet(r, {t \in D : key[t] = i})
    <2>1. SUFFICES ASSUME NEW i \in K PROVE Bucket(r, p, i) = SumFunctionOnSet(r, {t \in D : key[t] = i})
      OBVIOUS
    <2> HIDE DEF D, key
    <2>2. {t \in D : key[t] = i} =
             {t \in DOMAIN r : start <= t /\ t < now /\ (t - start) \div (p \div Buckets) = i}
      BY <1>6
    <2>3. QED
      BY <2>2 DEF Bucket
  <1>8. DOMAIN g = K /\ Chart(r, p) = SumFunction(g)
    BY DEF Chart
  <1>9. IsFiniteSet(K) /\ K \in SUBSET K
    <2>1. 0 \in Int /\ Buckets - 1 \in Int
      BY <1>1
    <2>2. QED
      BY <2>1, FS_Interval
  <1>10. IsFiniteSet(D) /\ (\A t \in D : r[t] \in Nat) /\ {t \in D : key[t] \in K} = D
    <2>1. IsFiniteSet(D)
      BY <1>3, FS_Subset
    <2> HIDE DEF key, K
    <2>2. QED
      BY <1>3, <1>5, <2>1
  <1> HIDE DEF start, w, K, D, key, g
  <1>11. Grouped(r, D, key, K, g)
    BY <1>7 DEF Grouped
  <1>12. SumFunctionOnSet(g, K) = SumFunctionOnSet(r, {x \in D : key[x] \in K})
    BY <1>9, <1>10, <1>11, SumGroups
  <1>13. {x \in D : key[x] \in K} = D
    BY <1>10
  <1>14. SumFunctionOnSet(g, K) = SumFunctionOnSet(r, D)
    BY <1>12, <1>13
  <1>15. QED
    BY <1>8, <1>14 DEF SumFunction, Within, D, start

LEMMA Difference ==
    ASSUME NEW D \in Nat \ {0}, NEW a \in Nat, NEW b \in Nat, a % D = 0, b % D = 0, a <= b
    PROVE  b - a \in Nat /\ (b - a) % D = 0
  <1> DEFINE m == a \div D
             n == b \div D
  <1>1. m \in Nat /\ n \in Nat /\ a = D * m /\ b = D * n
    <2>1. a = D * m + (a % D) /\ m \in Nat
      BY Divides, Quotient
    <2>2. b = D * n + (b % D) /\ n \in Nat
      BY Divides, Quotient
    <2> HIDE DEF m, n
    <2>3. QED
      BY <2>1, <2>2
  <1> HIDE DEF m, n
  <1>2. m <= n
    <2>1. 0 \in 0..D - 1
      OBVIOUS
    <2>2. D * m <= D * n + 0 <=> m <= n
      BY <1>1, <2>1, Fits
    <2>3. QED
      BY <1>1, <2>2
  <1>3. n - m \in Nat /\ D * n - D * m = D * (n - m)
    BY <1>1, <1>2
  <1> DEFINE e == n - m
  <1>4. (D * e) % D = 0 /\ D * e \in Nat
    <2>1. e \in Nat
      BY <1>3
    <2> HIDE DEF e
    <2>2. QED
      BY <2>1, Product
  <1>5. QED
    BY <1>1, <1>3, <1>4

\* At midnight a chart adds up to the days it covers.
LEMMA ChartDays ==
    ASSUME Shaped, NEW u \in Users, Dated(u), NEW p \in Periods, p <= shortest, p <= now, now % DayLen = 0
    PROVE  Chart(samples[u], p) =
              SumFunctionOnSet(daily[u], {d \in DOMAIN daily[u] : now - p <= d /\ d < now})
  <1> DEFINE r == samples[u]
             y == daily[u]
             start == now - p
             K == {d \in DOMAIN y : start <= d /\ d < now}
             D == DOMAIN r \cap Span(start)
             key == [t \in D |-> DayOf(t)]
  <1>1. p \in Nat \ {0} /\ p % DayLen = 0 /\ DayLen \in Nat \ {0} /\ now \in Nat /\ shortest \in Nat
    BY TrafficAssumption, Shapes
  <1>2. start \in Nat /\ start % DayLen = 0
    BY <1>1, Difference
  <1>3. r \in Rows(Time) /\ y \in Rows(Days)
    BY Shapes
  <1>4. /\ DOMAIN r \subseteq Time /\ IsFiniteSet(DOMAIN r)
        /\ \A t \in DOMAIN r : r[t] \in Nat
    BY <1>3, RowSums
  <1>5. DOMAIN y \subseteq Days /\ IsFiniteSet(DOMAIN y)
    <2>1. DOMAIN y \subseteq Days /\ DOMAIN y \subseteq Time
      BY <1>3, RowIs, TrafficConstants
    <2>2. QED
      BY <2>1, FS_Subset, TrafficConstants
  <1>6. IsFiniteSet(D) /\ IsFiniteSet(K) /\ K \in SUBSET K /\ \A t \in D : r[t] \in Nat
    <2>1. D \subseteq DOMAIN r /\ K \subseteq DOMAIN y
      OBVIOUS
    <2>2. QED
      BY <1>4, <1>5, <2>1, FS_Subset
  \* A day of the period has its samples in it.
  <1>7. ASSUME NEW t \in Time PROVE t \in Span(start) <=> start <= DayOf(t) /\ DayOf(t) < now
    <2>1. t \in Nat
      BY TrafficConstants
    <2> DEFINE a == t - (t % DayLen)
    <2>2. a \in Nat /\ (start <= a <=> start <= t) /\ (now <= a <=> now <= t)
      BY <1>1, <1>2, <2>1, Floor
    <2>3. a = DayOf(t)
      BY DEF DayOf
    <2> HIDE DEF a, start
    <2>4. start <= t /\ t < now <=> start <= a /\ a < now
      BY <1>1, <2>1, <2>2
    <2>5. QED
      BY <2>3, <2>4 DEF Span
  <1>8. \A t \in D : DayOf(t) \in K
    BY <1>4, <1>7 DEF Dated
  <1>9. ASSUME NEW d \in K PROVE y[d] = SumFunctionOnSet(r, {t \in D : key[t] = d})
    <2>1. d \in Nat /\ d \in DOMAIN y /\ start <= d /\ d < now
      BY <1>5, Days1
    <2>2. now <= d + shortest
      BY <1>1, <2>1
    <2>3. y[d] = Within(r, OfDay(d))
      BY <2>1, <2>2 DEF Dated
    <2>4. \A t : t \in DOMAIN r \cap OfDay(d) <=> t \in D /\ DayOf(t) = d
      BY <1>4, <1>7, <2>1 DEF OfDay
    <2>5. \A t \in D : key[t] = DayOf(t)
      OBVIOUS
    <2> HIDE DEF D, key
    <2>6. DOMAIN r \cap OfDay(d) = {t \in D : key[t] = d}
      BY <2>4, <2>5
    <2>7. QED
      BY <2>3, <2>6 DEF Within
  <1>10. \A t \in D : key[t] \in K
    BY <1>8
  <1> HIDE DEF r, y, start, K, D, key
  <1>11. Grouped(r, D, key, K, y)
    BY <1>9 DEF Grouped
  <1>12. SumFunctionOnSet(y, K) = SumFunctionOnSet(r, {x \in D : key[x] \in K})
    BY <1>6, <1>11, SumGroups
  <1>13. {x \in D : key[x] \in K} = D
    BY <1>10
  <1>14. SumFunctionOnSet(y, K) = SumFunctionOnSet(r, D)
    BY <1>12, <1>13
  <1>15. Chart(r, p) = Within(r, Span(start))
    BY <1>3, ChartIs DEF start
  <1>16. QED
    BY <1>14, <1>15 DEF Within, D, K, y, r, start

-----------------------------------------------------------------------------
(* Traffic: the theorems. *)

Charts == \A u \in Users : Shown(u) /\ Dated(u)

TrafficInv == Shaped /\ Accounts /\ Trend /\ Charts

LEMMA TrafficInvariant == Spec => []TrafficInv
  <1>1. Init => TrafficInv
    BY InitShaped, InitAccounts, InitTrend, InitShown, InitDated DEF TrafficInv, Charts
  <1>2. TrafficInv /\ [Next]_vars => TrafficInv'
    <2>1. SUFFICES ASSUME TrafficInv, [Next]_vars PROVE TrafficInv'
      OBVIOUS
    <2>2. Shaped /\ Accounts /\ Trend /\ \A u \in Users : Shown(u) /\ Dated(u)
      BY <2>1 DEF TrafficInv, Charts
    <2>3. Shaped' /\ Accounts' /\ Trend'
      BY <2>1, <2>2, StepShaped, StepAccounts, StepTrend
    <2>4. \A u \in Users : Shown(u)' /\ Dated(u)'
      BY <2>1, <2>2, StepShown, StepDated
    <2>5. QED
      BY <2>3, <2>4 DEF TrafficInv, Charts
  <1>3. QED
    BY <1>1, <1>2, PTL DEF Spec

\* A quota is charged no more than was carried: there is room for everything in the rows.
LEMMA NotOver ==
    ASSUME Shaped, Accounts, NEW u \in Users
    PROVE  Charged(u) <= carried[u] /\ SumFunction(samples[u]) <= Charged(u) /\ carried[u] <= MaxBytes
           /\ Charged(u) \in Nat /\ carried[u] \in Nat /\ SumFunction(samples[u]) \in Nat
  <1> DEFINE d == Charged(u)
             x == CounterDelta(counter[u], prev[u])
             k == carried[u]
  <1>1. d \in Nat /\ k \in Nat /\ x \in Nat /\ SumFunction(samples[u]) \in Nat
    BY Counts
  <1>2. d + x <= k /\ SumFunction(samples[u]) <= d
    BY DEF Accounts, Account, Conserved, Bounded
  <1>3. k <= MaxBytes
    BY Shapes
  <1> HIDE DEF d, x, k
  <1>4. d <= k
    BY <1>1, <1>2
  <1>5. QED
    BY <1>1, <1>2, <1>3, <1>4 DEF d, k

\* Every variable of Traffic has the type its comment gives it, the rows of a user no more
\* bytes than the user may transfer.
THEOREM TrafficTypeCorrect == Spec => []TypeOK
  <1>1. TrafficInv => TypeOK
    <2>1. SUFFICES ASSUME Shaped, Accounts PROVE TypeOK
      BY DEF TrafficInv
    <2>2. ASSUME NEW u \in Users
          PROVE  /\ DOMAIN samples[u] \subseteq Time /\ DOMAIN hourly[u] \subseteq Hours
                 /\ DOMAIN daily[u] \subseteq Days
                 /\ Range(samples[u]) \cup Range(hourly[u]) \cup Range(daily[u]) \subseteq 0..MaxBytes
      <3>1. samples[u] \in Rows(Time) /\ hourly[u] \in Rows(Hours) /\ daily[u] \in Rows(Days)
            /\ daily[u] \in Rows(Time) /\ MaxBytes \in Nat
        BY <2>1, Shapes
      <3>2. /\ DOMAIN samples[u] \subseteq Time /\ DOMAIN hourly[u] \subseteq Hours
            /\ DOMAIN daily[u] \subseteq Days
            /\ (\A t \in DOMAIN samples[u] : samples[u][t] \in Nat)
            /\ (\A t \in DOMAIN hourly[u] : hourly[u][t] \in Nat)
            /\ (\A t \in DOMAIN daily[u] : daily[u][t] \in Nat)
        BY <3>1, RowIs
      <3> DEFINE m == SumFunction(samples[u])
                 d == Charged(u)
      <3>3. m <= d /\ d <= carried[u] /\ carried[u] <= MaxBytes /\ m \in Nat /\ d \in Nat /\ carried[u] \in Nat
        BY <2>1, NotOver
      <3>4. (\A t \in DOMAIN samples[u] : samples[u][t] <= m) /\ (\A t \in DOMAIN daily[u] : daily[u][t] <= d)
        BY <3>1, RowSums DEF Charged
      <3> HIDE DEF m, d
      <3>5. m <= MaxBytes /\ d <= MaxBytes
        BY <3>1, <3>3
      <3>6. ASSUME NEW t \in DOMAIN samples[u] PROVE samples[u][t] <= MaxBytes
        <4> DEFINE x == samples[u][t]
        <4>1. x \in Nat /\ x <= m
          BY <3>2, <3>4
        <4> HIDE DEF x
        <4>2. x <= MaxBytes
          BY <3>1, <3>3, <3>5, <4>1
        <4>3. QED
          BY <4>2 DEF x
      <3>7. ASSUME NEW t \in DOMAIN daily[u] PROVE daily[u][t] <= MaxBytes
        <4> DEFINE x == daily[u][t]
        <4>1. x \in Nat /\ x <= d
          BY <3>2, <3>4
        <4> HIDE DEF x
        <4>2. x <= MaxBytes
          BY <3>1, <3>3, <3>5, <4>1
        <4>3. QED
          BY <4>2 DEF x
      <3>8. \A t \in DOMAIN hourly[u] : hourly[u][t] <= MaxBytes
        BY <2>1 DEF Accounts, Account, Bounded
      <3>9. /\ \A t \in DOMAIN samples[u] : samples[u][t] \in 0..MaxBytes
            /\ \A t \in DOMAIN hourly[u] : hourly[u][t] \in 0..MaxBytes
            /\ \A t \in DOMAIN daily[u] : daily[u][t] \in 0..MaxBytes
        BY <3>1, <3>2, <3>6, <3>7, <3>8
      <3>10. QED
        BY <3>2, <3>9 DEF Range
    <2>3. DOMAIN ops \subseteq Time /\ Range(ops) \subseteq Nat
      <3>1. ops \in Rows(Time)
        BY <2>1 DEF Shaped, Tables
      <3>2. QED
        BY <3>1, RowIs DEF Range
    <2>4. QED
      BY <2>1, <2>2, <2>3 DEF TypeOK, Shaped, Metered, Tables, Retained, Counters, Steps, Minutes
  <1>2. QED
    BY <1>1, TrafficInvariant, PTL

\* A quota is charged no byte that was not carried, and as long as Teleproxy runs on the bytes
\* that have been charged are those of the last counter that was stored.
THEOREM ChargedExactlyHolds == Spec => []ChargedExactly
  <1>1. TrafficInv => ChargedExactly
    <2>1. SUFFICES ASSUME Shaped, Accounts PROVE ChargedExactly
      BY DEF TrafficInv
    <2>2. NeverOvercharged
      BY <2>1, NotOver DEF NeverOvercharged, Charged
    <2>3. NothingLost
      BY <2>1 DEF NothingLost, Accounts, Account, Complete, Charged
    <2>4. QED
      BY <2>2, <2>3 DEF ChargedExactly
  <1>2. QED
    BY <1>1, TrafficInvariant, PTL

\* Within the shortest retention there has been, the charts add up at midnight to what was
\* charged for the days they cover; hourly rows and samples together show nothing twice; and
\* the trend has no more connections than there were.
THEOREM ShownOnceHolds == Spec => []ShownOnce
  <1>1. TrafficInv => ShownOnce
    <2>1. SUFFICES ASSUME Shaped, Accounts, Trend, Charts PROVE ShownOnce
      BY DEF TrafficInv
    <2>2. ASSUME NEW u \in Users, now % DayLen = 0, NEW p \in Periods, p <= shortest, p <= now
          PROVE  Chart(samples[u], p) =
                    SumFunctionOnSet(daily[u], {d \in DOMAIN daily[u] : now - p <= d /\ d < now})
      BY <2>1, <2>2, ChartDays DEF Charts
    <2>3. ASSUME NEW u \in Users, step = "idle", "retention" \notin mishaps
          PROVE  SumFunction(hourly[u]) + SumFunction(samples[u]) <= SumFunction(daily[u])
      BY <2>1, <2>3 DEF Charts, Shown, Charged
    <2>4. SumFunction(ops) <= SumFunction(carried)
      <3> DEFINE o == SumFunction(ops)
                 q == opsPrev[1]
                 c == Total(counter)
                 k == Total(carried)
      <3>1. o \in Nat /\ c \in Nat /\ k \in Nat /\ (opsPrev # None => q \in Nat)
        BY <2>1, Totals
      <3>2. (opsPrev = None => o = 0) /\ (opsPrev # None => o + CounterDelta(c, q) <= k)
        BY <2>1 DEF Trend
      <3>3. o <= SumFunction(carried) <=> o <= k
        BY DEF Total
      <3> HIDE DEF o, q, c, k
      <3>4. o <= k
        <4>1. CASE opsPrev = None
          BY <3>1, <3>2, <4>1
        <4>2. CASE opsPrev # None
          <5>1. CounterDelta(c, q) \in Nat
            BY <3>1, <4>2, Delta
          <5>2. QED
            BY <3>1, <3>2, <4>2, <5>1
        <4>3. QED
          BY <4>1, <4>2
      <3>5. QED
        BY <3>3, <3>4 DEF o
    <2>5. QED
      BY <2>2, <2>3, <2>4 DEF ShownOnce
  <1>2. QED
    BY <1>1, TrafficInvariant, PTL

-----------------------------------------------------------------------------
(* Quota: the calendar. *)

LEMMA QuotaConstants ==
    /\ TicksPerDay \in Nat \ {0} /\ WeekDays \in Nat \ {0} /\ LastTime \in Nat /\ MaxUsage \in Nat
    /\ Len(Calendar) \in Nat \ {0} /\ \A m \in 1..Len(Calendar) : Calendar[m] \in Nat \ {0}
    /\ Limits \subseteq Nat /\ Ops \subseteq {"set", "reset", "toggle"} /\ TicksPerDay <= LastTime
    /\ \A t \in Times : t \in Nat \ {0} /\ t <= LastTime
    /\ IsFiniteSet(Times) /\ MaxRequests \in Nat
  <1>1. Calendar \in Seq(Nat \ {0}) /\ Calendar # <<>>
    BY QuotaAssumption, CalendarAssumption
  <1>2. Len(Calendar) \in Nat \ {0} /\ \A m \in 1..Len(Calendar) : Calendar[m] \in Nat \ {0}
    BY <1>1
  <1>3. TicksPerDay \in Nat \ {0} /\ LastTime \in Nat
    BY QuotaAssumption
  <1>4. IsFiniteSet(Times) /\ \A t \in Times : t \in Nat \ {0} /\ t <= LastTime
    BY <1>3, FS_Interval DEF Times
  <1>5. QED
    BY <1>2, <1>3, <1>4, QuotaAssumption

\* The starts of the first n months.
Months(f, n) == f = [m \in 1..n |-> IF m = 1 THEN 0 ELSE f[m - 1] + Calendar[m - 1]]

LEMMA MonthsExist == \A n \in Nat : \E f : Months(f, n)
  <1> DEFINE T == {n \in Nat : ~ \E f : Months(f, n)}
  <1>1. ASSUME T # {} PROVE FALSE
    <2>1. PICK n \in T : \A m \in T : ~ (m < n)
      BY <1>1, Least
    <2>2. n # 0
      <3> DEFINE e == [m \in 1..0 |-> 0]
      <3>1. Months(e, 0)
        BY DEF Months
      <3>2. QED
        BY <2>1, <3>1
    <2>3. n - 1 \in Nat /\ n - 1 < n /\ n - 1 \notin T
      BY <2>1, <2>2
    <2>4. PICK f : Months(f, n - 1)
      BY <2>3
    <2> DEFINE g == [m \in 1..n |-> IF m # n THEN f[m]
                                    ELSE IF m = 1 THEN 0 ELSE f[m - 1] + Calendar[m - 1]]
    <2>5. \A m \in 1..n : g[m] = IF m = 1 THEN 0 ELSE g[m - 1] + Calendar[m - 1]
      <3>1. SUFFICES ASSUME NEW m \in 1..n PROVE g[m] = IF m = 1 THEN 0 ELSE g[m - 1] + Calendar[m - 1]
        OBVIOUS
      <3>2. m \in Nat /\ n \in Nat /\ (m # 1 => m - 1 \in 1..n /\ m - 1 # n)
        BY <2>1, <3>1
      <3>3. m # 1 => g[m - 1] = f[m - 1]
        BY <3>2
      <3>4. CASE m = n
        BY <3>3, <3>4
      <3>5. CASE m # n
        <4>1. m \in 1..n - 1 /\ g[m] = f[m]
          BY <2>1, <3>2, <3>5
        <4>2. f[m] = IF m = 1 THEN 0 ELSE f[m - 1] + Calendar[m - 1]
          BY <2>4, <4>1 DEF Months
        <4>3. QED
          BY <3>3, <4>1, <4>2
      <3>6. QED
        BY <3>4, <3>5
    <2>6. g = [m \in 1..n |-> g[m]]
      OBVIOUS
    <2> HIDE DEF g
    <2>7. Months(g, n)
      BY <2>5, <2>6 DEF Months
    <2>8. QED
      BY <2>1, <2>7
  <1>2. QED
    BY <1>1

\* Each month begins after the one before.
LEMMA MonthStarts ==
    /\ DOMAIN MonthStart = 1..Len(Calendar) /\ MonthStart[1] = 0
    /\ \A m \in 1..Len(Calendar) : MonthStart[m] \in Nat
    /\ \A m \in 1..Len(Calendar) - 1 : MonthStart[m + 1] = MonthStart[m] + Calendar[m]
  <1> DEFINE L == Len(Calendar)
  <1>1. Months(MonthStart, L)
    <2>1. L \in Nat
      BY QuotaConstants
    <2>2. \E f : Months(f, L)
      BY <2>1, MonthsExist
    <2>3. MonthStart = CHOOSE f : Months(f, L)
      BY DEF MonthStart, Months
    <2>4. QED
      BY <2>2, <2>3
  <1>2. L \in Nat \ {0} /\ \A m \in 1..L : Calendar[m] \in Nat
    BY QuotaConstants
  <1> HIDE DEF L
  <1>3. DOMAIN MonthStart = 1..L /\ \A m \in 1..L :
            MonthStart[m] = IF m = 1 THEN 0 ELSE MonthStart[m - 1] + Calendar[m - 1]
    BY <1>1 DEF Months
  <1>4. MonthStart[1] = 0
    BY <1>2, <1>3
  <1>5. \A m \in 1..L - 1 : MonthStart[m + 1] = MonthStart[m] + Calendar[m]
    <2>1. SUFFICES ASSUME NEW m \in 1..L - 1 PROVE MonthStart[m + 1] = MonthStart[m] + Calendar[m]
      OBVIOUS
    <2>2. m + 1 \in 1..L /\ m + 1 # 1 /\ (m + 1) - 1 = m
      BY <1>2, <2>1
    <2>3. QED
      BY <1>3, <2>2
  <1>6. \A m \in 1..L : MonthStart[m] \in Nat
    <2> DEFINE T == {m \in Nat : m \in 1..L /\ MonthStart[m] \notin Nat}
    <2>1. ASSUME T # {} PROVE FALSE
      <3>1. PICK m \in T : \A k \in T : ~ (k < m)
        BY <2>1, Least
      <3>2. m \in 1..L /\ m # 1
        BY <1>4, <3>1
      <3>3. m - 1 \in 1..L /\ m - 1 \in 1..L - 1 /\ (m - 1) + 1 = m /\ m - 1 < m
        BY <1>2, <3>2
      <3>4. MonthStart[m - 1] \in Nat /\ Calendar[m - 1] \in Nat
        BY <1>2, <3>1, <3>3
      <3>5. MonthStart[m] = MonthStart[m - 1] + Calendar[m - 1]
        BY <1>3, <3>2
      <3>6. QED
        BY <3>1, <3>4, <3>5
    <2>2. QED
      BY <1>2, <2>1
  <1>7. QED
    BY <1>3, <1>4, <1>5, <1>6 DEF L

LEMMA MaxIn ==
    ASSUME NEW b \in Nat, NEW S \in SUBSET (0..b), S # {}
    PROVE  Max(S) \in S /\ \A x \in S : x <= Max(S)
  <1> DEFINE T == {n \in Nat : b - n \in S}
  <1>1. T \subseteq Nat /\ T # {}
    <2>1. PICK x \in S : TRUE
      OBVIOUS
    <2>2. b - x \in Nat /\ b - (b - x) = x
      BY <2>1
    <2>3. QED
      BY <2>1, <2>2
  <1>2. PICK n \in T : \A m \in T : ~ (m < n)
    BY <1>1, Least
  <1>3. b - n \in S /\ n \in Nat
    BY <1>2
  <1>4. \A x \in S : x <= b - n
    <2>1. SUFFICES ASSUME NEW x \in S PROVE x <= b - n
      OBVIOUS
    <2>2. b - x \in Nat /\ b - (b - x) = x
      BY <2>1
    <2>3. ~ (b - x < n)
      BY <1>2, <2>2
    <2>4. QED
      BY <1>3, <2>2, <2>3
  <1>5. \E y \in S : \A x \in S : y >= x
    BY <1>3, <1>4
  <1>6. Max(S) \in S /\ \A x \in S : Max(S) >= x
    BY <1>5 DEF Max
  <1>7. QED
    BY <1>6

\* The next month has the day too, or a last one.
LEMMA NextMonth ==
    ASSUME NEW t \in Nat, t <= LastTime
    PROVE  /\ AddMonthClamped(t) \in Nat /\ t + TicksPerDay <= AddMonthClamped(t)
           /\ t % TicksPerDay = 0 => AddMonthClamped(t) % TicksPerDay = 0
  <1> DEFINE D == TicksPerDay
             L == Len(Calendar)
             day == t \div D
             S == {m \in DOMAIN MonthStart : MonthStart[m] <= day}
             month == Max(S)
             last == Calendar[month + 1] - 1
             c == Min({day - MonthStart[month], last})
             next == MonthStart[month + 1]
  <1>1. D \in Nat \ {0} /\ L \in Nat \ {0} /\ \A m \in 1..L : Calendar[m] \in Nat \ {0}
    BY QuotaConstants
  <1>2. day \in Nat /\ t = D * day + (t % D) /\ t % D \in 0..D - 1
    BY <1>1, Divides, Quotient
  <1>3. /\ DOMAIN MonthStart = 1..L /\ MonthStart[1] = 0 /\ \A m \in 1..L : MonthStart[m] \in Nat
    BY MonthStarts
  <1>4. AddMonthClamped(t) = (next + c) * D + (t % D)
    BY DEF AddMonthClamped
  <1>5. day < MonthStart[L]
    <2> DEFINE e == MonthStart[L]
    <2>1. e \in Nat /\ LastTime < e * D /\ LastTime \in Nat
      BY <1>1, <1>3, CalendarAssumption, QuotaConstants
    <2>2. ~ (D * e <= D * day + (t % D))
      <3> HIDE DEF e, D, day
      <3>1. e * D = D * e /\ e * D \in Nat
        BY <1>1, <2>1
      <3> DEFINE x == e * D
      <3>2. x \in Nat /\ LastTime < x /\ t <= LastTime /\ t \in Nat
        BY <2>1, <3>1
      <3> HIDE DEF x
      <3>3. ~ (x <= t)
        BY <2>1, <3>2
      <3>4. QED
        BY <1>2, <3>1, <3>3 DEF x
    <2> HIDE DEF e, D, day
    <2>3. ~ (e <= day)
      BY <1>1, <1>2, <2>1, <2>2, Fits
    <2>4. QED
      BY <1>2, <2>1, <2>3 DEF e
  <1> HIDE DEF D, L, day
  <1>6. S \in SUBSET (0..L) /\ 1 \in S
    BY <1>1, <1>2, <1>3
  <1>7. month \in S /\ \A x \in S : x <= month
    <2> HIDE DEF S
    <2>1. QED
      BY <1>1, <1>6, MaxIn
  <1>8. month \in 1..L /\ MonthStart[month] <= day
    BY <1>3, <1>7
  <1> HIDE DEF month
  <1>9. month # L
    BY <1>2, <1>3, <1>5, <1>8
  <1>10. month + 1 \in 1..L
    BY <1>1, <1>8, <1>9
  <1>11. day < next /\ next \in Nat
    <2>1. month + 1 \notin S
      BY <1>7, <1>8
    <2>2. QED
      BY <1>2, <1>3, <1>10, <2>1
  <1>12. day - MonthStart[month] \in Nat /\ last \in Nat
    BY <1>1, <1>2, <1>3, <1>8, <1>10
  <1>13. c \in Nat
    BY <1>12, MinOfTwo
  <1> HIDE DEF c, next, S, last
  <1> DEFINE k == next + c
             r == t % D
  <1>14. k \in Nat /\ day + 1 <= k
    BY <1>2, <1>11, <1>13
  <1>15. r \in Nat /\ t = D * day + r /\ AddMonthClamped(t) = k * D + r
    BY <1>1, <1>2, <1>4
  <1> HIDE DEF k, r
  <1>16. D * (day + 1) <= D * k /\ D * k \in Nat /\ k * D = D * k /\ D * (day + 1) = D * day + D /\ D * day \in Nat
    <2>1. D * (day + 1) <= D * k + 0 <=> day + 1 <= k
      BY <1>1, <1>2, <1>14, Fits
    <2>2. D * k \in Nat /\ k * D = D * k /\ D * (day + 1) = D * day + D /\ D * day \in Nat
      BY <1>1, <1>2, <1>14
    <2>3. QED
      BY <1>14, <2>1, <2>2
  <1> DEFINE x == D * k
             y == D * day
  <1>17. x \in Nat /\ y \in Nat /\ y + D <= x /\ t = y + r /\ AddMonthClamped(t) = x + r
    BY <1>15, <1>16
  <1>18. t % D = 0 => (x + r) % D = 0
    <2>1. ASSUME t % D = 0 PROVE r = 0
      BY <2>1 DEF r
    <2>2. x % D = 0
      BY <1>1, <1>14, Product
    <2> HIDE DEF x
    <2>3. QED
      BY <1>17, <2>1, <2>2
  <1> HIDE DEF x, y
  <1>19. x + r \in Nat /\ t + D <= x + r
    BY <1>1, <1>15, <1>17
  <1>20. QED
    BY <1>17, <1>18, <1>19 DEF D

Aligned(s) == s \in Nat /\ s <= clock /\ s % TicksPerDay = 0

\* A period ends with a later day, and no sooner than the next one.
LEMMA PeriodEnds ==
    ASSUME NEW p \in PeriodLengths, NEW s \in Nat, s <= LastTime, s % TicksPerDay = 0
    PROVE  /\ PeriodEnd(p, s) \in Nat /\ s + TicksPerDay <= PeriodEnd(p, s)
           /\ PeriodEnd(p, s) % TicksPerDay = 0
  <1> DEFINE D == TicksPerDay
             q == s \div D
  <1>1. D \in Nat \ {0} /\ WeekDays \in Nat \ {0}
    BY QuotaConstants
  <1>2. q \in Nat /\ s = D * q
    <2>1. q \in Nat /\ s = D * q + (s % D) /\ s % D = 0
      BY <1>1, Divides, Quotient
    <2>2. D * q \in Nat
      BY <1>1, <2>1
    <2>3. QED
      BY <2>1, <2>2
  <1> HIDE DEF D, q
  <1>3. \A k \in Nat \ {0} : s + k * D \in Nat /\ s + D <= s + k * D /\ (s + k * D) % D = 0
    <2>1. SUFFICES ASSUME NEW k \in Nat \ {0}
                   PROVE  s + k * D \in Nat /\ s + D <= s + k * D /\ (s + k * D) % D = 0
      OBVIOUS
    <2>2. k * D \in Nat /\ D * k = k * D /\ D * 1 = D /\ D * (q + k) = D * q + D * k
      BY <1>1, <1>2
    <2>3. D * 1 <= D * k + 0
      BY <1>1, Fits
    <2>4. (D * (q + k)) % D = 0
      BY <1>1, <1>2, Product
    <2>5. s + k * D = D * (q + k)
      BY <1>2, <2>2
    <2> DEFINE x == k * D
    <2>6. x \in Nat /\ D <= x /\ D \in Nat
      <3>1. D \in Nat /\ D * k + 0 = k * D
        BY <1>1, <2>2
      <3>2. QED
        BY <2>2, <2>3, <3>1
    <2> HIDE DEF x
    <2>7. s + x \in Nat /\ s + D <= s + x
      BY <2>6
    <2>8. QED
      BY <2>4, <2>5, <2>7 DEF x
  <1>4. CASE p = "daily"
    <2>1. PeriodEnd(p, s) = s + D
      BY <1>4 DEF PeriodEnd, D
    <2>2. s + 1 * D = s + D /\ 1 \in Nat \ {0}
      BY <1>1
    <2>3. s + D \in Nat /\ s + D <= s + D /\ (s + D) % D = 0
      BY <1>3, <2>2
    <2>4. QED
      BY <2>1, <2>3 DEF D
  <1>5. CASE p = "weekly"
    <2>1. PeriodEnd(p, s) = s + WeekDays * D
      BY <1>5 DEF PeriodEnd, D
    <2>2. QED
      BY <1>1, <1>3, <2>1 DEF D
  <1>6. CASE p = "monthly"
    <2>1. PeriodEnd(p, s) = AddMonthClamped(s)
      BY <1>6 DEF PeriodEnd
    <2>2. QED
      BY <2>1, NextMonth
  <1>7. QED
    BY <1>4, <1>5, <1>6 DEF PeriodLengths

\* The loop of CurrentStart after each of its first n turns.
Turn(p, s) == IF PeriodEnd(p, s) <= clock THEN PeriodEnd(p, s) ELSE s
Walk(f, p, s, n) == f = [i \in 0..n |-> IF i = 0 THEN s ELSE Turn(p, f[i - 1])]

LEMMA WalksExist == ASSUME NEW p, NEW s PROVE \A n \in Nat : \E f : Walk(f, p, s, n)
  <1> DEFINE T == {n \in Nat : ~ \E f : Walk(f, p, s, n)}
  <1>1. ASSUME T # {} PROVE FALSE
    <2>1. PICK n \in T : \A m \in T : ~ (m < n)
      BY <1>1, Least
    <2>2. n # 0
      <3> DEFINE e == [i \in 0..0 |-> s]
      <3>1. Walk(e, p, s, 0)
        BY DEF Walk
      <3>2. QED
        BY <2>1, <3>1
    <2>3. n - 1 \in Nat /\ n - 1 < n /\ n - 1 \notin T
      BY <2>1, <2>2
    <2>4. PICK f : Walk(f, p, s, n - 1)
      BY <2>3
    <2> DEFINE g == [i \in 0..n |-> IF i # n THEN f[i] ELSE Turn(p, f[i - 1])]
    <2>5. \A i \in 0..n : g[i] = IF i = 0 THEN s ELSE Turn(p, g[i - 1])
      <3>1. SUFFICES ASSUME NEW i \in 0..n PROVE g[i] = IF i = 0 THEN s ELSE Turn(p, g[i - 1])
        OBVIOUS
      <3>2. i \in Nat /\ n \in Nat /\ (i # 0 => i - 1 \in 0..n /\ i - 1 # n)
        BY <2>1, <3>1
      <3>3. i # 0 => g[i - 1] = f[i - 1]
        BY <3>2
      <3>4. CASE i = n
        BY <2>2, <3>3, <3>4
      <3>5. CASE i # n
        <4>1. i \in 0..n - 1 /\ g[i] = f[i]
          BY <2>1, <3>2, <3>5
        <4>2. f[i] = IF i = 0 THEN s ELSE Turn(p, f[i - 1])
          BY <2>4, <4>1 DEF Walk
        <4>3. QED
          BY <3>3, <4>1, <4>2
      <3>6. QED
        BY <3>4, <3>5
    <2>6. g = [i \in 0..n |-> g[i]]
      OBVIOUS
    <2> HIDE DEF g
    <2>7. Walk(g, p, s, n)
      BY <2>5, <2>6 DEF Walk
    <2>8. QED
      BY <2>1, <2>7
  <1>2. QED
    BY <1>1

\* The loop ends in the period that contains the present: each of its turns is a day at least.
LEMMA PresentPeriod ==
    ASSUME clock \in Times, NEW p \in PeriodLengths, NEW s, Aligned(s)
    PROVE  /\ Aligned(CurrentStart(p, s)) /\ s <= CurrentStart(p, s)
           /\ clock < PeriodEnd(p, CurrentStart(p, s))
  <1> DEFINE D == TicksPerDay
             K == (clock - s) \div D
  <1>1. D \in Nat \ {0} /\ clock \in Nat /\ clock <= LastTime /\ LastTime \in Nat
    BY QuotaConstants
  <1>2. s \in Nat /\ s <= clock /\ s % D = 0 /\ clock - s \in Nat
    BY <1>1 DEF Aligned
  <1>3. K \in Nat /\ clock - s = D * K + ((clock - s) % D) /\ (clock - s) % D \in 0..D - 1
    BY <1>1, <1>2, Divides, Quotient
  <1> HIDE DEF D
  <1>4. PICK f : Walk(f, p, s, K) /\ CurrentStart(p, s) = f[K]
    <2>1. CurrentStart(p, s) = (CHOOSE f : Walk(f, p, s, K))[K]
      BY DEF CurrentStart, Walk, Turn, D
    <2> HIDE DEF K
    <2>2. QED
      BY <1>3, <2>1, WalksExist
  <1> HIDE DEF K
  <1>5. f[0] = s /\ \A i \in 1..K : f[i] = Turn(p, f[i - 1])
    BY <1>3, <1>4 DEF Walk
  <1> DEFINE Good(i) == /\ f[i] \in Nat /\ f[i] <= clock /\ f[i] % D = 0 /\ s <= f[i]
                        /\ PeriodEnd(p, f[i]) <= clock => s + D * i <= f[i]
             T == {i \in Nat : i \in 0..K /\ ~ Good(i)}
  <1>6. ASSUME T # {} PROVE FALSE
    <2>1. PICK n \in T : \A m \in T : ~ (m < n)
      BY <1>6, Least
    <2>2. n \in 0..K /\ ~ Good(n)
      BY <2>1
    <2>3. n # 0
      <3>1. D * 0 = 0
        BY <1>1
      <3>2. Good(0)
        BY <1>2, <1>5, <3>1
      <3> HIDE DEF Good
      <3>3. QED
        BY <2>2, <3>2
    <2>4. n - 1 \in 0..K /\ n - 1 < n /\ n - 1 \in Nat /\ n \in 1..K
      BY <1>3, <2>2, <2>3
    <2>5. Good(n - 1)
      <3> HIDE DEF Good
      <3>1. QED
        BY <2>1, <2>4
    <2> DEFINE x == f[n - 1]
               e == PeriodEnd(p, x)
    <2>6. /\ x \in Nat /\ x <= clock /\ x % D = 0 /\ s <= x
          /\ e <= clock => s + D * (n - 1) <= x
      BY <2>5
    <2>7. f[n] = IF e <= clock THEN e ELSE x
      BY <1>5, <2>4 DEF Turn
    <2>8. e \in Nat /\ x + D <= e /\ e % D = 0
      <3>1. x <= LastTime
        BY <1>1, <2>6
      <3>2. QED
        BY <2>6, <3>1, PeriodEnds DEF D
    <2>9. CASE e <= clock
      <3>1. f[n] = e
        BY <2>7, <2>9
      <3>2. s + D * n <= e
        <4>1. D * n = D * (n - 1) + D /\ D * (n - 1) \in Nat
          BY <1>1, <2>4
        <4> DEFINE y == D * (n - 1)
        <4>2. y \in Nat /\ s + y <= x /\ D * n = y + D
          BY <2>6, <2>9, <4>1
        <4> HIDE DEF y, x, e
        <4>3. QED
          BY <1>1, <1>2, <2>6, <2>8, <4>2
      <3>3. s <= e
        <4> HIDE DEF x, e
        <4>1. QED
          BY <1>1, <1>2, <2>6, <2>8
      <3>4. Good(n)
        BY <2>8, <2>9, <3>1, <3>2, <3>3
      <3> HIDE DEF Good
      <3>5. QED
        BY <2>2, <3>4
    <2>10. CASE ~ (e <= clock)
      <3>1. f[n] = x
        BY <2>7, <2>10
      <3>2. Good(n)
        BY <2>6, <2>10, <3>1
      <3> HIDE DEF Good
      <3>3. QED
        BY <2>2, <3>2
    <2>11. QED
      BY <2>9, <2>10
  <1>7. Good(K)
    <2>1. K \in 0..K /\ K \in Nat
      BY <1>3
    <2> HIDE DEF Good
    <2>2. QED
      BY <1>6, <2>1
  <1> DEFINE c == f[K]
             e == PeriodEnd(p, c)
  <1>8. c \in Nat /\ c <= clock /\ c % D = 0 /\ s <= c /\ (e <= clock => s + D * K <= c)
    BY <1>7
  <1>9. e \in Nat /\ c + D <= e
    <2>1. c <= LastTime
      BY <1>1, <1>8
    <2>2. QED
      BY <1>8, <2>1, PeriodEnds DEF D
  <1>10. clock < e
    <2> DEFINE y == D * K
               r == (clock - s) % D
    <2>1. y \in Nat /\ clock - s = y + r /\ r \in 0..D - 1
      BY <1>1, <1>3
    <2>2. (e <= clock => s + y <= c)
      BY <1>8
    <2> HIDE DEF y, r, c, e
    <2>3. r < D /\ r \in Nat
      BY <1>1, <2>1
    <2>4. clock = s + y + r
      BY <1>1, <1>2, <2>1, <2>3
    <2>5. QED
      BY <1>1, <1>2, <1>8, <1>9, <2>1, <2>2, <2>3, <2>4
  <1>11. QED
    BY <1>4, <1>8, <1>10 DEF Aligned, D

-----------------------------------------------------------------------------
(* Quota: what is charged. *)

\* The days since the start of a period are the times since then.
LEMMA DaysSince ==
    ASSUME NEW s \in Nat, s % TicksPerDay = 0
    PROVE  {t \in Times : DayFloor(t) >= s} = {t \in Times : t >= s}
  <1> DEFINE D == TicksPerDay
  <1>1. ASSUME NEW t \in Times PROVE DayFloor(t) >= s <=> t >= s
    <2>1. D \in Nat \ {0} /\ t \in Nat
      BY QuotaConstants
    <2> DEFINE f == t - (t % D)
    <2>2. DayFloor(t) = f
      BY DEF DayFloor
    <2>3. f \in Nat /\ (s <= f <=> s <= t)
      BY <2>1, Floor
    <2> HIDE DEF f
    <2>4. QED
      BY <2>1, <2>2, <2>3
  <1>2. QED
    BY <1>1

LEMMA UsageSums ==
    ASSUME usage \in [Times -> 0..MaxUsage]
    PROVE  /\ \A S \in SUBSET Times : SumFunctionOnSet(usage, S) \in Nat
           /\ SumFunction(usage) \in Nat
           /\ \A t \in Times : usage[t] \in Nat /\ usage[t] <= SumFunction(usage)
  <1>1. IsFiniteSet(Times) /\ \A t \in Times : usage[t] \in Nat
    BY QuotaConstants
  <1>2. \A S \in SUBSET Times : SumFunctionOnSet(usage, S) \in Nat
    BY <1>1, SumIn
  <1>3. \A S \in SUBSET Times : \A t \in S : usage[t] <= SumFunctionOnSet(usage, S)
    BY <1>1, SumElement
  <1>4. SumFunction(usage) = SumFunctionOnSet(usage, Times) /\ Times \in SUBSET Times
    BY DEF SumFunction
  <1>5. QED
    BY <1>1, <1>2, <1>3, <1>4

LEMMA ChargedType ==
    ASSUME usage \in [Times -> 0..MaxUsage]
    PROVE  \A s : ChargedSince(s) \in Nat
  <1>1. ASSUME NEW s PROVE ChargedSince(s) \in Nat
    <2>1. {t \in Times : DayFloor(t) >= s} \in SUBSET Times
      OBVIOUS
    <2>2. SumFunctionOnSet(usage, {t \in Times : DayFloor(t) >= s}) \in Nat
      BY <2>1, UsageSums
    <2>3. QED
      BY <2>2 DEF ChargedSince
  <1>2. QED
    BY <1>1

-----------------------------------------------------------------------------
(* Quota: the types, and the starts of periods. *)

RowOK == row \in Row /\ Aligned(row.start)

Kind == {"set", "reset", "toggle"}

\* The row that a handler has read.
JobOK ==
    /\ job \in {NoJob} \cup [op : Kind, old : Row]
    /\ pc # "idle" => job \in [op : Kind, old : Row] /\ Aligned(job.old.start)

ClockOK == clock \in Times /\ usage \in [Times -> 0..MaxUsage]

ControlOK ==
    /\ tick \in {"idle", "rollover", "recalc"} /\ pc \in {"idle", "change", "apply", "recalc"}
    /\ byHand \in BOOLEAN /\ warnings \in Nat /\ requests \in 0..MaxRequests

QuotaInv == ClockOK /\ RowOK /\ JobOK /\ ControlOK

LEMMA InitQuota == QuotaInit => QuotaInv
  <1>1. SUFFICES ASSUME QuotaInit PROVE QuotaInv
    OBVIOUS
  <1>2. clock = TicksPerDay /\ TicksPerDay \in Times /\ 0 % TicksPerDay = 0 /\ 0 <= TicksPerDay
    BY <1>1, QuotaConstants DEF QuotaInit, Times
  <1>3. ClockOK
    <2>1. usage = [t \in Times |-> 0] /\ 0 \in 0..MaxUsage
      BY <1>1, QuotaConstants DEF QuotaInit
    <2>2. QED
      BY <1>2, <2>1 DEF ClockOK
  <1>4. RowOK
    <2>1. row \in [bytes : Limits, period : PeriodLengths, start : {0}, used : {0},
                   suspended : {FALSE}, warned : {FALSE}]
      BY <1>1 DEF QuotaInit
    <2>2. PICK b \in Limits, p \in PeriodLengths :
              row = [bytes |-> b, period |-> p, start |-> 0, used |-> 0,
                     suspended |-> FALSE, warned |-> FALSE]
      BY <2>1
    <2>3. row \in Row /\ row.start = 0
      BY <2>2 DEF Row
    <2>4. QED
      BY <1>2, <2>3 DEF RowOK, Aligned
  <1>5. JobOK
    BY <1>1 DEF QuotaInit, JobOK
  <1>6. ControlOK
    <2>1. 0 \in 0..MaxRequests
      BY QuotaConstants
    <2>2. QED
      BY <1>1, <2>1 DEF QuotaInit, ControlOK
  <1>7. QED
    BY <1>3, <1>4, <1>5, <1>6 DEF QuotaInv

LEMMA TodayAligned == ASSUME clock \in Times PROVE Aligned(Today)
  <1>1. TicksPerDay \in Nat \ {0} /\ clock \in Nat
    BY QuotaConstants
  <1>2. QED
    BY <1>1, Floor DEF Aligned, Today, DayFloor

\* As time goes on a start stays in the past.
LEMMA StillAligned ==
    ASSUME clock \in Nat, clock' \in Nat, clock <= clock', NEW s, Aligned(s)
    PROVE  s \in Nat /\ s <= clock' /\ s % TicksPerDay = 0
  BY DEF Aligned

\* A step that leaves the clock alone.
LEMMA SameClock ==
    ASSUME ClockOK, UNCHANGED <<clock, usage>>
    PROVE  ClockOK' /\ (JobOK /\ UNCHANGED <<pc, job>> => JobOK')
  BY DEF ClockOK, JobOK, Aligned

LEMMA PassQuota == ASSUME QuotaInv, TimePasses PROVE QuotaInv'
  <1>1. clock \in Nat /\ clock' = clock + 1 /\ clock' \in Times /\ UNCHANGED <<usage, row, tick, pc, job, byHand, warnings, requests>>
    <2>1. clock \in TicksPerDay..LastTime /\ clock < LastTime /\ clock' = clock + 1
      BY DEF QuotaInv, ClockOK, TimePasses, Times
    <2>2. TicksPerDay \in Nat /\ LastTime \in Nat
      BY QuotaConstants
    <2>3. QED
      BY <2>1, <2>2 DEF TimePasses, Times
  <1>2. \A s : Aligned(s) => s \in Nat /\ s <= clock' /\ s % TicksPerDay = 0
    BY <1>1 DEF Aligned
  <1>3. RowOK'
    BY <1>1, <1>2 DEF QuotaInv, RowOK, Aligned
  <1>4. JobOK'
    BY <1>1, <1>2 DEF QuotaInv, JobOK, Aligned
  <1>5. QED
    BY <1>1, <1>3, <1>4 DEF QuotaInv, ClockOK, ControlOK

LEMMA CarryQuota == ASSUME QuotaInv, Carry PROVE QuotaInv'
  <1>1. clock \in Times /\ usage \in [Times -> 0..MaxUsage]
    BY DEF QuotaInv, ClockOK
  <1>2. usage[clock] + 1 \in 0..MaxUsage
    <2>1. usage[clock] \in Nat /\ usage[clock] <= SumFunction(usage) /\ SumFunction(usage) \in Nat
      BY <1>1, UsageSums
    <2>2. SumFunction(usage) < MaxUsage /\ MaxUsage \in Nat
      BY QuotaConstants DEF Carry
    <2> DEFINE a == usage[clock]
               b == SumFunction(usage)
    <2> HIDE DEF a, b
    <2>3. a \in Nat /\ b \in Nat /\ a <= b /\ b < MaxUsage
      BY <2>1, <2>2 DEF a, b
    <2>4. a + 1 \in 0..MaxUsage
      BY <2>2, <2>3
    <2>5. QED
      BY <2>4 DEF a
  <1>3. ClockOK'
    BY <1>1, <1>2 DEF Carry, ClockOK
  <1>4. QED
    BY <1>3 DEF Carry, QuotaInv, RowOK, JobOK, ControlOK, Aligned

\* A step that leaves the row, the clock and the handler alone.
LEMMA TickBeginsQuota == ASSUME QuotaInv, TickBegins PROVE QuotaInv'
  BY DEF TickBegins, QuotaInv, ClockOK, RowOK, JobOK, ControlOK, Aligned

LEMMA BeginPeriodRow ==
    ASSUME ClockOK, RowOK, NEW s, Aligned(s), BeginPeriod(s), clock' = clock
    PROVE  RowOK' /\ byHand' \in BOOLEAN /\ warnings' \in Nat /\ row'.start = s
  <1>1. row \in Row /\ s \in Nat
    BY DEF RowOK, Aligned
  <1>2. row' = [row EXCEPT !.start = s, !.used = 0, !.warned = FALSE, !.suspended = FALSE]
    BY DEF BeginPeriod
  <1>3. row' \in Row /\ row'.start = s
    BY <1>1, <1>2 DEF Row
  <1>4. QED
    BY <1>3 DEF BeginPeriod, RowOK, Aligned

\* A rollover ends in the present period, whatever it found.
LEMMA RolloverRow ==
    ASSUME ClockOK, RowOK, ControlOK, RolloverIfDue
    PROVE  /\ RowOK' /\ byHand' \in BOOLEAN /\ warnings' \in Nat
           /\ row'.start <= clock /\ clock < PeriodEnd(row'.period, row'.start)
  <1>1. clock \in Times /\ row \in Row /\ Aligned(row.start) /\ clock' = clock
    BY DEF ClockOK, RowOK, RolloverIfDue
  <1>2. row.period \in PeriodLengths /\ row.start \in Nat
    BY <1>1 DEF Row
  <1> DEFINE c == CurrentStart(row.period, row.start)
  <1>3. Aligned(c) /\ clock < PeriodEnd(row.period, c)
    BY <1>1, <1>2, PresentPeriod
  <1>4. CASE row.start = 0 /\ row' = [row EXCEPT !.start = Today] /\ UNCHANGED <<byHand, warnings>>
    <2>1. Aligned(Today) /\ Today \in Nat
      BY <1>1, TodayAligned DEF Aligned
    <2>2. row' \in Row /\ row'.start = Today /\ row'.period = row.period
      BY <1>1, <1>4, <2>1 DEF Row
    <2>3. clock < PeriodEnd(row.period, Today)
      <3>1. TicksPerDay \in Nat \ {0} /\ clock \in Nat /\ LastTime \in Nat /\ clock <= LastTime
        BY <1>1, QuotaConstants
      <3>2. Today = clock - (clock % TicksPerDay) /\ clock % TicksPerDay \in 0..TicksPerDay - 1
        BY <3>1, Quotient DEF Today, DayFloor
      <3> DEFINE D == TicksPerDay
                 r == clock % TicksPerDay
                 e == PeriodEnd(row.period, Today)
      <3>3. D \in Nat \ {0} /\ r \in 0..D - 1 /\ Today = clock - r /\ Today \in Nat /\ Today <= clock /\ Today % D = 0
        BY <2>1, <3>1, <3>2 DEF Aligned
      <3>4. Today <= LastTime
        <4> HIDE DEF D, r, e
        <4>1. QED
          BY <3>1, <3>3
      <3>5. e \in Nat /\ Today + D <= e
        BY <1>2, <3>3, <3>4, PeriodEnds
      <3> HIDE DEF D, r, e
      <3>6. clock < e
        BY <3>1, <3>3, <3>5
      <3>7. QED
        BY <3>6 DEF e
    <2>4. Today <= clock
      BY <2>1 DEF Aligned
    <2>5. QED
      BY <1>1, <1>4, <2>1, <2>2, <2>3, <2>4 DEF RowOK, Aligned, ControlOK
  <1>5. CASE c = row.start /\ UNCHANGED <<row, byHand, warnings>>
    BY <1>1, <1>3, <1>5 DEF RowOK, Aligned, ControlOK
  <1>6. CASE BeginPeriod(c)
    <2>1. RowOK' /\ byHand' \in BOOLEAN /\ warnings' \in Nat /\ row'.start = c
      BY <1>1, <1>3, <1>6, BeginPeriodRow
    <2>2. row'.period = row.period
      BY <1>1, <1>6 DEF BeginPeriod, Row
    <2>3. QED
      BY <1>3, <2>1, <2>2 DEF Aligned
  <1>7. QED
    BY <1>4, <1>5, <1>6 DEF RolloverIfDue

LEMMA RolloverQuota == ASSUME QuotaInv, RolloverIfDue PROVE QuotaInv'
  <1>1. ClockOK /\ RowOK /\ ControlOK /\ JobOK
    BY DEF QuotaInv
  <1>2. RowOK' /\ byHand' \in BOOLEAN /\ warnings' \in Nat
    BY <1>1, RolloverRow
  <1>3. UNCHANGED <<clock, usage, pc, job, requests>> /\ tick' \in {"idle", "recalc"}
    BY DEF RolloverIfDue
  <1>4. QED
    BY <1>1, <1>2, <1>3, SameClock DEF QuotaInv, ControlOK

\* What a recalculation writes.
LEMMA RecalculateRow ==
    ASSUME ClockOK, RowOK, ControlOK, Recalculate, clock' = clock
    PROVE  /\ RowOK' /\ warnings' \in Nat
           /\ row'.used = ChargedSince(row.start) /\ row'.start = row.start /\ row'.bytes = row.bytes
           /\ row.bytes > 0 /\ row'.used >= row.bytes => row'.suspended
  <1> DEFINE used == ChargedSince(row.start)
             over == row.suspended \/ (row.bytes > 0 /\ used >= row.bytes)
             warns == /\ row.bytes > 0 /\ ~row.warned /\ WarnPct > 0
                      /\ used >= (row.bytes * WarnPct) \div 100
             warned == row.warned \/ warns
  <1>1. used \in Nat
    BY ChargedType DEF ClockOK
  <1>2. /\ row' = [row EXCEPT !.used = used, !.suspended = over, !.warned = warned]
        /\ warnings' = IF warns THEN warnings + 1 ELSE warnings
    BY DEF Recalculate
  <1>3. over \in BOOLEAN /\ warned \in BOOLEAN
    OBVIOUS
  <1>4. over <=> row.suspended \/ (row.bytes > 0 /\ used >= row.bytes)
    OBVIOUS
  <1>5. warnings' \in Nat
    <2>1. warnings \in Nat
      BY DEF ControlOK
    <2> HIDE DEF warns
    <2>2. QED
      BY <1>2, <2>1
  <1> HIDE DEF used, over, warns, warned
  <1>6. row \in Row
    BY DEF RowOK
  <1>7. row' \in Row /\ row'.used = used /\ row'.start = row.start /\ row'.bytes = row.bytes /\ row'.suspended = over
    BY <1>1, <1>2, <1>3, <1>6 DEF Row
  <1>8. RowOK'
    BY <1>7 DEF RowOK, Aligned
  <1>9. QED
    BY <1>4, <1>5, <1>7, <1>8 DEF used

LEMMA TickRecalculatesQuota == ASSUME QuotaInv, TickRecalculates PROVE QuotaInv'
  <1>1. ClockOK /\ RowOK /\ ControlOK /\ JobOK
    BY DEF QuotaInv
  <1>2. Recalculate /\ UNCHANGED <<clock, usage, pc, job, byHand, requests>> /\ tick' = "idle"
    BY DEF TickRecalculates
  <1>3. RowOK' /\ warnings' \in Nat
    BY <1>1, <1>2, RecalculateRow
  <1>4. QED
    BY <1>1, <1>2, <1>3, SameClock DEF QuotaInv, ControlOK

LEMMA HandlerRecalculatesQuota == ASSUME QuotaInv, HandlerRecalculates PROVE QuotaInv'
  <1>1. ClockOK /\ RowOK /\ ControlOK /\ JobOK
    BY DEF QuotaInv
  <1>2. /\ Recalculate /\ UNCHANGED <<clock, usage, tick, byHand, requests>>
        /\ pc' = "idle" /\ job' = NoJob
    BY DEF HandlerRecalculates
  <1>3. RowOK' /\ warnings' \in Nat
    BY <1>1, <1>2, RecalculateRow
  <1>4. JobOK'
    BY <1>2 DEF JobOK
  <1>5. QED
    BY <1>1, <1>2, <1>3, <1>4, SameClock DEF QuotaInv, ControlOK

LEMMA HandlerBeginsQuota == ASSUME QuotaInv, NEW op \in Ops, HandlerBegins(op) PROVE QuotaInv'
  <1>1. ClockOK /\ RowOK /\ ControlOK /\ JobOK
    BY DEF QuotaInv
  <1>2. /\ UNCHANGED <<clock, usage, row, tick, byHand, warnings>>
        /\ requests < MaxRequests /\ requests' = requests + 1
        /\ pc' = "change" /\ job' = [op |-> op, old |-> row]
    BY DEF HandlerBegins
  <1>3. op \in Kind
    BY QuotaConstants DEF Kind
  <1>4. job' \in [op : Kind, old : Row] /\ job'.old = row
    BY <1>1, <1>2, <1>3 DEF RowOK
  <1>5. JobOK' /\ RowOK'
    BY <1>1, <1>2, <1>4 DEF JobOK, RowOK, Aligned
  <1>6. requests' \in 0..MaxRequests
    BY <1>1, <1>2, QuotaConstants DEF ControlOK
  <1>7. QED
    BY <1>1, <1>2, <1>5, <1>6, SameClock DEF QuotaInv, ControlOK

\* What the handlers make of the row.
LEMMA SetQuotaRow ==
    ASSUME ClockOK, RowOK, ControlOK, NEW bytes \in Limits, NEW period \in PeriodLengths,
           SetQuota(bytes, period), clock' = clock
    PROVE  RowOK' /\ byHand' \in BOOLEAN /\ warnings' \in Nat
  <1>1. Aligned(Today) /\ Today \in Nat
    BY TodayAligned DEF ClockOK, Aligned
  <1>2. row \in Row /\ Aligned(row.start) /\ byHand \in BOOLEAN /\ warnings \in Nat
    BY DEF RowOK, ControlOK
  <1>3. CASE /\ row' = [bytes |-> bytes, period |-> period, start |-> Today, used |-> 0,
                        suspended |-> FALSE, warned |-> FALSE]
             /\ byHand' = FALSE /\ warnings' = 0
    <2>1. row' \in Row /\ row'.start = Today
      BY <1>1, <1>3 DEF Row
    <2>2. QED
      BY <1>1, <1>3, <2>1 DEF RowOK, Aligned
  <1>4. CASE /\ row' = IF bytes = 0 THEN [row EXCEPT !.bytes = 0, !.warned = FALSE, !.suspended = FALSE]
                       ELSE [row EXCEPT !.bytes = bytes]
             /\ byHand' = (byHand /\ bytes # 0) /\ UNCHANGED warnings
    <2>1. row' \in Row /\ row'.start = row.start
      <3>1. CASE bytes = 0
        <4>1. row' = [row EXCEPT !.bytes = bytes, !.warned = FALSE, !.suspended = FALSE]
          BY <1>4, <3>1
        <4>2. QED
          BY <1>2, <4>1 DEF Row
      <3>2. CASE bytes # 0
        <4>1. row' = [row EXCEPT !.bytes = bytes]
          BY <1>4, <3>2
        <4>2. QED
          BY <1>2, <4>1 DEF Row
      <3>3. QED
        BY <3>1, <3>2
    <2>2. RowOK'
      BY <1>2, <2>1 DEF RowOK, Aligned
    <2>3. byHand' \in BOOLEAN
      BY <1>4
    <2>4. QED
      BY <1>2, <1>4, <2>2, <2>3
  <1>5. QED
    BY <1>3, <1>4 DEF SetQuota

LEMMA ToggleRow ==
    ASSUME ClockOK, RowOK, ControlOK, job \in [op : Kind, old : Row], ToggleSuspended, clock' = clock
    PROVE  RowOK' /\ byHand' \in BOOLEAN /\ warnings' \in Nat
  <1> DEFINE b == ~job.old.suspended
  <1>1. row' = [row EXCEPT !.suspended = b] /\ byHand' = b /\ warnings' = warnings
    BY DEF ToggleSuspended
  <1>2. b \in BOOLEAN /\ row \in Row /\ warnings \in Nat
    BY DEF RowOK, ControlOK
  <1> HIDE DEF b
  <1>3. row' \in Row /\ row'.start = row.start
    BY <1>1, <1>2 DEF Row
  <1>4. QED
    BY <1>1, <1>2, <1>3 DEF RowOK, Aligned

LEMMA ChangeQuota == ASSUME QuotaInv, Change PROVE QuotaInv'
  <1>1. ClockOK /\ RowOK /\ ControlOK /\ JobOK
    BY DEF QuotaInv
  <1>2. UNCHANGED <<clock, usage, tick, job, requests>> /\ pc = "change" /\ pc' = "apply"
    BY DEF Change
  <1>3. job \in [op : Kind, old : Row] /\ Aligned(job.old.start)
    BY <1>1, <1>2 DEF JobOK
  <1>4. RowOK' /\ byHand' \in BOOLEAN /\ warnings' \in Nat
    <2>1. ASSUME NEW bytes \in Limits, NEW period \in PeriodLengths, SetQuota(bytes, period)
          PROVE  RowOK' /\ byHand' \in BOOLEAN /\ warnings' \in Nat
      BY <1>1, <1>2, <2>1, SetQuotaRow
    <2>2. CASE BeginPeriod(Today)
      <3>1. Aligned(Today)
        BY <1>1, TodayAligned DEF ClockOK
      <3>2. QED
        BY <1>1, <1>2, <2>2, <3>1, BeginPeriodRow
    <2>3. CASE ToggleSuspended
      BY <1>1, <1>2, <1>3, <2>3, ToggleRow
    <2>4. QED
      BY <2>1, <2>2, <2>3 DEF Change
  <1>5. JobOK'
    BY <1>2, <1>3 DEF JobOK, Aligned
  <1>6. QED
    BY <1>1, <1>2, <1>4, <1>5, SameClock DEF QuotaInv, ControlOK

LEMMA AppliedQuota == ASSUME QuotaInv, Applied PROVE QuotaInv'
  BY DEF Applied, QuotaInv, ClockOK, RowOK, JobOK, ControlOK, Aligned

LEMMA ApplyFailsQuota == ASSUME QuotaInv, ApplyFails PROVE QuotaInv'
  <1>1. ClockOK /\ RowOK /\ ControlOK /\ JobOK
    BY DEF QuotaInv
  <1>2. /\ UNCHANGED <<clock, usage, tick, byHand, warnings, requests>>
        /\ pc = "apply" /\ pc' = "idle" /\ job' = NoJob
        /\ \/ row' = [row EXCEPT !.suspended = job.old.suspended]
           \/ row' = job.old
    BY DEF ApplyFails
  <1>3. job.old \in Row /\ Aligned(job.old.start) /\ row \in Row /\ Aligned(row.start)
    BY <1>1, <1>2 DEF JobOK, RowOK
  <1>4. CASE row' = [row EXCEPT !.suspended = job.old.suspended]
    <2>1. row' \in Row /\ row'.start = row.start
      BY <1>3, <1>4 DEF Row
    <2>2. RowOK'
      BY <1>2, <1>3, <2>1 DEF RowOK, Aligned
    <2>3. QED
      BY <1>1, <1>2, <2>2, SameClock DEF QuotaInv, ControlOK, JobOK
  <1>5. CASE row' = job.old
    <2>1. RowOK'
      BY <1>2, <1>3, <1>5 DEF RowOK, Aligned
    <2>2. QED
      BY <1>1, <1>2, <2>1, SameClock DEF QuotaInv, ControlOK, JobOK
  <1>6. QED
    BY <1>2, <1>4, <1>5

LEMMA StepQuota == QuotaInv /\ [QuotaNext]_quotaVars => QuotaInv'
  <1>1. SUFFICES ASSUME QuotaInv, [QuotaNext]_quotaVars PROVE QuotaInv'
    OBVIOUS
  <1>2. CASE TimePasses
    BY <1>1, <1>2, PassQuota
  <1>3. CASE Carry
    BY <1>1, <1>3, CarryQuota
  <1>4. CASE TickBegins
    BY <1>1, <1>4, TickBeginsQuota
  <1>5. CASE RolloverIfDue
    BY <1>1, <1>5, RolloverQuota
  <1>6. CASE TickRecalculates
    BY <1>1, <1>6, TickRecalculatesQuota
  <1>7. ASSUME NEW op \in Ops, HandlerBegins(op) PROVE QuotaInv'
    BY <1>1, <1>7, HandlerBeginsQuota
  <1>8. CASE Change
    BY <1>1, <1>8, ChangeQuota
  <1>9. CASE Applied
    BY <1>1, <1>9, AppliedQuota
  <1>10. CASE ApplyFails
    BY <1>1, <1>10, ApplyFailsQuota
  <1>11. CASE HandlerRecalculates
    BY <1>1, <1>11, HandlerRecalculatesQuota
  <1>12. CASE UNCHANGED quotaVars
    BY <1>1, <1>12 DEF quotaVars, QuotaInv, ClockOK, RowOK, JobOK, ControlOK, Aligned
  <1>13. QED
    BY <1>1, <1>2, <1>3, <1>4, <1>5, <1>6, <1>7, <1>8, <1>9, <1>10, <1>11, <1>12 DEF QuotaNext

LEMMA QuotaInvariant == QuotaSpec => []QuotaInv
  <1>1. QED
    BY InitQuota, StepQuota, PTL DEF QuotaSpec

\* Every reachable state of Quota is well typed: ticker and handlers (quota.go) only write rows
\* that the table may hold.
THEOREM QuotaTypeCorrect == QuotaSpec => []QuotaTypeOK
  <1>1. QuotaInv => QuotaTypeOK
    BY DEF QuotaInv, QuotaTypeOK, ClockOK, RowOK, JobOK, ControlOK, Kind
  <1>2. QED
    BY <1>1, QuotaInvariant, PTL

\* What is charged in a period that has begun is what was transferred since.
LEMMA ChargedIsSpent ==
    ASSUME ClockOK, RowOK, row.start # 0
    PROVE  ChargedSince(row.start) = SumFunctionOnSet(usage, {t \in Times : t >= row.start})
  <1>1. {t \in Times : DayFloor(t) >= row.start} = {t \in Times : t >= row.start}
    BY DaysSince DEF RowOK, Aligned
  <1>2. QED
    BY <1>1 DEF ChargedSince

\* A rollover (RolloverIfDue, quota.go:168) ends in the period that contains the present, however
\* many it has to skip, and a recalculation charges a user with what was transferred since
\* the period began, although it adds up days; for any calendar that is long enough.
THEOREM PresentPeriodChargedHolds == QuotaSpec => PresentPeriodCharged
  <1> DEFINE Rolled == RolloverIfDue => row'.start <= clock /\ clock < PeriodEnd(row'.period, row'.start)
             Paid == (TickRecalculates \/ HandlerRecalculates) /\ row.start # 0 =>
                        row'.used = SumFunctionOnSet(usage, {t \in Times : t >= row.start})
             Both == /\ Rolled
                     /\ Paid
  <1>1. QuotaInv => Rolled
    <2>1. SUFFICES ASSUME QuotaInv, RolloverIfDue
                   PROVE  row'.start <= clock /\ clock < PeriodEnd(row'.period, row'.start)
      OBVIOUS
    <2>2. ClockOK /\ RowOK /\ ControlOK
      BY <2>1 DEF QuotaInv
    <2>3. QED
      BY <2>1, <2>2, RolloverRow
  <1>2. QuotaInv => Paid
    <2>1. SUFFICES ASSUME QuotaInv, TickRecalculates \/ HandlerRecalculates, row.start # 0
                   PROVE  row'.used = SumFunctionOnSet(usage, {t \in Times : t >= row.start})
      OBVIOUS
    <2>2. ClockOK /\ RowOK /\ ControlOK
      BY <2>1 DEF QuotaInv
    <2>3. Recalculate /\ clock' = clock
      BY <2>1 DEF TickRecalculates, HandlerRecalculates
    <2>4. row'.used = ChargedSince(row.start)
      BY <2>2, <2>3, RecalculateRow
    <2>5. QED
      BY <2>1, <2>2, <2>4, ChargedIsSpent
  <1>3. QuotaInv => [Both]_quotaVars
    BY <1>1, <1>2
  <1>4. PresentPeriodCharged <=> [][Both]_quotaVars
    BY DEF PresentPeriodCharged
  <1> HIDE DEF Both
  <1>5. QED
    BY <1>3, <1>4, QuotaInvariant, PTL

\* When a tick ends, a user is suspended whose traffic in the present period has reached the
\* limit: RecalculateForUser looks at the row as it is then, whatever was done to it before.
THEOREM EnforcedByTickHolds == QuotaSpec => EnforcedByTick
  <1> DEFINE spent == SumFunctionOnSet(usage, {t \in Times : t >= row.start})
             Enforced == TickRecalculates =>
                            (row.start # 0 /\ row'.bytes \in 1..spent => row'.suspended)
  <1>1. QuotaInv => Enforced
    <2>1. SUFFICES ASSUME QuotaInv, TickRecalculates, row.start # 0, row'.bytes \in 1..spent
                   PROVE  row'.suspended
      OBVIOUS
    <2>2. ClockOK /\ RowOK /\ ControlOK
      BY <2>1 DEF QuotaInv
    <2>3. Recalculate /\ clock' = clock
      BY <2>1 DEF TickRecalculates
    <2>4. /\ row'.used = ChargedSince(row.start) /\ row'.bytes = row.bytes
          /\ row.bytes > 0 /\ row'.used >= row.bytes => row'.suspended
      BY <2>2, <2>3, RecalculateRow
    <2>5. ChargedSince(row.start) = spent
      BY <2>1, <2>2, ChargedIsSpent
    <2>6. spent \in Nat
      <3>1. {t \in Times : t >= row.start} \in SUBSET Times
        OBVIOUS
      <3>2. QED
        BY <2>2, <3>1, UsageSums DEF ClockOK
    <2> HIDE DEF spent
    <2>7. row.bytes > 0 /\ row'.used >= row.bytes
      BY <2>1, <2>4, <2>5, <2>6
    <2>8. QED
      BY <2>4, <2>7
  <1>2. QuotaInv => [Enforced]_quotaVars
    BY <1>1
  <1>3. EnforcedByTick <=> [][Enforced]_quotaVars
    BY DEF EnforcedByTick
  <1> HIDE DEF Enforced, spent
  <1>4. QED
    BY <1>2, <1>3, QuotaInvariant, PTL

-----------------------------------------------------------------------------
(* Streams: lines on their way. *)

Line == 1..MaxJournal

LEMMA HeldType == \A line \in 0..MaxJournal : Held(line) \in Seq(Line)
  <1>1. ASSUME NEW line \in 0..MaxJournal, line # NoLine PROVE <<line>> \in Seq(Line)
    BY <1>1, StreamsAssumption DEF NoLine, Line
  <1>2. <<>> \in Seq(Line)
    OBVIOUS
  <1>3. QED
    BY <1>1, <1>2 DEF Held

\* A line that is put into the channel, taken out of it or shown keeps its place.
LEMMA SendMoves ==
    ASSUME NEW a \in Seq(Line), NEW b \in Seq(Line), NEW c \in Seq(Line), NEW x \in Line
    PROVE  a \o b \o Append(c, x) \o <<>> = a \o b \o c \o <<x>>
  <1>1. Append(c, x) = c \o <<x>> /\ <<x>> \in Seq(Line) /\ a \o b \in Seq(Line)
    BY AppendIsConcat, ConcatProperties
  <1>2. (a \o b) \o (c \o <<x>>) = ((a \o b) \o c) \o <<x>>
    BY <1>1, ConcatAssociative
  <1>3. a \o b \o Append(c, x) \in Seq(Line)
    BY <1>1, ConcatProperties
  <1>4. QED
    BY <1>1, <1>2, <1>3, ConcatEmptySeq

LEMMA ReceiveMoves ==
    ASSUME NEW a \in Seq(Line), NEW c \in Seq(Line), NEW d \in Seq(Line), c # <<>>
    PROVE  a \o <<Head(c)>> \o Tail(c) \o d = a \o <<>> \o c \o d
  <1>1. Head(c) \in Line /\ Tail(c) \in Seq(Line) /\ <<Head(c)>> \in Seq(Line)
    BY HeadTailProperties
  <1>2. <<Head(c)>> \o Tail(c) = c
    BY <1>1
  <1>3. (a \o <<Head(c)>>) \o Tail(c) = a \o (<<Head(c)>> \o Tail(c))
    BY <1>1, ConcatAssociative
  <1>4. a \o <<>> = a
    BY ConcatEmptySeq
  <1>5. QED
    BY <1>2, <1>3, <1>4

LEMMA ScanAppends ==
    ASSUME NEW a \in Seq(Line), NEW b \in Seq(Line), NEW c \in Seq(Line), NEW x \in Line
    PROVE  a \o b \o c \o <<x>> = Append(a \o b \o c \o <<>>, x)
  <1>1. a \o b \o c \in Seq(Line)
    BY ConcatProperties
  <1>2. QED
    BY <1>1, ConcatEmptySeq, AppendIsConcat

\* A listing goes on with a line after all of the others.
LEMMA ListsAppend ==
    ASSUME NEW lines \in Seq(Line), NEW set \in SUBSET Line, NEW x \in Line,
           Lists(lines, set), \A y \in set : y < x
    PROVE  Lists(Append(lines, x), set \cup {x})
  <1> DEFINE more == Append(lines, x)
             n == Len(lines)
  <1>1. /\ n \in Nat /\ DOMAIN lines = 1..n /\ DOMAIN more = 1..(n + 1)
        /\ more[n + 1] = x /\ \A i \in 1..n : more[i] = lines[i] /\ lines[i] \in Line
    BY AppendProperties, LenProperties, ElementOfSeq
  <1> HIDE DEF more, n
  <1>2. \A i \in 1..n : lines[i] \in set
    BY <1>1 DEF Lists
  <1>3. ASSUME NEW i \in 1..(n + 1), NEW j \in 1..(n + 1), i < j PROVE more[i] < more[j]
    <2>1. i \in 1..n
      BY <1>1, <1>3
    <2>2. CASE j \in 1..n
      BY <1>1, <1>3, <2>1, <2>2 DEF Lists
    <2>3. CASE j = n + 1
      BY <1>1, <1>2, <2>1, <2>3
    <2>4. QED
      BY <1>1, <2>2, <2>3
  <1>4. {more[i] : i \in 1..(n + 1)} = {lines[i] : i \in 1..n} \cup {x}
    <2>1. \A i \in 1..(n + 1) : i \in 1..n \/ i = n + 1
      BY <1>1
    <2>2. 1..n \subseteq 1..(n + 1) /\ n + 1 \in 1..(n + 1)
      BY <1>1
    <2>3. QED
      BY <1>1, <2>1, <2>2
  <1>5. {lines[i] : i \in 1..n} = set
    BY <1>1 DEF Lists
  <1>6. QED
    BY <1>1, <1>3, <1>4, <1>5 DEF Lists, more

-----------------------------------------------------------------------------
(* Streams: the stages of a log stream. *)

\* How far the handler, the goroutine, journalctl and the browser of t can be apart.
Stages(t) ==
    /\ handler[t].pc = "idle" => reader[t].pc = "idle" /\ tab[t].client = "none"
    /\ reader[t].pc \in {"idle", "start"} =>
          /\ handler[t].pc \in {"idle", "select"} /\ reader[t].err = "nil"
          /\ reader[t].pos = 0 /\ tab[t].from = 0 /\ reader[t].line = NoLine
          /\ tab[t].shown = <<>> /\ ch[t] = <<>>
          /\ child[t].state = "none" /\ tab[t].status = "none"
    /\ tab[t].from <= reader[t].pos /\ reader[t].pos <= Len(journal)
    /\ child[t].wrote <= Len(journal)
    /\ handler[t].line # NoLine <=> handler[t].pc = "write"
    /\ reader[t].pc = "send" => reader[t].line # NoLine
    /\ reader[t].line # NoLine => reader[t].pc \in {"send", "wait"} \/ (Cancelled(t) /\ Left(t))
    /\ reader[t].pc = "wait" \/ reader[t].err = "canceled" => Cancelled(t) /\ Left(t)
    /\ handler[t].pc = "close" \/ (Cancelled(t) /\ ~Left(t)) =>
          Closed(t) /\ ch[t] = <<>> /\ reader[t].line = NoLine /\ reader[t].err # "canceled"
    /\ reader[t].pc \in {"scan", "send", "wait"} => reader[t].err = "nil"
    /\ reader[t].pc \notin {"idle", "start"} => (reader[t].err = "start" <=> child[t].state = "none")
    /\ tab[t].status # "none" =>
          Cancelled(t) /\ (tab[t].status = "normal" <=> child[t].state # "none")
    /\ tab[t].client # "reset" => tab[t].lost = 0

\* StreamsTypeOK, of the log page and of the dashboard.
LogTypes ==
    /\ journal \in Seq(Levels) /\ Len(journal) <= MaxJournal
    /\ tab \in [Tabs -> Tab] /\ handler \in [Tabs -> Handler] /\ reader \in [Tabs -> Reader]
    /\ child \in [Tabs -> Child]
    /\ ch \in [Tabs -> Seq(Line)] /\ \A t \in Tabs : Len(ch[t]) <= Capacity

LogsOK == LogTypes /\ \A t \in Tabs : Stages(t)

\* A step of t does nothing to the other streams.
OnlyTab(t) ==
    /\ \A u \in Tabs \ {t} :
          /\ tab'[u] = tab[u] /\ handler'[u] = handler[u] /\ reader'[u] = reader[u]
          /\ child'[u] = child[u] /\ ch'[u] = ch[u]
    /\ journal' = journal

LEMMA OneTab ==
    ASSUME LogsOK, NEW t \in Tabs, OnlyTab(t), LogTypes', Stages(t)'
    PROVE  LogsOK'
  <1>1. ASSUME NEW u \in Tabs \ {t} PROVE Stages(u)'
    BY <1>1 DEF LogsOK, OnlyTab, Stages, Cancelled, Closed, Left
  <1>2. QED
    BY <1>1 DEF LogsOK

LEMMA InitLogs == StreamsInit => LogsOK
  <1> SUFFICES ASSUME StreamsInit PROVE LogsOK
    OBVIOUS
  <1>1. MaxJournal \in Nat /\ Capacity \in Nat
    BY StreamsAssumption
  <1>2. journal \in Seq(Levels) /\ Len(journal) = 0
    BY DEF StreamsInit
  <1>3. /\ tab \in [Tabs -> Tab] /\ handler \in [Tabs -> Handler] /\ reader \in [Tabs -> Reader]
        /\ child \in [Tabs -> Child]
    <2>1. 0 \in 0..MaxJournal /\ <<>> \in Seq(1..MaxJournal) /\ "info" \in Levels
      BY <1>1 DEF Levels
    <2>2. [client |-> "none", want |-> "info", from |-> 0, shown |-> <<>>, lost |-> 0,
           status |-> "none"] \in Tab
      BY <2>1 DEF Tab
    <2>3. [pc |-> "idle", line |-> NoLine] \in Handler
      BY <2>1 DEF Handler, NoLine
    <2>4. [pc |-> "idle", pos |-> 0, line |-> NoLine, err |-> "nil"] \in Reader
      BY <2>1 DEF Reader, NoLine
    <2>5. [state |-> "none", wrote |-> 0] \in Child
      BY <2>1 DEF Child
    <2>6. QED
      BY <2>2, <2>3, <2>4, <2>5 DEF StreamsInit
  <1>4. ch \in [Tabs -> Seq(Line)] /\ \A t \in Tabs : ch[t] = <<>> /\ Len(ch[t]) = 0
    <2>1. <<>> \in Seq(Line) /\ Len(<<>>) = 0
      BY EmptySeq
    <2>2. QED
      BY <2>1 DEF StreamsInit
  <1>5. ASSUME NEW t \in Tabs PROVE Stages(t)
    BY <1>2, <1>4 DEF StreamsInit, Stages, NoLine, Cancelled, Closed, Left
  <1>6. QED
    BY <1>1, <1>2, <1>3, <1>4, <1>5 DEF LogsOK, LogTypes

LEMMA StartChildLogs == ASSUME LogsOK, NEW t \in Tabs, StartChild(t) PROVE LogsOK'
  <1> DEFINE first == IF Len(journal) > Backlog THEN Len(journal) - Backlog ELSE 0
  <1>1. first \in 0..Len(journal) /\ first \in 0..MaxJournal /\ Len(journal) \in Nat
    BY StreamsAssumption DEF LogsOK, LogTypes
  <1>2. /\ reader[t].pc = "start"
        /\ reader' = [reader EXCEPT ![t].pc = "scan", ![t].pos = first]
        /\ tab' = [tab EXCEPT ![t].from = first]
        /\ child' = [child EXCEPT ![t].state = "running"]
        /\ UNCHANGED <<journal, handler, ch>>
    BY DEF StartChild
  <1> HIDE DEF first
  <1>3. /\ reader'[t] = [reader[t] EXCEPT !.pc = "scan", !.pos = first]
        /\ tab'[t] = [tab[t] EXCEPT !.from = first]
        /\ child'[t] = [child[t] EXCEPT !.state = "running"]
    BY <1>2 DEF LogsOK, LogTypes
  <1>4. OnlyTab(t)
    BY <1>2 DEF OnlyTab, LogsOK, LogTypes
  <1>5. LogTypes'
    <2>1. reader[t] \in Reader /\ tab[t] \in Tab /\ child[t] \in Child
      BY DEF LogsOK, LogTypes
    <2>2. reader'[t] \in Reader
      BY <1>1, <1>3, <2>1 DEF Reader
    <2>3. tab'[t] \in Tab
      BY <1>1, <1>3, <2>1 DEF Tab
    <2>4. child'[t] \in Child
      BY <1>1, <1>3, <2>1 DEF Child
    <2>5. QED
      BY <1>2, <2>2, <2>3, <2>4 DEF LogsOK, LogTypes
  <1>6. Stages(t)'
    BY <1>1, <1>2, <1>3 DEF LogsOK, LogTypes, Stages, Reader, Tab, Child, Cancelled, Closed, Left
  <1>7. QED
    BY <1>4, <1>5, <1>6, OneTab

\* A step of the goroutine alone.
LEMMA ReaderStep ==
    ASSUME LogsOK, NEW t \in Tabs, UNCHANGED <<journal, tab, handler, child, ch>>,
           reader' \in [Tabs -> Reader], \A u \in Tabs \ {t} : reader'[u] = reader[u], Stages(t)'
    PROVE  LogsOK'
  <1>1. OnlyTab(t)
    BY DEF OnlyTab
  <1>2. LogTypes'
    BY DEF LogsOK, LogTypes
  <1>3. QED
    BY <1>1, <1>2, OneTab

LEMMA ReaderSteps ==
    ASSUME LogsOK, NEW t \in Tabs,
           StartFails(t) \/ SendCancelled(t) \/ Waited(t) \/ EndOfOutput(t) \/ CloseChannel(t)
    PROVE  LogsOK'
  <1> reader \in [Tabs -> Reader] /\ reader[t] \in Reader /\ Stages(t)
    BY DEF LogsOK, LogTypes
  <1>1. CASE StartFails(t)
    <2>1. reader'[t] = [reader[t] EXCEPT !.pc = "close", !.err = "start"]
      BY <1>1 DEF StartFails
    <2>2. reader'[t] \in Reader /\ \A u \in Tabs \ {t} : reader'[u] = reader[u]
      BY <1>1, <2>1 DEF StartFails, Reader
    <2>3. Stages(t)'
      BY <1>1, <2>1 DEF StartFails, Stages, Reader, Cancelled, Closed, Left
    <2>4. QED
      BY <1>1, <2>2, <2>3, ReaderStep DEF StartFails
  <1>2. CASE SendCancelled(t)
    <2>1. reader'[t] = [reader[t] EXCEPT !.pc = "wait"]
      BY <1>2 DEF SendCancelled, Read
    <2>2. reader'[t] \in Reader /\ \A u \in Tabs \ {t} : reader'[u] = reader[u]
      BY <1>2, <2>1 DEF SendCancelled, Read, Reader
    <2>3. Stages(t)'
      BY <1>2, <2>1 DEF SendCancelled, Read, Stages, Reader, Cancelled, Closed, Left
    <2>4. QED
      BY <1>2, <2>2, <2>3, ReaderStep DEF SendCancelled, Read
  <1>3. CASE Waited(t)
    <2>1. reader'[t] = [reader[t] EXCEPT !.pc = "close", !.err = "canceled"]
      BY <1>3 DEF Waited
    <2>2. reader'[t] \in Reader /\ \A u \in Tabs \ {t} : reader'[u] = reader[u]
      BY <1>3, <2>1 DEF Waited, Reader
    <2>3. Stages(t)'
      BY <1>3, <2>1 DEF Waited, Stages, Reader, Cancelled, Closed, Left
    <2>4. QED
      BY <1>3, <2>2, <2>3, ReaderStep DEF Waited
  <1>4. CASE EndOfOutput(t)
    <2>1. reader'[t] = [reader[t] EXCEPT !.pc = "close"]
      BY <1>4 DEF EndOfOutput, Read
    <2>2. reader'[t] \in Reader /\ \A u \in Tabs \ {t} : reader'[u] = reader[u]
      BY <1>4, <2>1 DEF EndOfOutput, Read, Reader
    <2>3. Stages(t)'
      BY <1>4, <2>1 DEF EndOfOutput, Read, Stages, Reader, Cancelled, Closed, Left
    <2>4. QED
      BY <1>4, <2>2, <2>3, ReaderStep DEF EndOfOutput, Read
  <1>5. CASE CloseChannel(t)
    <2>1. reader'[t] = [reader[t] EXCEPT !.pc = "done"]
      BY <1>5 DEF CloseChannel, Read
    <2>2. reader'[t] \in Reader /\ \A u \in Tabs \ {t} : reader'[u] = reader[u]
      BY <1>5, <2>1 DEF CloseChannel, Read, Reader
    <2>3. Stages(t)'
      BY <1>5, <2>1 DEF CloseChannel, Read, Stages, Reader, Cancelled, Closed, Left
    <2>4. QED
      BY <1>5, <2>2, <2>3, ReaderStep DEF CloseChannel, Read
  <1>6. QED
    BY <1>1, <1>2, <1>3, <1>4, <1>5

LEMMA ScanLogs == ASSUME LogsOK, NEW t \in Tabs, Scan(t) PROVE LogsOK'
  <1> DEFINE n == reader[t].pos + 1
  <1>1. /\ reader \in [Tabs -> Reader] /\ reader[t] \in Reader /\ child[t] \in Child
        /\ Len(journal) \in Nat /\ Len(journal) <= MaxJournal /\ MaxJournal \in Nat
        /\ Stages(t) /\ reader[t].pos \in Nat
    BY StreamsAssumption DEF LogsOK, LogTypes, Reader
  <1>2. n \in 1..MaxJournal /\ n <= Len(journal) /\ n # NoLine
    <2>1. child[t].wrote \in Nat /\ child[t].wrote <= Len(journal) /\ n <= Readable(t)
      BY <1>1 DEF Scan, Stages, Child
    <2>2. n <= Len(journal)
      BY <1>1, <2>1 DEF Readable
    <2>3. QED
      BY <1>1, <2>2 DEF NoLine
  <1>3. PICK to \in {"send", "scan"}, line \in {n, NoLine} :
           /\ reader'[t] = [reader[t] EXCEPT !.pos = n, !.pc = to, !.line = line]
           /\ to = "send" <=> line # NoLine
    BY <1>1, <1>2 DEF Scan
  <1>4. reader'[t] \in Reader /\ \A u \in Tabs \ {t} : reader'[u] = reader[u]
    <2> HIDE DEF n
    <2>1. n \in 0..MaxJournal /\ line \in 0..MaxJournal
      BY <1>1, <1>2, <1>3 DEF NoLine
    <2>2. reader'[t] \in Reader
      BY <1>1, <1>3, <2>1 DEF Reader
    <2>3. QED
      BY <2>2 DEF Scan, LogsOK, LogTypes
  <1>5. reader'[t].pos = n /\ reader'[t].pc = to /\ reader'[t].line = line /\ reader'[t].err = reader[t].err
    BY <1>1, <1>3 DEF Reader
  <1>6. UNCHANGED <<journal, tab, handler, child, ch>> /\ reader[t].pc = "scan"
    BY DEF Scan
  <1>7. Stages(t)'
    <2>1. tab[t].from <= n
      BY <1>1 DEF Stages, LogsOK, LogTypes, Tab
    <2>2. QED
      BY <1>1, <1>2, <1>3, <1>5, <1>6, <2>1 DEF Stages, Cancelled, Closed, Left
  <1>8. QED
    <2>1. reader' \in [Tabs -> Reader]
      BY <1>1, <1>4 DEF Scan
    <2>2. QED
      BY <1>4, <1>6, <1>7, <2>1, ReaderStep

LEMMA SendLogs == ASSUME LogsOK, NEW t \in Tabs, Send(t) PROVE LogsOK'
  <1>1. /\ reader[t] \in Reader /\ ch[t] \in Seq(Line) /\ Stages(t)
        /\ Len(ch[t]) \in Nat /\ Capacity \in Nat /\ MaxJournal \in Nat
    BY StreamsAssumption DEF LogsOK, LogTypes
  <1>2. reader[t].line \in Line
    BY <1>1 DEF Send, Stages, Reader, NoLine, Line
  <1>3. /\ reader'[t] = [reader[t] EXCEPT !.pc = "scan", !.line = NoLine]
        /\ ch'[t] = Append(ch[t], reader[t].line)
        /\ UNCHANGED <<journal, tab, handler, child>> /\ reader[t].pc = "send"
    BY DEF Send, LogsOK, LogTypes
  <1>4. ch'[t] \in Seq(Line) /\ Len(ch'[t]) <= Capacity
    BY <1>1, <1>2, <1>3, AppendProperties DEF Send
  <1>5. OnlyTab(t)
    BY DEF OnlyTab, Send, LogsOK, LogTypes
  <1>6. LogTypes'
    <2>1. reader'[t] \in Reader
      <3>1. NoLine \in 0..MaxJournal
        BY <1>1 DEF NoLine
      <3>2. QED
        BY <1>1, <1>3, <3>1 DEF Reader
    <2>2. QED
      BY <1>4, <2>1 DEF Send, LogsOK, LogTypes
  <1>7. Stages(t)'
    BY <1>1, <1>3 DEF Stages, Reader, Cancelled, Closed, Left
  <1>8. QED
    BY <1>5, <1>6, <1>7, OneTab

LEMMA OpenLogs ==
    ASSUME LogsOK, NEW t \in Tabs, NEW want \in Levels, Open(t, want)
    PROVE  LogsOK'
  <1>1. /\ reader[t] \in Reader /\ handler[t] \in Handler /\ tab[t] \in Tab /\ Stages(t)
        /\ MaxJournal \in Nat
    BY StreamsAssumption DEF LogsOK, LogTypes
  <1>2. /\ reader'[t] = [reader[t] EXCEPT !.pc = "start"]
        /\ handler'[t] = [pc |-> "select", line |-> NoLine]
        /\ tab'[t] = [tab[t] EXCEPT !.client = "open", !.want = want]
        /\ UNCHANGED <<journal, child, ch>>
        /\ handler[t].pc = "idle" /\ reader[t].pc = "idle"
    BY DEF Open, Handle, Read, LogsOK, LogTypes
  <1>3. OnlyTab(t)
    BY DEF OnlyTab, Open, Handle, Read, LogsOK, LogTypes
  <1>4. LogTypes'
    <2>1. reader'[t] \in Reader
      BY <1>1, <1>2 DEF Reader
    <2>2. handler'[t] \in Handler
      BY <1>1, <1>2 DEF Handler, NoLine
    <2>3. tab'[t] \in Tab
      BY <1>1, <1>2 DEF Tab
    <2>4. QED
      BY <2>1, <2>2, <2>3 DEF Open, Handle, Read, LogsOK, LogTypes
  <1>5. Stages(t)'
    <2>1. /\ reader'[t].pc = "start" /\ reader'[t].err = reader[t].err
          /\ reader'[t].pos = reader[t].pos /\ reader'[t].line = reader[t].line
      BY <1>1, <1>2 DEF Reader
    <2>2. /\ tab'[t].client = "open" /\ tab'[t].from = tab[t].from /\ tab'[t].shown = tab[t].shown
          /\ tab'[t].lost = tab[t].lost /\ tab'[t].status = tab[t].status
      BY <1>1, <1>2 DEF Tab
    <2>3. QED
      BY <1>1, <1>2, <2>1, <2>2 DEF Stages, Cancelled, Closed, Left
  <1>6. QED
    BY <1>3, <1>4, <1>5, OneTab

LEMMA ReceiveLogs == ASSUME LogsOK, NEW t \in Tabs, Receive(t) PROVE LogsOK'
  <1>1. /\ handler[t] \in Handler /\ ch[t] \in Seq(Line) /\ Stages(t)
        /\ Len(ch[t]) <= Capacity /\ Capacity \in Nat /\ MaxJournal \in Nat /\ ch[t] # <<>>
    BY StreamsAssumption DEF LogsOK, LogTypes, Receive
  <1>2. /\ handler'[t] = [pc |-> "write", line |-> Head(ch[t])]
        /\ ch'[t] = Tail(ch[t])
        /\ UNCHANGED <<journal, tab, reader, child>> /\ handler[t].pc = "select"
    BY DEF Receive, Handle, LogsOK, LogTypes
  <1>3. /\ Head(ch[t]) \in Line /\ Tail(ch[t]) \in Seq(Line) /\ Len(Tail(ch[t])) <= Capacity
    BY <1>1, HeadTailProperties, LenProperties
  <1>4. OnlyTab(t)
    BY DEF OnlyTab, Receive, Handle, LogsOK, LogTypes
  <1>5. LogTypes'
    <2>1. handler'[t] \in Handler
      BY <1>1, <1>2, <1>3 DEF Handler, Line
    <2>2. QED
      BY <1>2, <1>3, <2>1 DEF Receive, Handle, LogsOK, LogTypes
  <1>6. Stages(t)'
    <2>1. handler'[t].pc = "write" /\ handler'[t].line # NoLine
      BY <1>1, <1>2, <1>3 DEF Line, NoLine
    <2>2. QED
      BY <1>1, <1>2, <2>1 DEF Stages, Cancelled, Closed, Left
  <1>7. QED
    BY <1>4, <1>5, <1>6, OneTab

\* A step of the handler alone.
LEMMA HandlerStep ==
    ASSUME LogsOK, NEW t \in Tabs, UNCHANGED <<journal, tab, reader, child, ch>>,
           NEW from, NEW to \in {"select", "close", "done"}, Handle(t, from, to, NoLine), Stages(t)'
    PROVE  LogsOK'
  <1>1. [pc |-> to, line |-> NoLine] \in Handler
    BY StreamsAssumption DEF Handler, NoLine
  <1>2. OnlyTab(t)
    BY DEF OnlyTab, Handle, LogsOK, LogTypes
  <1>3. LogTypes'
    BY <1>1 DEF Handle, LogsOK, LogTypes
  <1>4. QED
    BY <1>2, <1>3, OneTab

LEMMA SeeClosedLogs == ASSUME LogsOK, NEW t \in Tabs, SeeClosed(t) PROVE LogsOK'
  <1>1. Handle(t, "select", "close", NoLine) /\ UNCHANGED <<journal, tab, reader, child, ch>>
    BY DEF SeeClosed
  <1>2. handler'[t] = [pc |-> "close", line |-> NoLine] /\ handler[t].pc = "select"
    BY <1>1 DEF Handle, LogsOK, LogTypes
  <1>3. Stages(t)
    BY DEF LogsOK
  <1>4. Stages(t)'
    BY <1>1, <1>2, <1>3 DEF SeeClosed, Stages, Cancelled, Closed, Left
  <1>5. QED
    BY <1>1, <1>4, HandlerStep

LEMMA WriteFailsLogs == ASSUME LogsOK, NEW t \in Tabs, WriteFails(t) PROVE LogsOK'
  <1>1. /\ Handle(t, "write", "done", NoLine) /\ UNCHANGED <<journal, tab, reader, child, ch>>
        /\ tab[t].client = "reset"
    BY DEF WriteFails
  <1>2. handler'[t] = [pc |-> "done", line |-> NoLine] /\ handler[t].pc = "write"
    BY <1>1 DEF Handle, LogsOK, LogTypes
  <1>3. Stages(t)
    BY DEF LogsOK
  <1>4. Stages(t)'
    BY <1>1, <1>2, <1>3 DEF Stages, Cancelled, Closed, Left
  <1>5. QED
    BY <1>1, <1>4, HandlerStep

\* A step of the handler that tells the browser something.
LEMMA ToldStep ==
    ASSUME LogsOK, NEW t \in Tabs, UNCHANGED <<journal, reader, child, ch>>,
           NEW from, NEW to \in {"select", "close", "done"}, Handle(t, from, to, NoLine),
           tab' \in [Tabs -> Tab], \A u \in Tabs \ {t} : tab'[u] = tab[u], Stages(t)'
    PROVE  LogsOK'
  <1>1. [pc |-> to, line |-> NoLine] \in Handler
    BY StreamsAssumption DEF Handler, NoLine
  <1>2. OnlyTab(t)
    BY DEF OnlyTab, Handle, LogsOK, LogTypes
  <1>3. LogTypes'
    BY <1>1 DEF Handle, LogsOK, LogTypes
  <1>4. QED
    BY <1>2, <1>3, OneTab

LEMMA WriteLogs == ASSUME LogsOK, NEW t \in Tabs, Write(t) PROVE LogsOK'
  <1>1. /\ Handle(t, "write", "select", NoLine) /\ UNCHANGED <<journal, reader, child, ch>>
        /\ tab[t].client \in {"open", "gone"}
    BY DEF Write
  <1>2. handler'[t] = [pc |-> "select", line |-> NoLine] /\ handler[t].pc = "write"
    BY <1>1 DEF Handle, LogsOK, LogTypes
  <1>3. /\ tab[t] \in Tab /\ handler[t] \in Handler /\ MaxJournal \in Nat /\ Stages(t)
    BY StreamsAssumption DEF LogsOK, LogTypes
  <1>4. handler[t].line \in Line
    BY <1>2, <1>3 DEF Stages, Handler, NoLine, Line
  <1>5. /\ tab'[t] \in Tab
        /\ tab'[t].from = tab[t].from /\ tab'[t].status = tab[t].status
        /\ tab'[t].client # "reset" => tab'[t].lost = 0
    <2>1. CASE Left(t)
      <3>1. tab'[t] = [tab[t] EXCEPT !.lost = tab[t].lost + 1, !.client = "reset"]
        BY <1>3, <2>1 DEF Write, LogsOK, LogTypes, Tab
      <3>2. tab[t].lost + 1 \in 0..MaxJournal
        BY <1>1, <1>3, <1>4 DEF Stages, Line
      <3>3. QED
        BY <1>3, <3>1, <3>2 DEF Tab
    <2>2. CASE ~Left(t)
      <3>1. tab'[t] = [tab[t] EXCEPT !.shown = Append(tab[t].shown, handler[t].line)]
        BY <1>3, <2>2 DEF Write, LogsOK, LogTypes, Tab
      <3>2. Append(tab[t].shown, handler[t].line) \in Seq(1..MaxJournal)
        BY <1>3, <1>4, AppendProperties DEF Tab, Line
      <3>3. QED
        BY <1>3, <3>1, <3>2 DEF Tab, Stages
    <2>3. QED
      BY <2>1, <2>2
  <1>6. tab' \in [Tabs -> Tab] /\ \A u \in Tabs \ {t} : tab'[u] = tab[u]
    BY <1>5 DEF Write, LogsOK, LogTypes
  <1>7. Stages(t)'
    BY <1>1, <1>2, <1>3, <1>5 DEF Stages, Cancelled, Closed, Left
  <1>8. QED
    BY <1>1, <1>6, <1>7, ToldStep

LEMMA CloseStreamLogs == ASSUME LogsOK, NEW t \in Tabs, CloseStream(t) PROVE LogsOK'
  <1>1. Handle(t, "close", "done", NoLine) /\ UNCHANGED <<journal, reader, child, ch>>
    BY DEF CloseStream
  <1>2. handler'[t] = [pc |-> "done", line |-> NoLine] /\ handler[t].pc = "close"
    BY <1>1 DEF Handle, LogsOK, LogTypes
  <1>3. tab[t] \in Tab /\ reader[t] \in Reader /\ Stages(t)
    BY DEF LogsOK, LogTypes
  <1>4. tab[t].status = "none"
    BY <1>2, <1>3 DEF Stages, Cancelled
  <1>5. PICK status \in {"none", "normal", "internal"} :
           /\ tab'[t] = [tab[t] EXCEPT !.status = status]
           /\ status # "none" => (status = "normal" <=> reader[t].err = "nil")
    BY <1>3, <1>4 DEF CloseStream, LogsOK, LogTypes
  <1>6. /\ tab'[t] \in Tab /\ tab'[t].client = tab[t].client /\ tab'[t].from = tab[t].from
        /\ tab'[t].lost = tab[t].lost /\ tab'[t].status = status
    BY <1>3, <1>5 DEF Tab
  <1>7. tab' \in [Tabs -> Tab] /\ \A u \in Tabs \ {t} : tab'[u] = tab[u]
    BY <1>6 DEF CloseStream, LogsOK, LogTypes
  <1>8. status # "none" => (status = "normal" <=> child[t].state # "none")
    <2>1. Closed(t) /\ reader[t].err # "canceled"
      BY <1>2, <1>3 DEF Stages
    <2>2. reader[t].err \in {"nil", "start", "canceled"}
      BY <1>3 DEF Reader
    <2>3. QED
      BY <1>3, <1>5, <2>1, <2>2 DEF Stages, Closed
  <1>9. Stages(t)'
    BY <1>1, <1>2, <1>3, <1>6, <1>8 DEF Stages, Cancelled, Closed, Left
  <1>10. QED
    BY <1>1, <1>7, <1>9, ToldStep

\* The journal, journalctl and the browser.
LEMMA LogLogs == ASSUME LogsOK, NEW level \in Levels, Log(level) PROVE LogsOK'
  <1>1. /\ journal' \in Seq(Levels) /\ Len(journal') = Len(journal) + 1 /\ Len(journal') <= MaxJournal
        /\ Len(journal) \in Nat /\ MaxJournal \in Nat
        /\ UNCHANGED <<tab, handler, reader, child, ch>>
    BY StreamsAssumption, AppendProperties DEF Log, logVars, LogsOK, LogTypes
  <1>2. ASSUME NEW t \in Tabs PROVE Stages(t)'
    <2>1. reader[t].pos \in Nat /\ child[t].wrote \in Nat /\ Stages(t)
      BY <1>1 DEF LogsOK, LogTypes, Reader, Child
    <2>2. reader[t].pos <= Len(journal') /\ child[t].wrote <= Len(journal')
      BY <1>1, <2>1 DEF Stages
    <2>3. QED
      BY <1>1, <2>1, <2>2 DEF Stages, Cancelled, Closed, Left
  <1>3. LogTypes'
    BY <1>1 DEF LogsOK, LogTypes
  <1>4. QED
    BY <1>2, <1>3 DEF LogsOK

LEMMA EndChildLogs ==
    ASSUME LogsOK, NEW t \in Tabs, NEW state \in {"killed", "failed"}, EndChild(t, state)
    PROVE  LogsOK'
  <1>1. reader[t].pos \in Nat /\ Len(journal) \in Nat /\ Len(journal) <= MaxJournal /\ MaxJournal \in Nat
    BY StreamsAssumption DEF LogsOK, LogTypes, Reader
  <1>2. PICK n \in reader[t].pos..Len(journal) :
           child' = [child EXCEPT ![t] = [state |-> state, wrote |-> n]]
    BY DEF EndChild
  <1>3. child'[t] = [state |-> state, wrote |-> n] /\ child[t].state = "running"
        /\ UNCHANGED <<journal, tab, handler, reader, ch>>
    BY <1>2 DEF EndChild, LogsOK, LogTypes
  <1>4. OnlyTab(t)
    BY <1>2 DEF EndChild, OnlyTab, LogsOK, LogTypes
  <1>5. LogTypes'
    <2>1. child'[t] \in Child
      BY <1>1, <1>2, <1>3 DEF Child
    <2>2. QED
      BY <1>2, <1>3, <2>1 DEF LogsOK, LogTypes
  <1>6. Stages(t)'
    <2>1. Stages(t)
      BY DEF LogsOK
    <2>2. n <= Len(journal)
      BY <1>1, <1>2
    <2>3. QED
      BY <1>3, <2>1, <2>2 DEF Stages, Cancelled, Closed, Left
  <1>7. QED
    BY <1>4, <1>5, <1>6, OneTab

LEMMA BrowserLogs ==
    ASSUME LogsOK, NEW t \in Tabs, Stall(t) \/ Resume(t) \/ Leave(t)
    PROVE  LogsOK'
  <1>1. PICK to \in {"stalled", "open", "gone"} :
           /\ tab[t].client \in {"open", "stalled"} /\ tab' = [tab EXCEPT ![t].client = to]
           /\ UNCHANGED <<journal, handler, reader, child, ch>>
    BY DEF Stall, Resume, Leave, Browser
  <1>2. tab[t] \in Tab /\ Stages(t)
    BY DEF LogsOK, LogTypes
  <1>3. /\ tab'[t] \in Tab /\ tab'[t].client = to /\ tab'[t].from = tab[t].from
        /\ tab'[t].shown = tab[t].shown /\ tab'[t].lost = tab[t].lost
        /\ tab'[t].status = tab[t].status
    BY <1>1, <1>2 DEF Tab, LogsOK, LogTypes
  <1>4. OnlyTab(t) /\ LogTypes'
    BY <1>1, <1>3 DEF OnlyTab, LogsOK, LogTypes
  <1>5. Stages(t)'
    BY <1>1, <1>2, <1>3 DEF Stages, Cancelled, Closed, Left
  <1>6. QED
    BY <1>4, <1>5, OneTab

\* The two pages share nothing.
LEMMA OtherLogs ==
    ASSUME LogsOK, UNCHANGED <<journal, logVars>>
    PROVE  LogsOK'
  BY DEF LogsOK, LogTypes, Stages, logVars, Cancelled, Closed, Left

LEMMA DashboardFrame ==
    ASSUME NEW d \in Dashboards,
           DashboardSteps(d) \/ Disconnect(d) \/ Deadline(d) \/ \E s \in Sessions : Request(d, s)
    PROVE  UNCHANGED <<page, journal, logVars, valid>>
  BY DEF DashboardSteps, Acquire, Batch, SeeCancelled, Release, Disconnect, Deadline, Request

LEMMA StepLogs == LogsOK /\ [StreamsNext]_streamsVars => LogsOK'
  <1> SUFFICES ASSUME LogsOK, [StreamsNext]_streamsVars PROVE LogsOK'
    OBVIOUS
  <1>1. ASSUME NEW t \in Tabs, StreamSteps(t) \/ StartFails(t) PROVE LogsOK'
    BY <1>1, StartChildLogs, ReaderSteps, ScanLogs, SendLogs DEF StreamSteps
  <1>2. ASSUME NEW t \in Tabs, HandlerSteps(t) PROVE LogsOK'
    BY <1>2, ReceiveLogs, SeeClosedLogs, WriteLogs, WriteFailsLogs, CloseStreamLogs DEF HandlerSteps
  <1>3. ASSUME NEW t \in Tabs, Kill(t) \/ ChildFails(t) PROVE LogsOK'
    BY <1>3, EndChildLogs DEF Kill, ChildFails
  <1>4. ASSUME NEW s \in Sessions, EndSession(s) PROVE LogsOK'
    BY <1>4, OtherLogs DEF EndSession
  <1>5. CASE UNCHANGED streamsVars
    BY <1>5, OtherLogs DEF streamsVars
  <1>6. QED
    BY <1>1, <1>2, <1>3, <1>4, <1>5, OpenLogs, BrowserLogs, LogLogs, DashboardFrame, OtherLogs DEF StreamsNext

LEMMA AlwaysLogs == StreamsSpec => []LogsOK
  BY InitLogs, StepLogs, PTL DEF StreamsSpec

-----------------------------------------------------------------------------
(* Streams: slots. *)

Counted == {"first", "wait", "release"}

Of(s) == {d \in Dashboards : dash[d].session = s /\ dash[d].pc \in Counted}

\* StreamsTypeOK of the dashboard, and what the slots count.
SlotsOK ==
    /\ page \in {"logs", "dashboard"} /\ valid \subseteq Sessions
    /\ slots \in [Sessions -> 0..MaxSlots]
    /\ dash \in [Dashboards -> Dash] /\ connects \in 0..MaxConnects
    /\ \A s \in Sessions : slots[s] = Cardinality(Of(s))

LEMMA AnySessionType == AnySession \in Sessions
  BY StreamsAssumption DEF AnySession

LEMMA InitSlots == StreamsInit => SlotsOK
  <1> SUFFICES ASSUME StreamsInit PROVE SlotsOK
    OBVIOUS
  <1>1. \A s \in Sessions : Of(s) = {}
    BY DEF StreamsInit, Of, Counted
  <1>2. \A s \in Sessions : Cardinality(Of(s)) = 0
    BY <1>1, FS_EmptySet
  <1>3. dash \in [Dashboards -> Dash]
    BY AnySessionType DEF StreamsInit, Dash
  <1>4. slots \in [Sessions -> 0..MaxSlots] /\ connects \in 0..MaxConnects
    BY StreamsAssumption DEF StreamsInit
  <1>5. valid \subseteq Sessions /\ page \in {"logs", "dashboard"}
    BY AnySessionType DEF StreamsInit
  <1>6. QED
    BY <1>2, <1>3, <1>4, <1>5 DEF SlotsOK, StreamsInit

\* A stream that begins, or ends, is one more, or one less, of its session.
LEMMA OfFinite == \A s : IsFiniteSet(Of(s)) /\ Cardinality(Of(s)) \in Nat
  <1>1. \A s : Of(s) \in SUBSET Dashboards
    BY DEF Of
  <1>2. IsFiniteSet(Dashboards)
    BY StreamsAssumption
  <1>3. QED
    BY <1>1, <1>2, FS_Subset, FS_CardinalityType

\* A dashboard stays where it is counted, or where it is not.
LEMMA SameCount ==
    ASSUME SlotsOK, NEW d \in Dashboards, \A e \in Dashboards \ {d} : dash'[e] = dash[e],
           dash'[d] \in Dash, dash' \in [Dashboards -> Dash],
           \/ dash'[d].pc \in Counted /\ dash[d].pc \in Counted /\ dash'[d].session = dash[d].session
           \/ dash'[d].pc \notin Counted /\ dash[d].pc \notin Counted,
           UNCHANGED <<page, valid, slots>>, connects' \in 0..MaxConnects
    PROVE  SlotsOK'
  <1>1. ASSUME NEW s \in Sessions PROVE Of(s)' = Of(s)
    BY DEF Of
  <1>2. QED
    BY <1>1 DEF SlotsOK

LEMMA AcquireSlots == ASSUME SlotsOK, NEW d \in Dashboards, Acquire(d) PROVE SlotsOK'
  <1> DEFINE s == dash[d].session
  <1>1. /\ dash[d] \in Dash /\ s \in Sessions /\ slots[s] \in 0..MaxSlots /\ MaxSlots \in Nat
        /\ dash[d].pc = "acquire" /\ UNCHANGED <<page, valid, connects>>
    BY StreamsAssumption DEF SlotsOK, Dash, Acquire, Dashboard
  <1>2. CASE slots[s] < MaxSlots
    <2>1. /\ dash' = [dash EXCEPT ![d].pc = "first"] /\ slots' = [slots EXCEPT ![s] = @ + 1]
      BY <1>2 DEF Acquire, Dashboard
    <2>2. dash'[d] = [dash[d] EXCEPT !.pc = "first"] /\ \A e \in Dashboards \ {d} : dash'[e] = dash[e]
      BY <2>1 DEF SlotsOK
    <2>3. dash'[d] \in Dash /\ dash'[d].session = s /\ dash'[d].pc = "first"
      BY <1>1, <2>2 DEF Dash
    <2>4. Of(s)' = Of(s) \cup {d} /\ d \notin Of(s)
      BY <1>1, <2>2, <2>3 DEF Of, Counted
    <2>5. Cardinality(Of(s)') = Cardinality(Of(s)) + 1
      BY <2>4, OfFinite, FS_AddElement
    <2>6. \A x \in Sessions \ {s} : Of(x)' = Of(x)
      BY <1>1, <2>2, <2>3 DEF Of
    <2>7. slots' \in [Sessions -> 0..MaxSlots]
      BY <1>1, <1>2, <2>1 DEF SlotsOK
    <2>8. dash' \in [Dashboards -> Dash]
      BY <2>1, <2>3 DEF SlotsOK
    <2>9. \A x \in Sessions : slots'[x] = Cardinality(Of(x)')
      BY <1>1, <2>1, <2>5, <2>6 DEF SlotsOK
    <2>10. QED
      BY <1>1, <2>7, <2>8, <2>9 DEF SlotsOK
  <1>3. CASE ~(slots[s] < MaxSlots)
    <2>1. dash' = [dash EXCEPT ![d].pc = "idle"] /\ UNCHANGED slots
      BY <1>3 DEF Acquire, Dashboard
    <2>2. dash'[d] = [dash[d] EXCEPT !.pc = "idle"] /\ \A e \in Dashboards \ {d} : dash'[e] = dash[e]
      BY <2>1 DEF SlotsOK
    <2>3. dash'[d] \in Dash /\ dash'[d].pc = "idle"
      BY <1>1, <2>2 DEF Dash
    <2>4. dash' \in [Dashboards -> Dash]
      BY <2>1, <2>3 DEF SlotsOK
    <2>5. QED
      BY <1>1, <2>1, <2>2, <2>3, <2>4, SameCount DEF Counted, SlotsOK
  <1>4. QED
    BY <1>2, <1>3

LEMMA ReleaseSlots == ASSUME SlotsOK, NEW d \in Dashboards, Release(d) PROVE SlotsOK'
  <1> DEFINE s == dash[d].session
  <1>1. /\ dash[d] \in Dash /\ s \in Sessions /\ slots[s] \in 0..MaxSlots /\ MaxSlots \in Nat
        /\ dash[d].pc = "release" /\ UNCHANGED <<page, valid, connects>>
        /\ dash' = [dash EXCEPT ![d].pc = "idle"]
        /\ slots' = [slots EXCEPT ![s] = IF @ <= 1 THEN 0 ELSE @ - 1]
    BY StreamsAssumption DEF SlotsOK, Dash, Release, Dashboard
  <1>2. dash'[d] = [dash[d] EXCEPT !.pc = "idle"] /\ \A e \in Dashboards \ {d} : dash'[e] = dash[e]
    BY <1>1 DEF SlotsOK
  <1>3. dash'[d] \in Dash /\ dash'[d].session = s /\ dash'[d].pc = "idle"
    BY <1>1, <1>2 DEF Dash
  <1>4. Of(s)' = Of(s) \ {d} /\ d \in Of(s)
    BY <1>1, <1>2, <1>3 DEF Of, Counted
  <1>5. Cardinality(Of(s)') = Cardinality(Of(s)) - 1 /\ Cardinality(Of(s)') \in Nat
    BY <1>4, OfFinite, FS_RemoveElement, FS_CardinalityType
  <1>6. slots[s] = Cardinality(Of(s))
    BY <1>1 DEF SlotsOK
  <1>7. slots'[s] = slots[s] - 1 /\ slots' \in [Sessions -> 0..MaxSlots]
    BY <1>1, <1>5, <1>6 DEF SlotsOK
  <1>8. \A x \in Sessions \ {s} : Of(x)' = Of(x)
    BY <1>1, <1>2, <1>3 DEF Of
  <1>9. \A x \in Sessions : slots'[x] = Cardinality(Of(x)')
    BY <1>1, <1>5, <1>6, <1>7, <1>8 DEF SlotsOK
  <1>10. dash' \in [Dashboards -> Dash]
    BY <1>1, <1>3 DEF SlotsOK
  <1>11. QED
    BY <1>1, <1>7, <1>9, <1>10 DEF SlotsOK

LEMMA DashboardSlots ==
    ASSUME SlotsOK, NEW d \in Dashboards,
           DashboardSteps(d) \/ Disconnect(d) \/ Deadline(d) \/ \E s \in Sessions : Request(d, s)
    PROVE  SlotsOK'
  <1>1. dash[d] \in Dash /\ connects \in 0..MaxConnects /\ MaxConnects \in Nat
    BY StreamsAssumption DEF SlotsOK
  <1>2. ASSUME Batch(d) \/ SeeCancelled(d) \/ Disconnect(d) \/ Deadline(d),
               NEW r \in Dash, dash' = [dash EXCEPT ![d] = r], r.session = dash[d].session,
               r.pc \in Counted <=> dash[d].pc \in Counted
        PROVE  SlotsOK'
    <2>1. UNCHANGED <<page, valid, slots, connects>>
      BY <1>2 DEF Batch, SeeCancelled, Disconnect, Deadline
    <2>2. dash'[d] = r /\ dash' \in [Dashboards -> Dash] /\ \A e \in Dashboards \ {d} : dash'[e] = dash[e]
      BY <1>2 DEF SlotsOK
    <2>3. QED
      BY <1>1, <1>2, <2>1, <2>2, SameCount
  <1>3. CASE Batch(d)
    <2>1. CASE dash[d].session \in valid
      <3> DEFINE r == [dash[d] EXCEPT !.pc = "wait", !.cancelled = dash[d].cancelled \/ dash[d].late]
      <3>1. dash' = [dash EXCEPT ![d] = r] /\ dash[d].pc \in {"first", "wait"}
        BY <1>3, <2>1 DEF Batch, SlotsOK
      <3>2. dash[d].cancelled \/ dash[d].late \in BOOLEAN
        BY <1>1 DEF Dash
      <3>3. r \in Dash /\ r.session = dash[d].session /\ r.pc = "wait"
        BY <1>1, <3>2 DEF Dash
      <3>4. QED
        BY <1>2, <1>3, <3>1, <3>3 DEF Counted
    <2>2. CASE dash[d].session \notin valid
      <3> DEFINE r == [dash[d] EXCEPT !.pc = "release"]
      <3>1. dash' = [dash EXCEPT ![d] = r] /\ dash[d].pc \in {"first", "wait"}
        BY <1>3, <2>2 DEF Batch, Dashboard, SlotsOK
      <3>2. r \in Dash /\ r.session = dash[d].session /\ r.pc = "release"
        BY <1>1 DEF Dash
      <3>3. QED
        BY <1>2, <1>3, <3>1, <3>2 DEF Counted
    <2>3. QED
      BY <2>1, <2>2
  <1>4. CASE SeeCancelled(d)
    <2> DEFINE r == [dash[d] EXCEPT !.pc = "release"]
    <2>1. dash' = [dash EXCEPT ![d] = r] /\ dash[d].pc = "wait"
      BY <1>4 DEF SeeCancelled, Dashboard, SlotsOK
    <2>2. r \in Dash /\ r.session = dash[d].session /\ r.pc = "release"
      BY <1>1 DEF Dash
    <2>3. QED
      BY <1>2, <1>4, <2>1, <2>2 DEF Counted
  <1>5. CASE Disconnect(d)
    <2> DEFINE r == [dash[d] EXCEPT !.cancelled = TRUE]
    <2>1. dash' = [dash EXCEPT ![d] = r]
      BY <1>5 DEF Disconnect, SlotsOK
    <2>2. r \in Dash /\ r.session = dash[d].session /\ r.pc = dash[d].pc
      BY <1>1 DEF Dash
    <2>3. QED
      BY <1>2, <1>5, <2>1, <2>2
  <1>6. CASE Deadline(d)
    <2> DEFINE r == [dash[d] EXCEPT !.late = TRUE]
    <2>1. dash' = [dash EXCEPT ![d] = r]
      BY <1>6 DEF Deadline, SlotsOK
    <2>2. r \in Dash /\ r.session = dash[d].session /\ r.pc = dash[d].pc
      BY <1>1 DEF Dash
    <2>3. QED
      BY <1>2, <1>6, <2>1, <2>2
  <1>7. ASSUME NEW s \in Sessions, Request(d, s) PROVE SlotsOK'
    <2> DEFINE r == [pc |-> "acquire", session |-> s, cancelled |-> FALSE, late |-> FALSE]
    <2>1. /\ dash' = [dash EXCEPT ![d] = r] /\ dash[d].pc = "idle"
          /\ connects < MaxConnects /\ connects' = connects + 1
          /\ UNCHANGED <<page, valid, slots>>
      BY <1>7 DEF Request
    <2>2. r \in Dash /\ r.pc = "acquire"
      BY DEF Dash
    <2>3. connects' \in 0..MaxConnects
      BY <1>1, <2>1
    <2>4. dash'[d] = r /\ dash' \in [Dashboards -> Dash] /\ \A e \in Dashboards \ {d} : dash'[e] = dash[e]
      BY <2>1, <2>2 DEF SlotsOK
    <2>5. QED
      BY <2>1, <2>2, <2>3, <2>4, SameCount DEF Counted
  <1>8. QED
    BY <1>3, <1>4, <1>5, <1>6, <1>7, AcquireSlots, ReleaseSlots DEF DashboardSteps

LEMMA LogFrame ==
    ASSUME NEW t \in Tabs,
           \/ StreamSteps(t) \/ StartFails(t) \/ HandlerSteps(t) \/ Kill(t) \/ ChildFails(t)
           \/ \E want \in Levels : Open(t, want)
           \/ Stall(t) \/ Resume(t) \/ Leave(t)
    PROVE  UNCHANGED <<page, valid, dashVars>>
  BY DEF StreamSteps, StartChild, Scan, Send, SendCancelled, Waited, EndOfOutput, CloseChannel,
     StartFails, HandlerSteps, Receive, SeeClosed, Write, WriteFails, CloseStream, Kill, ChildFails,
     EndChild, Open, Stall, Resume, Leave, Browser

LEMMA StepSlots == SlotsOK /\ [StreamsNext]_streamsVars => SlotsOK'
  <1> SUFFICES ASSUME SlotsOK, [StreamsNext]_streamsVars PROVE SlotsOK'
    OBVIOUS
  <1>1. ASSUME UNCHANGED <<page, dashVars>>, valid' \subseteq Sessions PROVE SlotsOK'
    BY <1>1 DEF SlotsOK, dashVars, Of
  <1>2. CASE UNCHANGED streamsVars
    BY <1>1, <1>2 DEF streamsVars, SlotsOK
  <1>3. ASSUME NEW level \in Levels, Log(level) PROVE SlotsOK'
    BY <1>1, <1>3 DEF Log, SlotsOK
  <1>4. ASSUME NEW s \in Sessions, EndSession(s) PROVE SlotsOK'
    BY <1>1, <1>4 DEF EndSession, SlotsOK
  <1>5. ASSUME NEW t \in Tabs,
               \/ StreamSteps(t) \/ StartFails(t) \/ HandlerSteps(t) \/ Kill(t) \/ ChildFails(t)
               \/ \E want \in Levels : Open(t, want)
               \/ Stall(t) \/ Resume(t) \/ Leave(t)
        PROVE  SlotsOK'
    BY <1>1, <1>5, LogFrame DEF SlotsOK
  <1>6. QED
    BY <1>2, <1>3, <1>4, <1>5, DashboardSlots DEF StreamsNext

LEMMA AlwaysSlots == StreamsSpec => []SlotsOK
  BY InitSlots, StepSlots, PTL DEF StreamsSpec

\* Every variable keeps its type, however streams end; in particular the channel never holds
\* more than its capacity, and no session ever has more slots than there are.
THEOREM StreamsTypeCorrect == StreamsSpec => []StreamsTypeOK
  <1>1. LogsOK /\ SlotsOK => StreamsTypeOK
    BY DEF LogsOK, LogTypes, SlotsOK, StreamsTypeOK, Line
  <1>2. QED
    BY <1>1, AlwaysLogs, AlwaysSlots, PTL

\* dashboard_sse.go:36: the limiter counts the dashboard streams there are of a session, and
\* lets it have no more than it may: what SlotsReturned says of every state.
THEOREM OneStreamHolds == StreamsSpec => []OneStream
  <1>1. SlotsOK => OneStream
    BY StreamsAssumption DEF SlotsOK, OneStream, Of, Counted
  <1>2. QED
    BY <1>1, AlwaysSlots, PTL

-----------------------------------------------------------------------------
(* Streams: the order of the lines. *)

Order(t) == tab[t].client \in {"open", "stalled"} => Lists(Carried(t), Wanted(t))

\* The parts of Carried.
LEMMA PartTypes ==
    ASSUME LogsOK, NEW t \in Tabs
    PROVE  /\ tab[t].shown \in Seq(Line) /\ ch[t] \in Seq(Line)
           /\ Held(handler[t].line) \in Seq(Line) /\ Held(reader[t].line) \in Seq(Line)
           /\ reader[t].pos \in 0..MaxJournal /\ tab[t].from \in 0..MaxJournal
           /\ Len(journal) \in Nat /\ MaxJournal \in Nat
  <1>1. tab[t] \in Tab /\ handler[t] \in Handler /\ reader[t] \in Reader /\ ch[t] \in Seq(Line)
    BY DEF LogsOK, LogTypes
  <1>2. tab[t].shown \in Seq(Line)
    BY <1>1 DEF Tab, Line
  <1>3. handler[t].line \in 0..MaxJournal /\ reader[t].line \in 0..MaxJournal
    BY <1>1 DEF Handler, Reader
  <1>4. reader[t].pos \in 0..MaxJournal /\ tab[t].from \in 0..MaxJournal
    BY <1>1 DEF Reader, Tab
  <1>5. Len(journal) \in Nat /\ MaxJournal \in Nat
    BY StreamsAssumption DEF LogsOK, LogTypes
  <1>6. QED
    BY <1>1, <1>2, <1>3, <1>4, <1>5, HeldType

\* Lines that keep their place, of a journal that may have grown.
LEMMA OrderKept ==
    ASSUME LogsOK, NEW t \in Tabs, Order(t),
           tab[t].client \in {"open", "stalled"}, Carried(t)' = Carried(t),
           tab'[t].from = tab[t].from, tab'[t].want = tab[t].want, reader'[t].pos = reader[t].pos,
           \A n \in 1..Len(journal) : journal'[n] = journal[n]
    PROVE  Order(t)'
  <1>1. \A n \in (tab[t].from + 1)..reader[t].pos : n \in 1..Len(journal)
    BY PartTypes DEF LogsOK, Stages
  <1>2. Wanted(t)' = Wanted(t)
    BY <1>1 DEF Wanted, Matches
  <1>3. QED
    BY <1>2 DEF Order

LEMMA SameOrder ==
    ASSUME LogsOK, NEW t \in Tabs, Order(t),
           tab'[t].client \in {"open", "stalled"} => tab[t].client \in {"open", "stalled"},
           tab'[t].shown = tab[t].shown, handler'[t].line = handler[t].line, ch'[t] = ch[t],
           reader'[t].line = reader[t].line,
           tab'[t].from = tab[t].from, tab'[t].want = tab[t].want, reader'[t].pos = reader[t].pos,
           \A n \in 1..Len(journal) : journal'[n] = journal[n]
    PROVE  Order(t)'
  <1>1. Carried(t)' = Carried(t)
    BY DEF Carried
  <1>2. CASE tab[t].client \in {"open", "stalled"}
    BY <1>1, <1>2, OrderKept
  <1>3. CASE tab[t].client \notin {"open", "stalled"}
    BY <1>3 DEF Order
  <1>4. QED
    BY <1>2, <1>3

LEMMA OpenOrder ==
    ASSUME LogsOK, NEW t \in Tabs, NEW want \in Levels, Open(t, want) PROVE Order(t)'
  <1>1. /\ handler[t].pc = "idle" /\ reader[t].pc = "idle" /\ Stages(t)
        /\ reader[t] \in Reader /\ tab[t] \in Tab
    BY DEF Open, Handle, Read, LogsOK, LogTypes
  <1>2. /\ reader'[t].pos = reader[t].pos /\ reader'[t].line = reader[t].line
        /\ tab'[t].shown = tab[t].shown /\ tab'[t].from = tab[t].from
        /\ handler'[t].line = NoLine /\ ch' = ch
    BY <1>1 DEF Open, Handle, Read, LogsOK, LogTypes, Reader, Tab
  <1>3. /\ tab'[t].shown = <<>> /\ ch'[t] = <<>> /\ reader'[t].line = NoLine
        /\ tab'[t].from = 0 /\ reader'[t].pos = 0
    BY <1>1, <1>2 DEF Stages
  <1>4. Held(NoLine) = <<>> /\ <<>> \o <<>> = <<>>
    BY ConcatEmptySeq DEF Held
  <1>5. Carried(t)' = <<>> /\ Wanted(t)' = {}
    BY <1>2, <1>3, <1>4 DEF Carried, Wanted
  <1>6. Lists(<<>>, {})
    BY DEF Lists
  <1>7. QED
    BY <1>5, <1>6 DEF Order

LEMMA StartChildOrder == ASSUME LogsOK, NEW t \in Tabs, StartChild(t) PROVE Order(t)'
  <1> DEFINE first == IF Len(journal) > Backlog THEN Len(journal) - Backlog ELSE 0
  <1>1. /\ reader[t].pc = "start" /\ Stages(t) /\ handler[t].line = NoLine
        /\ first \in Nat
    BY StreamsAssumption DEF StartChild, LogsOK, LogTypes, Stages
  <1> HIDE DEF first
  <1>2. /\ reader'[t].pos = first /\ reader'[t].line = reader[t].line
        /\ tab'[t].shown = tab[t].shown /\ tab'[t].from = first
        /\ UNCHANGED <<handler, ch>>
    BY DEF StartChild, LogsOK, LogTypes, Reader, Tab, first
  <1>3. tab'[t].shown = <<>> /\ ch'[t] = <<>> /\ reader'[t].line = NoLine
    BY <1>1, <1>2 DEF Stages
  <1>4. Held(NoLine) = <<>> /\ <<>> \o <<>> = <<>>
    BY ConcatEmptySeq DEF Held
  <1>5. Carried(t)' = <<>> /\ Wanted(t)' = {}
    BY <1>1, <1>2, <1>3, <1>4 DEF Carried, Wanted
  <1>6. Lists(<<>>, {})
    BY DEF Lists
  <1>7. QED
    BY <1>5, <1>6 DEF Order

\* The next line is wanted, or is passed over.
LEMMA ScanOrder == ASSUME LogsOK, NEW t \in Tabs, Order(t), Scan(t) PROVE Order(t)'
  <1> DEFINE n == reader[t].pos + 1
  <1>1. /\ reader[t].pc = "scan" /\ n <= Readable(t) /\ Stages(t) /\ reader[t] \in Reader
        /\ child[t] \in Child /\ UNCHANGED <<journal, tab, handler, ch>>
    BY DEF Scan, LogsOK, LogTypes
  <1>2. /\ reader[t].pos \in Nat /\ n \in 1..Len(journal) /\ n \in Line /\ n # NoLine
        /\ tab[t].from <= reader[t].pos /\ tab[t].from \in Nat
    BY SMTT(30), <1>1, PartTypes DEF Readable, Stages, Child, Line, NoLine, LogsOK, LogTypes
  <1>3. CASE tab[t].client \notin {"open", "stalled"}
    BY <1>1, <1>3 DEF Order
  <1>4. CASE tab[t].client \in {"open", "stalled"}
    <2>1. reader[t].line = NoLine
      BY <1>1, <1>4 DEF Stages, Left
    <2>2. /\ Wanted(t) \in SUBSET Line /\ \A y \in Wanted(t) : y < n
      <3>1. \A y \in (tab[t].from + 1)..reader[t].pos : y \in Line /\ y < n
        BY <1>2, StreamsAssumption DEF Line
      <3>2. QED
        BY <3>1 DEF Wanted
    <2>3. \A m : m \in (tab[t].from + 1)..n <=> (m \in (tab[t].from + 1)..reader[t].pos \/ m = n)
      BY <1>2
    <2>4. reader'[t].pos = n
      BY <1>1 DEF Scan, LogsOK, LogTypes, Reader
    <2>5. \A m : Matches(t, m)' <=> Matches(t, m)
      BY <1>1 DEF Matches
    <2> HIDE DEF n
    <2>6. CASE Matches(t, n)
      <3>1. reader'[t].line = n
        BY <1>1, <2>6 DEF Scan, LogsOK, LogTypes, Reader, n
      <3>2. Wanted(t)' = Wanted(t) \cup {n}
        BY <1>1, <2>3, <2>4, <2>5, <2>6 DEF Wanted
      <3>3. Held(NoLine) = <<>> /\ Held(n) = <<n>>
        BY <1>2 DEF Held
      <3>4. Carried(t)' = Append(Carried(t), n)
        <4>1. Carried(t) = tab[t].shown \o Held(handler[t].line) \o ch[t] \o <<>>
          BY <2>1, <3>3 DEF Carried
        <4>2. Carried(t)' = tab[t].shown \o Held(handler[t].line) \o ch[t] \o <<n>>
          BY <1>1, <3>1, <3>3 DEF Carried
        <4>3. n \in Line
          BY <1>2
        <4>4. /\ tab[t].shown \in Seq(Line) /\ Held(handler[t].line) \in Seq(Line)
              /\ ch[t] \in Seq(Line)
          BY PartTypes
        <4>5. tab[t].shown \o Held(handler[t].line) \o ch[t] \o <<n>>
                 = Append(tab[t].shown \o Held(handler[t].line) \o ch[t] \o <<>>, n)
          BY <4>3, <4>4, ScanAppends
        <4>6. QED
          BY <4>1, <4>2, <4>5
      <3>5. Carried(t) \in Seq(Line)
        BY PartTypes, ConcatProperties DEF Carried
      <3>6. QED
        BY <1>4, <1>2, <2>2, <3>2, <3>4, <3>5, ListsAppend DEF Order
    <2>7. CASE ~Matches(t, n)
      <3>1. reader'[t].line = NoLine
        BY <1>1, <2>7 DEF Scan, LogsOK, LogTypes, Reader, n
      <3>2. Wanted(t)' = Wanted(t)
        BY <1>1, <2>3, <2>4, <2>5, <2>7 DEF Wanted
      <3>3. Carried(t)' = Carried(t)
        BY <1>1, <2>1, <3>1 DEF Carried
      <3>4. QED
        BY <1>4, <3>2, <3>3 DEF Order
    <2>8. QED
      BY <2>6, <2>7
  <1>5. QED
    BY <1>3, <1>4

LEMMA SendOrder == ASSUME LogsOK, NEW t \in Tabs, Order(t), Send(t) PROVE Order(t)'
  <1>1. /\ reader[t].pc = "send" /\ Stages(t) /\ reader[t] \in Reader
        /\ reader'[t].line = NoLine /\ reader'[t].pos = reader[t].pos
        /\ ch'[t] = Append(ch[t], reader[t].line) /\ UNCHANGED <<journal, tab, handler>>
    BY DEF Send, LogsOK, LogTypes, Reader
  <1>2. reader[t].line \in Line /\ reader[t].line # NoLine
    BY <1>1 DEF Stages, Reader, Line, NoLine
  <1>3. Held(NoLine) = <<>> /\ Held(reader[t].line) = <<reader[t].line>>
    BY <1>2 DEF Held
  <1>4. Carried(t)' = Carried(t)
    <2>1. Carried(t) = tab[t].shown \o Held(handler[t].line) \o ch[t] \o <<reader[t].line>>
      BY <1>3 DEF Carried
    <2>2. Carried(t)' = tab[t].shown \o Held(handler[t].line) \o Append(ch[t], reader[t].line) \o <<>>
      BY <1>1, <1>3 DEF Carried
    <2>3. /\ tab[t].shown \in Seq(Line) /\ ch[t] \in Seq(Line)
          /\ Held(handler[t].line) \in Seq(Line)
      BY PartTypes
    <2>4. tab[t].shown \o Held(handler[t].line) \o Append(ch[t], reader[t].line) \o <<>>
            = tab[t].shown \o Held(handler[t].line) \o ch[t] \o <<reader[t].line>>
      BY <1>2, <2>3, SendMoves
    <2>5. QED
      BY <2>1, <2>2, <2>4
  <1>5. CASE tab[t].client \in {"open", "stalled"}
    BY <1>1, <1>4, <1>5, OrderKept
  <1>6. CASE tab[t].client \notin {"open", "stalled"}
    BY <1>1, <1>6 DEF Order
  <1>7. QED
    BY <1>5, <1>6

LEMMA ReceiveOrder == ASSUME LogsOK, NEW t \in Tabs, Order(t), Receive(t) PROVE Order(t)'
  <1>1. /\ handler[t].pc = "select" /\ Stages(t) /\ ch[t] # <<>> /\ ch[t] \in Seq(Line)
        /\ handler'[t].line = Head(ch[t]) /\ ch'[t] = Tail(ch[t])
        /\ UNCHANGED <<journal, tab, reader>>
    BY DEF Receive, Handle, LogsOK, LogTypes
  <1>2. handler[t].line = NoLine /\ Head(ch[t]) \in Line /\ Head(ch[t]) # NoLine
    <2>1. handler[t].line = NoLine
      BY <1>1 DEF Stages
    <2>2. Head(ch[t]) \in Line
      BY <1>1, HeadTailProperties
    <2>3. QED
      BY <2>1, <2>2, StreamsAssumption DEF Line, NoLine
  <1>3. Held(NoLine) = <<>> /\ Held(Head(ch[t])) = <<Head(ch[t])>>
    BY <1>2 DEF Held
  <1>4. Carried(t)' = Carried(t)
    <2>1. Carried(t) = tab[t].shown \o <<>> \o ch[t] \o Held(reader[t].line)
      BY <1>2, <1>3 DEF Carried
    <2>2. Carried(t)' = tab[t].shown \o <<Head(ch[t])>> \o Tail(ch[t]) \o Held(reader[t].line)
      BY <1>1, <1>3 DEF Carried
    <2>3. QED
      BY <1>1, <2>1, <2>2, PartTypes, ReceiveMoves
  <1>5. CASE tab[t].client \in {"open", "stalled"}
    BY <1>1, <1>4, <1>5, OrderKept
  <1>6. CASE tab[t].client \notin {"open", "stalled"}
    BY <1>1, <1>6 DEF Order
  <1>7. QED
    BY <1>5, <1>6

LEMMA WriteOrder == ASSUME LogsOK, NEW t \in Tabs, Order(t), Write(t) PROVE Order(t)'
  <1>1. /\ handler[t].pc = "write" /\ Stages(t) /\ handler[t] \in Handler /\ tab[t] \in Tab
        /\ tab[t].client \in {"open", "gone"}
        /\ handler'[t].line = NoLine /\ UNCHANGED <<journal, reader, ch>>
    BY DEF Write, Handle, LogsOK, LogTypes
  <1>2. CASE Left(t)
    <2>1. tab'[t].client = "reset"
      BY <1>1, <1>2 DEF Write, LogsOK, LogTypes, Tab
    <2>2. QED
      BY <2>1 DEF Order
  <1>3. CASE ~Left(t)
    <2>1. tab[t].client = "open"
      BY <1>1, <1>3 DEF Left
    <2>2. /\ tab'[t].shown = Append(tab[t].shown, handler[t].line)
          /\ tab'[t].from = tab[t].from /\ tab'[t].want = tab[t].want
      BY <1>1, <1>3 DEF Write, LogsOK, LogTypes, Tab
    <2>3. handler[t].line \in Line /\ handler[t].line # NoLine
      BY <1>1 DEF Stages, Handler, Line, NoLine
    <2>4. Held(NoLine) = <<>> /\ Held(handler[t].line) = <<handler[t].line>>
      BY <2>3 DEF Held
    <2>5. Carried(t)' = Carried(t)
      <3>1. Carried(t) = tab[t].shown \o <<handler[t].line>> \o ch[t] \o Held(reader[t].line)
        BY <2>4 DEF Carried
      <3>2. Carried(t)' = Append(tab[t].shown, handler[t].line) \o <<>> \o ch[t] \o Held(reader[t].line)
        BY <1>1, <2>2, <2>4 DEF Carried
      <3>3. /\ tab[t].shown \in Seq(Line) /\ ch[t] \in Seq(Line)
            /\ Held(reader[t].line) \in Seq(Line)
        BY PartTypes
      <3>4. Append(tab[t].shown, handler[t].line) \o <<>> \o ch[t] \o Held(reader[t].line)
              = tab[t].shown \o <<handler[t].line>> \o ch[t] \o Held(reader[t].line)
        <4>1. /\ Append(tab[t].shown, handler[t].line) = tab[t].shown \o <<handler[t].line>>
              /\ Append(tab[t].shown, handler[t].line) \in Seq(Line)
          BY <2>3, <3>3, AppendIsConcat, AppendProperties
        <4>2. Append(tab[t].shown, handler[t].line) \o <<>>
                = Append(tab[t].shown, handler[t].line)
          BY <4>1, ConcatEmptySeq
        <4>3. QED
          BY <4>1, <4>2
      <3>5. QED
        BY <3>1, <3>2, <3>4
    <2>6. QED
      BY <1>1, <2>1, <2>2, <2>5, OrderKept
  <1>4. QED
    BY <1>2, <1>3

\* The steps that move no line.
LEMMA QuietOrder ==
    ASSUME LogsOK, NEW t \in Tabs, Order(t),
           \/ StartFails(t) \/ SendCancelled(t) \/ Waited(t) \/ EndOfOutput(t) \/ CloseChannel(t)
           \/ SeeClosed(t) \/ WriteFails(t) \/ CloseStream(t) \/ Kill(t) \/ ChildFails(t)
           \/ Stall(t) \/ Resume(t) \/ Leave(t)
    PROVE  Order(t)'
  <1>1. /\ tab[t] \in Tab /\ handler[t] \in Handler /\ reader[t] \in Reader /\ Stages(t)
        /\ tab \in [Tabs -> Tab] /\ handler \in [Tabs -> Handler] /\ reader \in [Tabs -> Reader]
    BY DEF LogsOK, LogTypes
  <1>2. UNCHANGED <<journal, ch>>
    BY DEF StartFails, SendCancelled, Waited, EndOfOutput, CloseChannel, SeeClosed, WriteFails,
           CloseStream, Kill, ChildFails, EndChild, Stall, Resume, Leave, Browser
  <1>3. reader'[t].line = reader[t].line /\ reader'[t].pos = reader[t].pos
    <2>1. CASE StartFails(t) \/ SendCancelled(t) \/ Waited(t) \/ EndOfOutput(t) \/ CloseChannel(t)
      BY <1>1, <2>1 DEF StartFails, SendCancelled, Waited, EndOfOutput, CloseChannel, Read, Reader
    <2>2. CASE UNCHANGED reader
      BY <2>2
    <2>3. QED
      BY <2>1, <2>2 DEF SeeClosed, WriteFails, CloseStream, Kill, ChildFails, EndChild,
                        Stall, Resume, Leave, Browser
  <1>4. /\ tab'[t].shown = tab[t].shown /\ tab'[t].from = tab[t].from /\ tab'[t].want = tab[t].want
        /\ tab'[t].client \in {"open", "stalled"} => tab[t].client \in {"open", "stalled"}
    <2>1. CASE Stall(t) \/ Resume(t) \/ Leave(t)
      BY <1>1, <2>1 DEF Stall, Resume, Leave, Browser, Tab
    <2>2. CASE CloseStream(t)
      BY <1>1, <2>2 DEF CloseStream, Tab
    <2>3. CASE UNCHANGED tab
      BY <2>3
    <2>4. QED
      BY <2>1, <2>2, <2>3 DEF StartFails, SendCancelled, Waited, EndOfOutput, CloseChannel,
                              SeeClosed, WriteFails, Kill, ChildFails, EndChild
  <1>5. CASE WriteFails(t)
    <2>1. tab[t].client = "reset" /\ UNCHANGED tab
      BY <1>5 DEF WriteFails
    <2>2. QED
      BY <2>1 DEF Order
  <1>6. CASE ~WriteFails(t)
    <2>1. handler'[t].line = handler[t].line
      <3>1. CASE SeeClosed(t)
        <4>1. handler[t].line = NoLine /\ handler'[t].line = NoLine
          BY <1>1, <3>1 DEF SeeClosed, Handle, Stages
        <4>2. QED
          BY <4>1
      <3>2. CASE CloseStream(t)
        <4>1. handler[t].line = NoLine /\ handler'[t].line = NoLine
          BY <1>1, <3>2 DEF CloseStream, Handle, Stages
        <4>2. QED
          BY <4>1
      <3>3. CASE UNCHANGED handler
        BY <3>3
      <3>4. QED
        BY <1>6, <3>1, <3>2, <3>3 DEF StartFails, SendCancelled, Waited, EndOfOutput, CloseChannel,
                                 Kill, ChildFails, EndChild, Stall, Resume, Leave, Browser, Read
    <2>2. QED
      BY <1>2, <1>3, <1>4, <2>1, SameOrder
  <1>7. QED
    BY <1>5, <1>6

LEMMA OtherOrder ==
    ASSUME LogsOK, NEW t \in Tabs, NEW u \in Tabs \ {t}, Order(u), OnlyTab(t) PROVE Order(u)'
  BY SameOrder DEF OnlyTab

LEMMA LogOrder ==
    ASSUME LogsOK, NEW t \in Tabs, Order(t), NEW level \in Levels, Log(level) PROVE Order(t)'
  <1>1. journal \in Seq(Levels) /\ journal' = Append(journal, level)
    BY DEF Log, LogsOK, LogTypes
  <1>2. \A n \in 1..Len(journal) : journal'[n] = journal[n]
    BY <1>1, AppendProperties
  <1>3. UNCHANGED logVars
    BY DEF Log
  <1>4. QED
    BY <1>2, <1>3, SameOrder DEF logVars

Ordered == LogsOK /\ \A t \in Tabs : Order(t)

\* A step of t leaves the other streams what they are.
LEMMA StepOnlyTab ==
    ASSUME LogsOK, NEW t \in Tabs,
           \/ StreamSteps(t) \/ StartFails(t) \/ HandlerSteps(t) \/ Kill(t) \/ ChildFails(t)
           \/ \E want \in Levels : Open(t, want)
           \/ Stall(t) \/ Resume(t) \/ Leave(t)
    PROVE  OnlyTab(t)
  <1> /\ tab \in [Tabs -> Tab] /\ handler \in [Tabs -> Handler] /\ reader \in [Tabs -> Reader]
      /\ child \in [Tabs -> Child] /\ ch \in [Tabs -> Seq(Line)]
    BY DEF LogsOK, LogTypes
  <1>1. CASE StreamSteps(t) \/ StartFails(t)
    BY <1>1 DEF StreamSteps, StartFails, StartChild, Scan, Send, SendCancelled, Waited, EndOfOutput,
               CloseChannel, Read, OnlyTab
  <1>2. CASE HandlerSteps(t)
    BY <1>2 DEF HandlerSteps, Receive, SeeClosed, Write, WriteFails, CloseStream, Handle, OnlyTab
  <1>3. CASE Kill(t) \/ ChildFails(t)
    BY <1>3 DEF Kill, ChildFails, EndChild, OnlyTab
  <1>4. CASE \E want \in Levels : Open(t, want)
    BY <1>4 DEF Open, Handle, Read, OnlyTab
  <1>5. CASE Stall(t) \/ Resume(t) \/ Leave(t)
    BY <1>5 DEF Stall, Resume, Leave, Browser, OnlyTab
  <1>6. QED
    BY <1>1, <1>2, <1>3, <1>4, <1>5

LEMMA StepOrder == Ordered /\ [StreamsNext]_streamsVars => Ordered'
  <1> SUFFICES ASSUME Ordered, [StreamsNext]_streamsVars, NEW u \in Tabs PROVE Order(u)'
    BY StepLogs DEF Ordered
  <1> LogsOK /\ Order(u)
    BY DEF Ordered
  <1>1. ASSUME NEW t \in Tabs,
               \/ StreamSteps(t) \/ StartFails(t) \/ HandlerSteps(t) \/ Kill(t) \/ ChildFails(t)
               \/ \E want \in Levels : Open(t, want)
               \/ Stall(t) \/ Resume(t) \/ Leave(t)
        PROVE  Order(u)'
    <2>1. CASE t # u
      <3>1. OnlyTab(t)
        BY <1>1, StepOnlyTab
      <3>2. QED
        BY <2>1, <3>1, OtherOrder
    <2>2. CASE t = u
      BY <1>1, <2>2, StartChildOrder, ScanOrder, SendOrder, OpenOrder, ReceiveOrder, WriteOrder,
         QuietOrder DEF StreamSteps, HandlerSteps
    <2>3. QED
      BY <2>1, <2>2
  <1>2. ASSUME NEW level \in Levels, Log(level) PROVE Order(u)'
    BY <1>2, LogOrder
  <1>3. CASE UNCHANGED <<journal, logVars>>
    BY <1>3, SameOrder DEF logVars
  <1>4. QED
    BY <1>1, <1>2, <1>3, DashboardFrame DEF StreamsNext, EndSession, streamsVars

\* The handler that ends on its own has emptied the channel, and leaves nothing behind.
LEMMA EndsAfterTheLast ==
    ASSUME LogsOK, NEW t \in Tabs, handler[t].pc = "done", ~Left(t)
    PROVE  Carried(t) = tab[t].shown
  <1>1. Stages(t)
    BY DEF LogsOK
  <1>2. ch[t] = <<>> /\ reader[t].line = NoLine /\ handler[t].line = NoLine
    BY <1>1 DEF Stages, Cancelled
  <1>3. Held(NoLine) = <<>> /\ tab[t].shown \in Seq(Line)
    BY PartTypes DEF Held
  <1>4. tab[t].shown \o <<>> = tab[t].shown
    BY <1>3, ConcatEmptySeq
  <1>5. QED
    BY <1>2, <1>3, <1>4 DEF Carried

\* stream.go:212, logs.go:118: what a browser is shown are the lines that pass the filter,
\* each once and in the order of the journal, for any capacity of the channel and any number
\* of streams; a stream that ends on its own ends after the last of them, and is closed as
\* complete exactly when journalctl was started.
THEOREM InOrderHolds == StreamsSpec => []InOrder
  <1>1. StreamsInit => Ordered
    <2> SUFFICES ASSUME StreamsInit PROVE Ordered
      OBVIOUS
    <2>1. \A t \in Tabs : tab[t].client = "none"
      BY DEF StreamsInit
    <2>2. QED
      BY <2>1, InitLogs DEF Ordered, Order
  <1>2. Ordered => InOrder
    <2> SUFFICES ASSUME Ordered, NEW t \in Tabs
                 PROVE  /\ tab[t].client \in {"open", "stalled"} =>
                              /\ Lists(Carried(t), Wanted(t))
                              /\ handler[t].pc = "done" => Lists(tab[t].shown, Wanted(t))
                        /\ tab[t].status # "none" =>
                              (tab[t].status = "normal" <=> child[t].state # "none")
      BY DEF InOrder
    <2>1. ASSUME tab[t].client \in {"open", "stalled"}, handler[t].pc = "done"
          PROVE  Carried(t) = tab[t].shown
      BY <2>1, EndsAfterTheLast DEF Ordered, Left
    <2>2. QED
      BY <2>1 DEF Ordered, Order, LogsOK, Stages
  <1>3. QED
    BY <1>1, <1>2, StepOrder, PTL DEF StreamsSpec
=============================================================================
