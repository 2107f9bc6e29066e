------------------------ MODULE ResearchSearch_proofs ------------------------
(***************************************************************************)
(* Proofs about ResearchSearch, for any results of any searches, any       *)
(* limits above zero, any library and any answers of the provider: what is *)
(* selected and ingested, when an attempt may end COMPLETED, and what a    *)
(* saved report cites.                                                     *)
(*                                                                         *)
(* Deduplication, selection and ingestion are folds over sequences.  A     *)
(* bounded induction for sets of numbers is proved first, and each fold    *)
(* gets a lemma of the same form: what holds of the first value and is     *)
(* kept by one step holds of the result.                                   *)
(***************************************************************************)
EXTENDS ResearchSearch, FiniteSetTheorems, SequenceTheorems, WellFoundedInduction, TLAPS

---------------------------------------------------------------------------
(* Induction over the natural numbers, for a set instead of an operator.   *)

\* A set of natural numbers has a least one.
LEMMA LeastNumber ==
  ASSUME NEW S \in SUBSET Nat, S # {}
  PROVE  \E m \in S : \A k \in S : m <= k
  <1>. DEFINE R == OpToRel(<, Nat)
  <1>1. IsWellFoundedOn(R, Nat)
    BY NatLessThanWellFounded
  <1>2. \A x, y \in Nat : x < y => <<x, y>> \in R
    BY DEF OpToRel
  <1>. HIDE DEF R
  <1>3. PICK m \in S : \A k \in S : ~ (<<k, m>> \in R)
    BY <1>1, WFMin
  <1>4. ASSUME NEW k \in S PROVE m <= k
    <2>1. ~ (k < m)
      BY <1>2, <1>3
    <2>. QED
      BY <2>1
  <1>. QED
    BY <1>4

\* A set with 0 and every successor of its numbers has all of them.
LEMMA SetInduction ==
  ASSUME NEW S, 0 \in S, \A n \in Nat : n \in S => n + 1 \in S
  PROVE  Nat \subseteq S
  <1>. SUFFICES ASSUME NEW a \in Nat, a \notin S PROVE FALSE
    OBVIOUS
  <1>1. PICK m \in {n \in Nat : n \notin S} : \A k \in {n \in Nat : n \notin S} : m <= k
    BY LeastNumber
  <1>2. m - 1 \in Nat /\ m - 1 \in S
    BY <1>1
  <1>. QED
    BY <1>1, <1>2

\* The same for the numbers up to a bound.
LEMMA BoundedInduction ==
  ASSUME NEW n \in Nat, NEW S, 0 \in S, \A i \in 1 .. n : i - 1 \in S => i \in S
  PROVE  0 .. n \subseteq S
  <1>. DEFINE T == {i \in Nat : i <= n => i \in S}
  <1>1. 0 \in T
    OBVIOUS
  <1>2. ASSUME NEW i \in Nat, i \in T PROVE i + 1 \in T
    <2>1. i + 1 <= n => i + 1 \in 1 .. n /\ (i + 1) - 1 = i
      OBVIOUS
    <2>. QED
      BY <1>2, <2>1
  <1>3. Nat \subseteq T
    <2>. HIDE DEF T
    <2>. QED
      BY <1>1, <1>2, SetInduction
  <1>. QED
    BY <1>3

\* A loop stays in a set its steps do not leave.
LEMMA StaysIn ==
  ASSUME NEW n \in Nat, NEW A, NEW h, h[0] \in A, \A i \in 1 .. n : h[i - 1] \in A => h[i] \in A
  PROVE  \A i \in 0 .. n : h[i] \in A
  <1>. DEFINE S == {i \in 0 .. n : h[i] \in A}
  <1>1. 0 \in S
    OBVIOUS
  <1>2. \A i \in 1 .. n : i - 1 \in S => i \in S
    OBVIOUS
  <1>. HIDE DEF S
  <1>3. 0 .. n \subseteq S
    BY <1>1, <1>2, BoundedInduction
  <1>. QED
    BY <1>3 DEF S

\* A set of numbers that are bounded has a greatest one, which Max is.
LEMMA MaxOfInterval ==
  ASSUME NEW n \in Nat, NEW t \in SUBSET (1 .. n), t # {}
  PROVE  /\ Max(t) \in t
         /\ \A x \in t : x <= Max(t)
  <1>. DEFINE S == {m \in Nat : \A u \in SUBSET (1 .. m) : u # {} => \E x \in u : \A y \in u : x >= y}
  <1>1. 0 \in S
    <2>1. \A u \in SUBSET (1 .. 0) : u = {}
      OBVIOUS
    <2>. QED
      BY <2>1
  <1>2. ASSUME NEW m \in Nat, m \in S PROVE m + 1 \in S
    <2>. SUFFICES ASSUME NEW u \in SUBSET (1 .. (m + 1)), u # {}
                  PROVE  \E x \in u : \A y \in u : x >= y
      OBVIOUS
    <2>1. CASE m + 1 \in u
      BY <2>1
    <2>2. CASE m + 1 \notin u
      <3>1. u \in SUBSET (1 .. m)
        BY <2>2
      <3>. QED
        BY <1>2, <3>1
    <2>. QED
      BY <2>1, <2>2
  <1>3. n \in S
    <2>. HIDE DEF S
    <2>. QED
      BY <1>1, <1>2, SetInduction
  <1>4. \E x \in t : \A y \in t : x >= y
    BY <1>3
  <1>. QED
    BY <1>4 DEF Max

\* The numbers up to k + 1 are those up to k and their maximum.
LEMMA MaxOfPrefix ==
  ASSUME NEW k \in Nat
  PROVE  /\ Max(1 .. (k + 1)) = k + 1
         /\ (1 .. (k + 1)) \ {k + 1} = 1 .. k
         /\ 1 .. (k + 1) # {}
  <1>1. /\ Max(1 .. (k + 1)) \in 1 .. (k + 1)
        /\ \A x \in 1 .. (k + 1) : x <= Max(1 .. (k + 1))
    BY MaxOfInterval, k + 1 \in Nat, 1 \in 1 .. (k + 1)
  <1>2. k + 1 <= Max(1 .. (k + 1))
    BY <1>1
  <1>. QED
    BY <1>1, <1>2

---------------------------------------------------------------------------
(* What the fold of the community modules computes: it goes through the    *)
(* sets of indices, and the values at 1 .. 0, 1 .. 1, 1 .. 2, ... are      *)
(* those of a loop.  It is a CHOOSE, so that such a function exists has to *)
(* be shown first.                                                         *)

FoldsOver(g, n, base, d) ==
  g = [t \in SUBSET (1 .. n) |-> IF t = {} THEN base ELSE d[<<g[t \ {Max(t)}], Max(t)>>]]

\* Steps that stay in a set have such a function, with values in the set.
LEMMA FoldExists ==
  ASSUME NEW S, NEW base \in S, NEW n \in Nat, NEW d \in [S \X (1 .. n) -> S]
  PROVE  \E g \in [SUBSET (1 .. n) -> S] : FoldsOver(g, n, base, d)
  <1>. DEFINE P(m) == \E g \in [SUBSET (1 .. m) -> S] : FoldsOver(g, m, base, d)
  <1>. DEFINE T == {m \in Nat : m <= n => P(m)}
  <1>1. 0 \in T
    <2>. DEFINE g == [t \in SUBSET (1 .. 0) |-> base]
    <2>1. g \in [SUBSET (1 .. 0) -> S] /\ FoldsOver(g, 0, base, d)
      BY DEF FoldsOver
    <2>. QED
      BY <2>1
  <1>2. ASSUME NEW m \in Nat, m \in T, m + 1 <= n PROVE P(m + 1)
    <2>0. P(m)
      <3>1. m <= n
        BY <1>2
      <3>. HIDE DEF P
      <3>. QED
        BY <1>2, <3>1
    <2>1. PICK g \in [SUBSET (1 .. m) -> S] : FoldsOver(g, m, base, d)
      BY <2>0
    <2>2. \A t \in SUBSET (1 .. m) :
            g[t] = IF t = {} THEN base ELSE d[<<g[t \ {Max(t)}], Max(t)>>]
      BY <2>1 DEF FoldsOver
    <2>. DEFINE h == [t \in SUBSET (1 .. (m + 1)) |->
                        IF m + 1 \in t THEN d[<<g[t \ {m + 1}], m + 1>>] ELSE g[t]]
    <2>3. \A t \in SUBSET (1 .. (m + 1)) : t \ {m + 1} \in SUBSET (1 .. m)
      OBVIOUS
    <2>4. m + 1 \in 1 .. n
      BY <1>2
    <2>5. ASSUME NEW t \in SUBSET (1 .. (m + 1)) PROVE h[t] \in S
      <3>1. CASE m + 1 \in t
        <4>1. g[t \ {m + 1}] \in S
          BY <2>3
        <4>2. <<g[t \ {m + 1}], m + 1>> \in S \X (1 .. n)
          BY <4>1, <2>4
        <4>. QED
          BY <3>1, <4>2
      <3>2. CASE m + 1 \notin t
        BY <3>2, t \in SUBSET (1 .. m)
      <3>. QED
        BY <3>1, <3>2
    <2>6. h \in [SUBSET (1 .. (m + 1)) -> S]
      BY <2>5
    <2>7. ASSUME NEW t \in SUBSET (1 .. (m + 1))
          PROVE  h[t] = IF t = {} THEN base ELSE d[<<h[t \ {Max(t)}], Max(t)>>]
      <3>1. CASE m + 1 \in t
        <4>1. Max(t) = m + 1
          <5>1. Max(t) \in t /\ m + 1 <= Max(t)
            BY <3>1, MaxOfInterval, m + 1 \in Nat
          <5>2. Max(t) \in 1 .. (m + 1)
            BY <5>1
          <5>. QED
            BY <5>1, <5>2
        <4>2. h[t \ {m + 1}] = g[t \ {m + 1}]
          BY <2>3
        <4>. QED
          BY <3>1, <4>1, <4>2
      <3>2. CASE m + 1 \notin t
        <4>1. t \in SUBSET (1 .. m)
          BY <3>2
        <4>2. t # {} => t \ {Max(t)} \in SUBSET (1 .. m)
          BY <4>1
        <4>3. h[t \ {Max(t)}] = g[t \ {Max(t)}]
          BY <4>1, <3>2
        <4>. QED
          BY <2>2, <3>2, <4>1, <4>3
      <3>. QED
        BY <3>1, <3>2
    <2>8. FoldsOver(h, m + 1, base, d)
      <3>. HIDE DEF h
      <3>. QED
        BY <2>6, <2>7 DEF FoldsOver
    <2>. QED
      BY <2>6, <2>8
  <1>3. n \in T
    <2>1. ASSUME NEW m \in Nat, m \in T PROVE m + 1 \in T
      <3>1. m + 1 <= n => P(m + 1)
        BY <1>2, <2>1
      <3>. HIDE DEF P
      <3>. QED
        BY <3>1
    <2>. HIDE DEF T
    <2>. QED
      BY <1>1, <2>1, SetInduction
  <1>4. P(n)
    <2>. HIDE DEF P
    <2>. QED
      BY <1>3
  <1>. QED
    BY <1>4
\* A lemma cannot be instantiated with the operator of a loop, so that each of
\* the four loops has its own, of the same form.
Inserted(start, s) == FoldLeft(Insert, start, s)
Diversified(start, s) == FoldLeft(Diverse, start, s)
Filled(start, s) == FoldLeft(Fill, start, s)

\* The loop of deduplicate_candidates.
InsertStays(A, X) == \A u \in A, x \in X : Insert(u, x) \in A
InsertValues(h, start, s, A) ==
  /\ h[0] = start
  /\ \A i \in 1 .. Len(s) : h[i] = Insert(h[i - 1], s[i])
  /\ \A i \in 0 .. Len(s) : h[i] \in A
  /\ Inserted(start, s) = h[Len(s)]

\* The fold is such a loop.
LEMMA InsertLoop ==
  ASSUME NEW A, NEW X, NEW start \in A, NEW s \in Seq(X), InsertStays(A, X)
  PROVE  \E h : InsertValues(h, start, s, A)
  <1>. DEFINE Folds(g) ==
         g = [t \in SUBSET DOMAIN s |-> IF t = {} THEN start ELSE Insert(g[t \ {Max(t)}], s[Max(t)])]
              n == Len(s)
              d == [p \in A \X (1 .. n) |-> Insert(p[1], s[p[2]])]
  <1>0. n \in Nat /\ DOMAIN s = 1 .. n
    OBVIOUS
  <1>1. d \in [A \X (1 .. n) -> A]
    <2>1. ASSUME NEW p \in A \X (1 .. n) PROVE p[1] \in A /\ s[p[2]] \in X
      OBVIOUS
    <2>. QED
      BY <2>1 DEF InsertStays
  <1>2. \E g : Folds(g)
    <2>. HIDE DEF d, n
    <2>1. PICK g \in [SUBSET (1 .. n) -> A] : FoldsOver(g, n, start, d)
      BY <1>0, <1>1, FoldExists
    <2>2. \A t \in SUBSET (1 .. n) : t # {} => Max(t) \in 1 .. n /\ t \ {Max(t)} \in SUBSET (1 .. n)
      BY <1>0, MaxOfInterval
    <2>3. ASSUME NEW t \in SUBSET (1 .. n), t # {}
          PROVE  d[<<g[t \ {Max(t)}], Max(t)>>] = Insert(g[t \ {Max(t)}], s[Max(t)])
      BY <2>2, <2>3 DEF d
    <2>4. \A t \in SUBSET (1 .. n) : g[t] = IF t = {} THEN start ELSE d[<<g[t \ {Max(t)}], Max(t)>>]
      BY <2>1 DEF FoldsOver
    <2>5. \A t \in SUBSET (1 .. n) : g[t] = IF t = {} THEN start ELSE Insert(g[t \ {Max(t)}], s[Max(t)])
      BY <2>3, <2>4
    <2>. QED
      BY <1>0, <2>1, <2>5
  <1>. DEFINE c == CHOOSE g : Folds(g)
              h == [i \in 0 .. n |-> c[1 .. i]]
  <1>3. Folds(c)
    <2>. HIDE DEF Folds
    <2>. QED
      BY <1>2
  <1>4. Inserted(start, s) = c[DOMAIN s]
    BY DEF Inserted, FoldLeft, MapThenFoldSet
  <1>. HIDE DEF c
  <1>5. \A t \in SUBSET (1 .. n) :
           c[t] = IF t = {} THEN start ELSE Insert(c[t \ {Max(t)}], s[Max(t)])
    BY <1>0, <1>3
  <1>. HIDE DEF Folds
  <1>6. c[1 .. 0] = start
    BY <1>5, 1 .. 0 = {}
  <1>7. ASSUME NEW i \in 1 .. n PROVE c[1 .. i] = Insert(c[1 .. (i - 1)], s[i])
    <2>1. /\ 1 .. i \in SUBSET (1 .. n) /\ i - 1 \in Nat /\ (i - 1) + 1 = i
      OBVIOUS
    <2>2. Max(1 .. i) = i /\ (1 .. i) \ {i} = 1 .. (i - 1) /\ 1 .. i # {}
      BY <2>1, MaxOfPrefix
    <2>. QED
      BY <1>5, <2>1, <2>2
  <1>8. h[0] = start /\ h[Len(s)] = Inserted(start, s)
    BY <1>0, <1>4, <1>6
  <1>9. \A i \in 1 .. n : h[i] = Insert(h[i - 1], s[i])
    BY <1>7
  <1>10. \A i \in 0 .. n : h[i] \in A
    <2>. HIDE DEF h
    <2>1. \A i \in 1 .. n : h[i - 1] \in A => h[i] \in A
      BY <1>0, <1>9 DEF InsertStays
    <2>2. h[0] \in A
      BY <1>8
    <2>. HIDE DEF n
    <2>. QED
      BY <1>0, <2>1, <2>2, StaysIn
  <1>. QED
    BY <1>8, <1>9, <1>10 DEF InsertValues

\* The first loop of select_candidates.
DiverseStays(A, X) == \A u \in A, x \in X : Diverse(u, x) \in A
DiverseValues(h, start, s, A) ==
  /\ h[0] = start
  /\ \A i \in 1 .. Len(s) : h[i] = Diverse(h[i - 1], s[i])
  /\ \A i \in 0 .. Len(s) : h[i] \in A
  /\ Diversified(start, s) = h[Len(s)]

\* The fold is such a loop.
LEMMA DiverseLoop ==
  ASSUME NEW A, NEW X, NEW start \in A, NEW s \in Seq(X), DiverseStays(A, X)
  PROVE  \E h : DiverseValues(h, start, s, A)
  <1>. DEFINE Folds(g) ==
         g = [t \in SUBSET DOMAIN s |-> IF t = {} THEN start ELSE Diverse(g[t \ {Max(t)}], s[Max(t)])]
              n == Len(s)
              d == [p \in A \X (1 .. n) |-> Diverse(p[1], s[p[2]])]
  <1>0. n \in Nat /\ DOMAIN s = 1 .. n
    OBVIOUS
  <1>1. d \in [A \X (1 .. n) -> A]
    <2>1. ASSUME NEW p \in A \X (1 .. n) PROVE p[1] \in A /\ s[p[2]] \in X
      OBVIOUS
    <2>. QED
      BY <2>1 DEF DiverseStays
  <1>2. \E g : Folds(g)
    <2>. HIDE DEF d, n
    <2>1. PICK g \in [SUBSET (1 .. n) -> A] : FoldsOver(g, n, start, d)
      BY <1>0, <1>1, FoldExists
    <2>2. \A t \in SUBSET (1 .. n) : t # {} => Max(t) \in 1 .. n /\ t \ {Max(t)} \in SUBSET (1 .. n)
      BY <1>0, MaxOfInterval
    <2>3. ASSUME NEW t \in SUBSET (1 .. n), t # {}
          PROVE  d[<<g[t \ {Max(t)}], Max(t)>>] = Diverse(g[t \ {Max(t)}], s[Max(t)])
      BY <2>2, <2>3 DEF d
    <2>4. \A t \in SUBSET (1 .. n) : g[t] = IF t = {} THEN start ELSE d[<<g[t \ {Max(t)}], Max(t)>>]
      BY <2>1 DEF FoldsOver
    <2>5. \A t \in SUBSET (1 .. n) : g[t] = IF t = {} THEN start ELSE Diverse(g[t \ {Max(t)}], s[Max(t)])
      BY <2>3, <2>4
    <2>. QED
      BY <1>0, <2>1, <2>5
  <1>. DEFINE c == CHOOSE g : Folds(g)
              h == [i \in 0 .. n |-> c[1 .. i]]
  <1>3. Folds(c)
    <2>. HIDE DEF Folds
    <2>. QED
      BY <1>2
  <1>4. Diversified(start, s) = c[DOMAIN s]
    BY DEF Diversified, FoldLeft, MapThenFoldSet
  <1>. HIDE DEF c
  <1>5. \A t \in SUBSET (1 .. n) :
           c[t] = IF t = {} THEN start ELSE Diverse(c[t \ {Max(t)}], s[Max(t)])
    BY <1>0, <1>3
  <1>. HIDE DEF Folds
  <1>6. c[1 .. 0] = start
    BY <1>5, 1 .. 0 = {}
  <1>7. ASSUME NEW i \in 1 .. n PROVE c[1 .. i] = Diverse(c[1 .. (i - 1)], s[i])
    <2>1. /\ 1 .. i \in SUBSET (1 .. n) /\ i - 1 \in Nat /\ (i - 1) + 1 = i
      OBVIOUS
    <2>2. Max(1 .. i) = i /\ (1 .. i) \ {i} = 1 .. (i - 1) /\ 1 .. i # {}
      BY <2>1, MaxOfPrefix
    <2>. QED
      BY <1>5, <2>1, <2>2
  <1>8. h[0] = start /\ h[Len(s)] = Diversified(start, s)
    BY <1>0, <1>4, <1>6
  <1>9. \A i \in 1 .. n : h[i] = Diverse(h[i - 1], s[i])
    BY <1>7
  <1>10. \A i \in 0 .. n : h[i] \in A
    <2>. HIDE DEF h
    <2>1. \A i \in 1 .. n : h[i - 1] \in A => h[i] \in A
      BY <1>0, <1>9 DEF DiverseStays
    <2>2. h[0] \in A
      BY <1>8
    <2>. HIDE DEF n
    <2>. QED
      BY <1>0, <2>1, <2>2, StaysIn
  <1>. QED
    BY <1>8, <1>9, <1>10 DEF DiverseValues

\* The second loop of select_candidates.
FillStays(A, X) == \A u \in A, x \in X : Fill(u, x) \in A
FillValues(h, start, s, A) ==
  /\ h[0] = start
  /\ \A i \in 1 .. Len(s) : h[i] = Fill(h[i - 1], s[i])
  /\ \A i \in 0 .. Len(s) : h[i] \in A
  /\ Filled(start, s) = h[Len(s)]

\* The fold is such a loop.
LEMMA FillLoop ==
  ASSUME NEW A, NEW X, NEW start \in A, NEW s \in Seq(X), FillStays(A, X)
  PROVE  \E h : FillValues(h, start, s, A)
  <1>. DEFINE Folds(g) ==
         g = [t \in SUBSET DOMAIN s |-> IF t = {} THEN start ELSE Fill(g[t \ {Max(t)}], s[Max(t)])]
              n == Len(s)
              d == [p \in A \X (1 .. n) |-> Fill(p[1], s[p[2]])]
  <1>0. n \in Nat /\ DOMAIN s = 1 .. n
    OBVIOUS
  <1>1. d \in [A \X (1 .. n) -> A]
    <2>1. ASSUME NEW p \in A \X (1 .. n) PROVE p[1] \in A /\ s[p[2]] \in X
      OBVIOUS
    <2>. QED
      BY <2>1 DEF FillStays
  <1>2. \E g : Folds(g)
    <2>. HIDE DEF d, n
    <2>1. PICK g \in [SUBSET (1 .. n) -> A] : FoldsOver(g, n, start, d)
      BY <1>0, <1>1, FoldExists
    <2>2. \A t \in SUBSET (1 .. n) : t # {} => Max(t) \in 1 .. n /\ t \ {Max(t)} \in SUBSET (1 .. n)
      BY <1>0, MaxOfInterval
    <2>3. ASSUME NEW t \in SUBSET (1 .. n), t # {}
          PROVE  d[<<g[t \ {Max(t)}], Max(t)>>] = Fill(g[t \ {Max(t)}], s[Max(t)])
      BY <2>2, <2>3 DEF d
    <2>4. \A t \in SUBSET (1 .. n) : g[t] = IF t = {} THEN start ELSE d[<<g[t \ {Max(t)}], Max(t)>>]
      BY <2>1 DEF FoldsOver
    <2>5. \A t \in SUBSET (1 .. n) : g[t] = IF t = {} THEN start ELSE Fill(g[t \ {Max(t)}], s[Max(t)])
      BY <2>3, <2>4
    <2>. QED
      BY <1>0, <2>1, <2>5
  <1>. DEFINE c == CHOOSE g : Folds(g)
              h == [i \in 0 .. n |-> c[1 .. i]]
  <1>3. Folds(c)
    <2>. HIDE DEF Folds
    <2>. QED
      BY <1>2
  <1>4. Filled(start, s) = c[DOMAIN s]
    BY DEF Filled, FoldLeft, MapThenFoldSet
  <1>. HIDE DEF c
  <1>5. \A t \in SUBSET (1 .. n) :
           c[t] = IF t = {} THEN start ELSE Fill(c[t \ {Max(t)}], s[Max(t)])
    BY <1>0, <1>3
  <1>. HIDE DEF Folds
  <1>6. c[1 .. 0] = start
    BY <1>5, 1 .. 0 = {}
  <1>7. ASSUME NEW i \in 1 .. n PROVE c[1 .. i] = Fill(c[1 .. (i - 1)], s[i])
    <2>1. /\ 1 .. i \in SUBSET (1 .. n) /\ i - 1 \in Nat /\ (i - 1) + 1 = i
      OBVIOUS
    <2>2. Max(1 .. i) = i /\ (1 .. i) \ {i} = 1 .. (i - 1) /\ 1 .. i # {}
      BY <2>1, MaxOfPrefix
    <2>. QED
      BY <1>5, <2>1, <2>2
  <1>8. h[0] = start /\ h[Len(s)] = Filled(start, s)
    BY <1>0, <1>4, <1>6
  <1>9. \A i \in 1 .. n : h[i] = Fill(h[i - 1], s[i])
    BY <1>7
  <1>10. \A i \in 0 .. n : h[i] \in A
    <2>. HIDE DEF h
    <2>1. \A i \in 1 .. n : h[i - 1] \in A => h[i] \in A
      BY <1>0, <1>9 DEF FillStays
    <2>2. h[0] \in A
      BY <1>8
    <2>. HIDE DEF n
    <2>. QED
      BY <1>0, <2>1, <2>2, StaysIn
  <1>. QED
    BY <1>8, <1>9, <1>10 DEF FillValues

\* The loop that lists what was ingested.
CollectStays(A, X, usable) == \A u \in A, x \in X : Add(u, x, usable) \in A
CollectValues(h, start, s, A, usable) ==
  /\ h[0] = start
  /\ \A i \in 1 .. Len(s) : h[i] = Add(h[i - 1], s[i], usable)
  /\ \A i \in 0 .. Len(s) : h[i] \in A
  /\ Collect(start, s, usable) = h[Len(s)]

\* The fold is such a loop.
LEMMA CollectLoop ==
  ASSUME NEW A, NEW X, NEW start \in A, NEW s \in Seq(X), NEW usable, CollectStays(A, X, usable)
  PROVE  \E h : CollectValues(h, start, s, A, usable)
  <1>. DEFINE Folds(g) ==
         g = [t \in SUBSET DOMAIN s |-> IF t = {} THEN start ELSE Add(g[t \ {Max(t)}], s[Max(t)], usable)]
              n == Len(s)
              d == [p \in A \X (1 .. n) |-> Add(p[1], s[p[2]], usable)]
  <1>0. n \in Nat /\ DOMAIN s = 1 .. n
    OBVIOUS
  <1>1. d \in [A \X (1 .. n) -> A]
    <2>1. ASSUME NEW p \in A \X (1 .. n) PROVE p[1] \in A /\ s[p[2]] \in X
      OBVIOUS
    <2>. QED
      BY <2>1 DEF CollectStays
  <1>2. \E g : Folds(g)
    <2>. HIDE DEF d, n
    <2>1. PICK g \in [SUBSET (1 .. n) -> A] : FoldsOver(g, n, start, d)
      BY <1>0, <1>1, FoldExists
    <2>2. \A t \in SUBSET (1 .. n) : t # {} => Max(t) \in 1 .. n /\ t \ {Max(t)} \in SUBSET (1 .. n)
      BY <1>0, MaxOfInterval
    <2>3. ASSUME NEW t \in SUBSET (1 .. n), t # {}
          PROVE  d[<<g[t \ {Max(t)}], Max(t)>>] = Add(g[t \ {Max(t)}], s[Max(t)], usable)
      BY <2>2, <2>3 DEF d
    <2>4. \A t \in SUBSET (1 .. n) : g[t] = IF t = {} THEN start ELSE d[<<g[t \ {Max(t)}], Max(t)>>]
      BY <2>1 DEF FoldsOver
    <2>5. \A t \in SUBSET (1 .. n) : g[t] = IF t = {} THEN start ELSE Add(g[t \ {Max(t)}], s[Max(t)], usable)
      BY <2>3, <2>4
    <2>. QED
      BY <1>0, <2>1, <2>5
  <1>. DEFINE c == CHOOSE g : Folds(g)
              h == [i \in 0 .. n |-> c[1 .. i]]
  <1>3. Folds(c)
    <2>. HIDE DEF Folds
    <2>. QED
      BY <1>2
  <1>4. Collect(start, s, usable) = c[DOMAIN s]
    BY DEF Collect, FoldLeft, MapThenFoldSet
  <1>. HIDE DEF c
  <1>5. \A t \in SUBSET (1 .. n) :
           c[t] = IF t = {} THEN start ELSE Add(c[t \ {Max(t)}], s[Max(t)], usable)
    BY <1>0, <1>3
  <1>. HIDE DEF Folds
  <1>6. c[1 .. 0] = start
    BY <1>5, 1 .. 0 = {}
  <1>7. ASSUME NEW i \in 1 .. n PROVE c[1 .. i] = Add(c[1 .. (i - 1)], s[i], usable)
    <2>1. /\ 1 .. i \in SUBSET (1 .. n) /\ i - 1 \in Nat /\ (i - 1) + 1 = i
      OBVIOUS
    <2>2. Max(1 .. i) = i /\ (1 .. i) \ {i} = 1 .. (i - 1) /\ 1 .. i # {}
      BY <2>1, MaxOfPrefix
    <2>. QED
      BY <1>5, <2>1, <2>2
  <1>8. h[0] = start /\ h[Len(s)] = Collect(start, s, usable)
    BY <1>0, <1>4, <1>6
  <1>9. \A i \in 1 .. n : h[i] = Add(h[i - 1], s[i], usable)
    BY <1>7
  <1>10. \A i \in 0 .. n : h[i] \in A
    <2>. HIDE DEF h
    <2>1. \A i \in 1 .. n : h[i - 1] \in A => h[i] \in A
      BY <1>0, <1>9 DEF CollectStays
    <2>2. h[0] \in A
      BY <1>8
    <2>. HIDE DEF n
    <2>. QED
      BY <1>0, <2>1, <2>2, StaysIn
  <1>. QED
    BY <1>8, <1>9, <1>10 DEF CollectValues

---------------------------------------------------------------------------
(* What the loops return.                                                  *)

Candidate == [arxiv : {None} \cup Arxiv, title : DOMAIN Relevance, year : {None} \cup Nat, rank : Nat \ {0}]

Partial(K) == UNION {[D -> Nat] : D \in SUBSET K}

IndexHolds(d) ==
  /\ \A p \in DOMAIN d.byArxiv : d.byArxiv[p] \in DOMAIN d.result
  /\ \A t \in DOMAIN d.byTitle : d.byTitle[t] \in DOMAIN d.result
  /\ \A i \in DOMAIN d.result : d.result[i].arxiv # None =>
       /\ d.result[i].arxiv \in DOMAIN d.byArxiv
       /\ d.byArxiv[d.result[i].arxiv] = i

\* The state of deduplicate_candidates: each identifier of the result is
\* indexed, at its only place.
Indexed == {d \in [result : Seq(Candidate),
                   byArxiv : Partial(Arxiv),
                   byTitle : Partial(DOMAIN Relevance)] :
              IndexHolds(d)}

\* An index stays a partial function when a name is added.
LEMMA WithIsPartial ==
  ASSUME NEW K, NEW f \in Partial(K), NEW x \in K, NEW y \in Nat
  PROVE  With(f, x, y) \in Partial(K)
  <1>1. PICK D \in SUBSET K : f \in [D -> Nat]
    BY DEF Partial
  <1>2. D \cup {x} \in SUBSET K /\ With(f, x, y) \in [D \cup {x} -> Nat]
    BY <1>1 DEF With
  <1>. QED
    BY <1>2 DEF Partial

\* A duplicate is found in the result or not at all.
LEMMA DuplicateIsInResult ==
  ASSUME NEW d \in Indexed, NEW c \in Candidate
  PROVE  Duplicate(d, c) = 0 \/ Duplicate(d, c) \in DOMAIN d.result
  <1>. DEFINE alike == {i \in DOMAIN d.result : <<c.title, d.result[i].title>> \in Similar}
  <1>1. DOMAIN d.result = 1 .. Len(d.result) /\ Len(d.result) \in Nat
    BY DEF Indexed, IndexHolds
  <1>2. alike # {} => (CHOOSE i \in alike : \A j \in alike : i <= j) \in alike
    <2>1. alike \in SUBSET Nat
      BY <1>1
    <2>. HIDE DEF alike
    <2>. QED
      BY <2>1, LeastNumber
  <1>. QED
    BY <1>2 DEF Duplicate, Indexed, IndexHolds

\* An insertion keeps every identifier of the result indexed at its place.
LEMMA InsertKeepsIndex ==
  ASSUME NEW d \in Indexed, NEW c \in Candidate
  PROVE  Insert(d, c) \in Indexed
  <1>. DEFINE dup == Duplicate(d, c)
              at == IF dup = 0 THEN Len(d.result) + 1 ELSE dup
              e == Insert(d, c)
  <1>1. dup = 0 \/ dup \in DOMAIN d.result
    BY DuplicateIsInResult
  <1>2. /\ d.result \in Seq(Candidate) /\ Len(d.result) \in Nat
        /\ d.byArxiv \in Partial(Arxiv)
        /\ d.byTitle \in Partial(DOMAIN Relevance)
        /\ \A p \in DOMAIN d.byArxiv : d.byArxiv[p] \in DOMAIN d.result
        /\ \A t \in DOMAIN d.byTitle : d.byTitle[t] \in DOMAIN d.result
        /\ \A i \in DOMAIN d.result : d.result[i].arxiv # None =>
             /\ d.result[i].arxiv \in DOMAIN d.byArxiv
             /\ d.byArxiv[d.result[i].arxiv] = i
        /\ DOMAIN d.result = 1 .. Len(d.result)
    BY DEF Indexed, IndexHolds
  <1>3. /\ c.arxiv \in {None} \cup Arxiv /\ c.title \in DOMAIN Relevance
        /\ c.rank \in Nat
    BY DEF Candidate
  <1>4. /\ e.result = IF dup = 0 THEN Append(d.result, c)
                      ELSE IF c.rank < d.result[dup].rank THEN [d.result EXCEPT ![dup] = c] ELSE d.result
        /\ e.byArxiv = IF c.arxiv = None THEN d.byArxiv ELSE With(d.byArxiv, c.arxiv, at)
        /\ e.byTitle = With(d.byTitle, c.title, at)
        /\ e = [result |-> e.result, byArxiv |-> e.byArxiv, byTitle |-> e.byTitle]
    BY DEF Insert
  \* A candidate with an identifier the index has is the one it has there.
  <1>5. c.arxiv \in DOMAIN d.byArxiv => dup = d.byArxiv[c.arxiv]
    BY DEF Duplicate
  <1>. HIDE DEF dup, e
  <1>6. at \in Nat
    BY <1>1, <1>2
  <1>. HIDE DEF at
  <1>7. /\ With(d.byTitle, c.title, at) \in Partial(DOMAIN Relevance)
        /\ c.arxiv # None => With(d.byArxiv, c.arxiv, at) \in Partial(Arxiv)
    BY <1>2, <1>3, <1>6, WithIsPartial
  <1>. USE DEF at
  <1>8. /\ e.result \in Seq(Candidate)
        /\ DOMAIN d.result \subseteq DOMAIN e.result
        /\ at \in DOMAIN e.result
        /\ \A i \in DOMAIN e.result : i # at => i \in DOMAIN d.result /\ e.result[i] = d.result[i]
        /\ e.result[at] = c \/ (at \in DOMAIN d.result /\ e.result[at] = d.result[at])
    <2>1. CASE dup = 0
      BY <1>2, <1>4, <2>1
    <2>2. CASE dup # 0
      BY <1>1, <1>2, <1>4, <2>2
    <2>. QED
      BY <2>1, <2>2
  <1>9. e.byTitle \in Partial(DOMAIN Relevance)
        /\ \A t \in DOMAIN e.byTitle : e.byTitle[t] \in DOMAIN e.result
    <2>. HIDE DEF at
    <2>1. /\ e.byTitle \in Partial(DOMAIN Relevance)
          /\ DOMAIN e.byTitle = DOMAIN d.byTitle \cup {c.title}
          /\ e.byTitle[c.title] = at
          /\ \A z \in DOMAIN d.byTitle \ {c.title} : e.byTitle[z] = d.byTitle[z]
      BY <1>4, <1>7 DEF With
    <2>. QED
      BY <1>2, <1>8, <2>1
  <1>10. CASE c.arxiv = None
    <2>. HIDE DEF at
    <2>1. e.byArxiv = d.byArxiv
      BY <1>4, <1>10
    <2>2. \A p \in DOMAIN e.byArxiv : e.byArxiv[p] \in DOMAIN e.result
      BY <1>2, <1>8, <2>1
    <2>3. ASSUME NEW i \in DOMAIN e.result, e.result[i].arxiv # None
          PROVE  e.result[i].arxiv \in DOMAIN e.byArxiv /\ e.byArxiv[e.result[i].arxiv] = i
      <3>1. i \in DOMAIN d.result /\ e.result[i] = d.result[i]
        BY <1>8, <1>10, <2>3
      <3>. QED
        BY <1>2, <2>1, <2>3, <3>1
    <2>4. e \in [result : Seq(Candidate), byArxiv : Partial(Arxiv), byTitle : Partial(DOMAIN Relevance)]
      BY <1>2, <1>4, <1>8, <1>9, <2>1
    <2>5. IndexHolds(e)
      BY <1>9, <2>2, <2>3 DEF IndexHolds
    <2>. QED
      BY <2>4, <2>5 DEF Indexed, e
  <1>11. CASE c.arxiv # None
    <2>. HIDE DEF at
    <2>1. /\ e.byArxiv \in Partial(Arxiv)
          /\ DOMAIN e.byArxiv = DOMAIN d.byArxiv \cup {c.arxiv}
          /\ e.byArxiv[c.arxiv] = at
          /\ \A z \in DOMAIN d.byArxiv \ {c.arxiv} : e.byArxiv[z] = d.byArxiv[z]
      BY <1>4, <1>7, <1>11 DEF With
    <2>2. \A p \in DOMAIN e.byArxiv : e.byArxiv[p] \in DOMAIN e.result
      BY <1>2, <1>8, <2>1
    <2>3. ASSUME NEW i \in DOMAIN e.result, e.result[i].arxiv # None
          PROVE  e.result[i].arxiv \in DOMAIN e.byArxiv /\ e.byArxiv[e.result[i].arxiv] = i
      <3>1. CASE e.result[i] = c /\ i = at
        BY <2>1, <3>1
      <3>2. CASE i \in DOMAIN d.result /\ e.result[i] = d.result[i]
        <4>1. e.result[i].arxiv \in DOMAIN d.byArxiv /\ d.byArxiv[e.result[i].arxiv] = i
          BY <1>2, <2>3, <3>2
        <4>2. CASE e.result[i].arxiv = c.arxiv
          <5>1. dup = i
            BY <1>5, <4>1, <4>2
          <5>2. at = i
            BY <1>2, <3>2, <5>1 DEF at
          <5>. QED
            BY <2>1, <4>2, <5>2
        <4>. QED
          BY <2>1, <4>1, <4>2
      <3>. QED
        BY <1>8, <3>1, <3>2
    <2>4. e \in [result : Seq(Candidate), byArxiv : Partial(Arxiv), byTitle : Partial(DOMAIN Relevance)]
      BY <1>2, <1>4, <1>8, <1>9, <2>1
    <2>5. IndexHolds(e)
      BY <1>9, <2>2, <2>3 DEF IndexHolds
    <2>. QED
      BY <2>4, <2>5 DEF Indexed, e
  <1>. QED
    BY <1>10, <1>11 DEF e

\* deduplicate_candidates returns candidates, and no identifier twice.
LEMMA DeduplicateNamesOnce ==
  ASSUME NEW s \in Seq(Candidate)
  PROVE  Deduplicate(s) \in Seq(Candidate) /\ OncePerPaper(Deduplicate(s))
  <1>. DEFINE start == [result |-> <<>>, byArxiv |-> <<>>, byTitle |-> <<>>]
  <1>1. start \in Indexed
    <2>1. <<>> \in [{} -> Nat] /\ DOMAIN <<>> = {}
      OBVIOUS
    <2>2. ASSUME NEW K PROVE <<>> \in Partial(K)
      BY <2>1, {} \in SUBSET K DEF Partial
    <2>3. start \in [result : Seq(Candidate), byArxiv : Partial(Arxiv), byTitle : Partial(DOMAIN Relevance)]
      BY <2>2
    <2>. QED
      BY <2>1, <2>3 DEF Indexed, IndexHolds
  <1>. HIDE DEF start
  <1>2. Inserted(start, s) \in Indexed
    <2>1. InsertStays(Indexed, Candidate)
      BY InsertKeepsIndex DEF InsertStays
    <2>2. PICK h : InsertValues(h, start, s, Indexed)
      BY <1>1, <2>1, InsertLoop
    <2>. QED
      BY <2>2, Len(s) \in Nat DEF InsertValues
  <1>3. Deduplicate(s) = Inserted(start, s).result
    BY DEF Deduplicate, Inserted, start
  <1>. QED
    BY <1>2, <1>3 DEF Indexed, IndexHolds, OncePerPaper

\* What select_candidates may hold: candidates of the ranking, no more than
\* the budget, no identifier twice.
Picks(ranked) ==
  {u \in Seq(Candidate) : /\ Len(u) <= MaxIngested
                          /\ \A i \in DOMAIN u : \E j \in DOMAIN ranked : u[i] = ranked[j]
                          /\ OncePerPaper(u)}

\* A prefix has the first elements, and no more than asked for.
LEMMA PrefixOf ==
  ASSUME NEW X, NEW s \in Seq(X), NEW n \in Nat
  PROVE  /\ Prefix(s, n) \in Seq(X)
         /\ Len(Prefix(s, n)) <= n /\ Len(Prefix(s, n)) <= Len(s)
         /\ \A i \in DOMAIN Prefix(s, n) : i \in DOMAIN s /\ Prefix(s, n)[i] = s[i]
  <1>. DEFINE m == IF Len(s) < n THEN Len(s) ELSE n
  <1>1. m \in 0 .. Len(s) /\ m <= n
    OBVIOUS
  <1>. QED
    BY <1>1 DEF Prefix

\* The first loop takes a candidate of the ranking at most once.
LEMMA DiversifiedArePicks ==
  ASSUME NEW ranked \in Seq(Candidate), OncePerPaper(ranked), NEW r \in Seq(Candidate),
         \A i \in DOMAIN r : i \in DOMAIN ranked /\ r[i] = ranked[i]
  PROVE  Diversified(<<>>, r) \in Picks(ranked)
  <1>0. MaxIngested \in Nat /\ Len(r) \in Nat /\ DOMAIN r = 1 .. Len(r)
    BY LimitsAssumption
  <1>1. PICK h : /\ h[0] = <<>>
                 /\ \A i \in 1 .. Len(r) : h[i] = Diverse(h[i - 1], r[i])
                 /\ \A i \in 0 .. Len(r) : h[i] \in Seq(Candidate)
                 /\ Diversified(<<>>, r) = h[Len(r)]
    <2>. DEFINE A == Seq(Candidate)
    <2>1. <<>> \in A /\ DiverseStays(A, Candidate)
      BY DEF Diverse, DiverseStays
    <2>. HIDE DEF A
    <2>2. PICK h : DiverseValues(h, <<>>, r, A)
      BY <2>1, DiverseLoop
    <2>. QED
      BY <2>2 DEF DiverseValues, A
  <1>. DEFINE Taken(u, i) == /\ Len(u) <= MaxIngested
                             /\ \A a \in DOMAIN u : \E j \in 1 .. i : j \in DOMAIN r /\ u[a] = r[j]
                             /\ OncePerPaper(u)
              S == {i \in 0 .. Len(r) : Taken(h[i], i)}
  <1>2. 0 \in S
    BY <1>0, <1>1 DEF OncePerPaper
  <1>3. ASSUME NEW i \in 1 .. Len(r), i - 1 \in S PROVE i \in S
    <2>. DEFINE u == h[i - 1]
                c == r[i]
    <2>1. u \in Seq(Candidate) /\ Taken(u, i - 1) /\ c \in Candidate /\ i \in DOMAIN r
      BY <1>0, <1>1, <1>3
    <2>2. h[i] = Diverse(u, c)
      BY <1>1
    <2>3. CASE h[i] = u
      BY <2>1, <2>3, <1>0
    <2>4. CASE h[i] = Append(u, c) /\ Len(u) < MaxIngested
      <3>. DEFINE v == Append(u, c)
      <3>1. /\ v \in Seq(Candidate) /\ Len(v) = Len(u) + 1 /\ DOMAIN u = 1 .. Len(u)
            /\ DOMAIN v = 1 .. (Len(u) + 1)
            /\ \A a \in DOMAIN u : v[a] = u[a]
            /\ v[Len(u) + 1] = c
        BY <2>1, <2>4, SMTT(60)
      <3>. HIDE DEF v
      <3>2. ASSUME NEW a \in DOMAIN u PROVE ~ (u[a].arxiv # None /\ u[a].arxiv = c.arxiv)
        <4>1. PICK j \in 1 .. (i - 1) : j \in DOMAIN r /\ u[a] = r[j]
          BY <2>1
        <4>2. j # i
          OBVIOUS
        <4>. QED
          BY <2>1, <4>1, <4>2 DEF OncePerPaper
      <3>. HIDE DEF u, c
      <3>3. OncePerPaper(v)
        BY <2>1, <3>1, <3>2, SMTT(60) DEF OncePerPaper
      <3>4. ASSUME NEW a \in DOMAIN v PROVE \E j \in 1 .. i : j \in DOMAIN r /\ v[a] = r[j]
        <4>1. CASE a \in DOMAIN u
          <5>1. PICK j \in 1 .. (i - 1) : j \in DOMAIN r /\ u[a] = r[j]
            BY <2>1, <4>1
          <5>2. j \in 1 .. i /\ v[a] = r[j]
            BY <3>1, <4>1, <5>1
          <5>. QED
            BY <5>1, <5>2
        <4>2. CASE a = Len(u) + 1
          BY <2>1, <3>1, <4>2 DEF c
        <4>3. a \in DOMAIN u \/ a = Len(u) + 1
          BY <2>1, <3>1
        <4>. QED
          BY <4>1, <4>2, <4>3
      <3>5. Len(v) <= MaxIngested
        BY <1>0, <2>1, <2>4, <3>1
      <3>. QED
        <4>1. h[i] = v
          BY <2>4 DEF v
        <4>2. Taken(h[i], i)
          BY <3>3, <3>4, <3>5, <4>1
        <4>. HIDE DEF Taken
        <4>. QED
          BY <4>2
    <2>5. h[i] = u \/ (h[i] = Append(u, c) /\ Len(u) < MaxIngested)
      BY <1>0, <2>1, <2>2 DEF Diverse
    <2>. QED
      BY <2>3, <2>4, <2>5
  <1>4. Len(r) \in S
    <2>1. \A i \in 1 .. Len(r) : i - 1 \in S => i \in S
      BY <1>3
    <2>. HIDE DEF S
    <2>2. Len(r) \in Nat
      OBVIOUS
    <2>3. 0 .. Len(r) \subseteq S
      BY <1>2, <2>1, <2>2, BoundedInduction
    <2>. QED
      BY <2>2, <2>3
  <1>. QED
    BY <1>1, <1>4 DEF Picks

\* Filling up takes no candidate that is selected already.
LEMMA FillKeepsPicks ==
  ASSUME NEW ranked \in Seq(Candidate), NEW u \in Picks(ranked), NEW k \in DOMAIN ranked
  PROVE  Fill(u, ranked[k]) \in Picks(ranked)
  <1>. DEFINE c == ranked[k]
              v == Fill(u, c)
  <1>0. MaxIngested \in Nat
    BY LimitsAssumption
  <1>1. u \in Seq(Candidate) /\ Len(u) <= MaxIngested /\ OncePerPaper(u) /\ c \in Candidate
        /\ \A i \in DOMAIN u : \E j \in DOMAIN ranked : u[i] = ranked[j]
    BY DEF Picks
  <1>2. CASE v = u
    BY <1>2
  <1>3. CASE v = Append(u, c) /\ Len(u) < MaxIngested /\ \A x \in Range(u) : CandidateId(x) # CandidateId(c)
    <2>1. /\ v \in Seq(Candidate) /\ Len(v) = Len(u) + 1 /\ DOMAIN u = 1 .. Len(u)
          /\ DOMAIN v = 1 .. (Len(u) + 1)
          /\ \A a \in DOMAIN u : v[a] = u[a]
          /\ v[Len(u) + 1] = c
      BY <1>1, <1>3
    <2>2. ASSUME NEW a \in DOMAIN u PROVE ~ (u[a].arxiv # None /\ u[a].arxiv = c.arxiv)
      BY <1>3 DEF Range, CandidateId
    <2>3. OncePerPaper(v)
      BY <1>1, <2>1, <2>2 DEF OncePerPaper
    <2>4. \A i \in DOMAIN v : \E j \in DOMAIN ranked : v[i] = ranked[j]
      BY <1>1, <2>1
    <2>5. Len(v) <= MaxIngested
      BY <1>0, <1>1, <1>3, <2>1
    <2>. QED
      BY <2>1, <2>3, <2>4, <2>5 DEF Picks
  <1>4. v = u \/ (/\ v = Append(u, c) /\ Len(u) < MaxIngested
                  /\ \A x \in Range(u) : CandidateId(x) # CandidateId(c))
    BY <1>0, <1>1 DEF Fill
  <1>. QED
    BY <1>2, <1>3, <1>4

\* select_candidates stays within the budget, names a paper once, and leaves
\* a place free only when it passed over no candidate.
LEMMA SelectFillsBudget ==
  ASSUME NEW ranked \in Seq(Candidate), OncePerPaper(ranked)
  PROVE  /\ Select(ranked) \in Picks(ranked)
         /\ Len(Select(ranked)) < MaxIngested =>
              \A k \in DOMAIN ranked : \E x \in Range(Select(ranked)) : CandidateId(x) = CandidateId(ranked[k])
  <1>. DEFINE r == Prefix(ranked, Least(MaxCandidates, 30))
              start == Diversified(<<>>, r)
  <1>0. MaxIngested \in Nat /\ Len(ranked) \in Nat /\ DOMAIN ranked = 1 .. Len(ranked)
        /\ Least(MaxCandidates, 30) \in Nat
    BY LimitsAssumption DEF Least
  <1>1. start \in Picks(ranked)
    BY <1>0, PrefixOf, DiversifiedArePicks
  <1>2. Select(ranked) = Filled(start, ranked)
    BY DEF Select, Filled, Diversified
  <1>. DEFINE X == {ranked[k] : k \in DOMAIN ranked}
  <1>. HIDE DEF start
  <1>3. PICK h : /\ h[0] = start
                 /\ \A i \in 1 .. Len(ranked) : h[i] = Fill(h[i - 1], ranked[i])
                 /\ \A i \in 0 .. Len(ranked) : h[i] \in Picks(ranked)
                 /\ Filled(start, ranked) = h[Len(ranked)]
    <2>1. FillStays(Picks(ranked), X)
      BY FillKeepsPicks DEF FillStays
    <2>2. ranked \in Seq(X)
      OBVIOUS
    <2>. HIDE DEF X
    <2>3. PICK h : FillValues(h, start, ranked, Picks(ranked))
      BY <1>1, <2>1, <2>2, FillLoop
    <2>. QED
      BY <2>3 DEF FillValues
  <1>. DEFINE Covers(u, i) ==
                Len(u) < MaxIngested => \A k \in 1 .. i : \E x \in Range(u) : CandidateId(x) = CandidateId(ranked[k])
              S == {i \in 0 .. Len(ranked) : Covers(h[i], i)}
  <1>4. 0 \in S
    BY <1>0
  <1>5. ASSUME NEW i \in 1 .. Len(ranked), i - 1 \in S PROVE i \in S
    <2>. DEFINE u == h[i - 1]
                v == h[i]
    <2>1. u \in Seq(Candidate) /\ Covers(u, i - 1) /\ v = Fill(u, ranked[i])
      BY <1>0, <1>3, <1>5 DEF Picks
    <2>. SUFFICES ASSUME Len(v) < MaxIngested, NEW k \in 1 .. i
                  PROVE  \E x \in Range(v) : CandidateId(x) = CandidateId(ranked[k])
      OBVIOUS
    <2>2. CASE v = u /\ \E x \in Range(u) : CandidateId(x) = CandidateId(ranked[i])
      <3>1. CASE k = i
        BY <2>2, <3>1
      <3>2. CASE k # i
        BY <2>1, <2>2, <3>2
      <3>. QED
        BY <3>1, <3>2
    <2>3. CASE v = Append(u, ranked[i]) /\ Len(u) < MaxIngested
      <3>1. Len(u) + 1 \in DOMAIN v /\ v[Len(u) + 1] = ranked[i]
            /\ \A a \in DOMAIN u : a \in DOMAIN v /\ v[a] = u[a]
        BY <2>1, <2>3
      <3>2. ranked[i] \in Range(v) /\ Range(u) \subseteq Range(v)
        BY <3>1 DEF Range
      <3>3. CASE k = i
        BY <3>2, <3>3
      <3>4. CASE k # i
        BY <2>1, <2>3, <3>2, <3>4
      <3>. QED
        BY <3>3, <3>4
    <2>4. CASE v = u /\ Len(u) >= MaxIngested
      BY <1>0, <2>1, <2>4
    <2>. QED
      BY <1>0, <2>1, <2>2, <2>3, <2>4 DEF Fill
  <1>6. Len(ranked) \in S
    <2>1. \A i \in 1 .. Len(ranked) : i - 1 \in S => i \in S
      BY <1>5
    <2>. HIDE DEF S
    <2>2. Len(ranked) \in Nat
      OBVIOUS
    <2>3. 0 .. Len(ranked) \subseteq S
      BY <1>4, <2>1, <2>2, BoundedInduction
    <2>. QED
      BY <2>2, <2>3
  <1>. QED
    BY <1>0, <1>2, <1>3, <1>6

\* What is listed as ingested: papers that could be used, each once, and no
\* more new ones than were selected.
LEMMA CollectListsOnce ==
  ASSUME NEW start \in Seq(Arxiv), IsInjective(start), NEW s \in Seq(Candidate),
         NEW usable \in SUBSET Arxiv
  PROVE  /\ Collect(start, s, usable) \in Seq(Arxiv)
         /\ IsInjective(Collect(start, s, usable))
         /\ Len(Collect(start, s, usable)) <= Len(start) + Len(s)
         /\ Range(Collect(start, s, usable)) \subseteq Range(start) \cup usable
  <1>. DEFINE A == {u \in Seq(Arxiv) : IsInjective(u) /\ Range(u) \subseteq Range(start) \cup usable}
  <1>1. start \in A
    OBVIOUS
  <1>2. ASSUME NEW u \in A, NEW c \in Candidate
        PROVE  /\ Add(u, c, usable) \in A
               /\ Len(Add(u, c, usable)) <= Len(u) + 1
    <2>1. CASE c.arxiv \in usable \ Range(u)
      <3>. DEFINE v == Append(u, c.arxiv)
      <3>1. /\ v \in Seq(Arxiv) /\ Len(v) = Len(u) + 1 /\ DOMAIN u = 1 .. Len(u)
            /\ DOMAIN v = 1 .. (Len(u) + 1)
            /\ \A a \in DOMAIN u : v[a] = u[a]
            /\ v[Len(u) + 1] = c.arxiv
        BY <2>1
      <3>. HIDE DEF v
      <3>2. IsInjective(v)
        BY <2>1, <3>1 DEF IsInjective, Range
      <3>3. Range(v) \subseteq Range(start) \cup usable
        BY <2>1, <3>1 DEF Range
      <3>4. Add(u, c, usable) = v
        BY <2>1 DEF Add, v
      <3>. QED
        BY <3>1, <3>2, <3>3, <3>4
    <2>2. CASE c.arxiv \notin usable \ Range(u)
      <3>1. Add(u, c, usable) = u
        BY <2>2 DEF Add
      <3>. QED
        BY <3>1
    <2>. QED
      BY <2>1, <2>2
  <1>. HIDE DEF A
  <1>3. PICK h : /\ h[0] = start
                 /\ \A i \in 1 .. Len(s) : h[i] = Add(h[i - 1], s[i], usable)
                 /\ \A i \in 0 .. Len(s) : h[i] \in A
                 /\ Collect(start, s, usable) = h[Len(s)]
    <2>1. CollectStays(A, Candidate, usable)
      BY <1>2 DEF CollectStays
    <2>2. PICK h : CollectValues(h, start, s, A, usable)
      BY <1>1, <2>1, CollectLoop
    <2>. QED
      BY <2>2 DEF CollectValues
  <1>. DEFINE S == {i \in 0 .. Len(s) : Len(h[i]) <= Len(start) + i}
  <1>4. 0 \in S
    BY <1>3
  <1>5. ASSUME NEW i \in 1 .. Len(s), i - 1 \in S PROVE i \in S
    <2>1. Len(h[i]) <= Len(h[i - 1]) + 1
      <3>1. h[i - 1] \in A /\ s[i] \in Candidate /\ h[i] = Add(h[i - 1], s[i], usable)
        BY <1>3
      <3>. QED
        BY <1>2, <3>1
    <2>2. h[i] \in Seq(Arxiv) /\ h[i - 1] \in Seq(Arxiv)
      BY <1>3 DEF A
    <2>. QED
      BY <1>5, <2>1, <2>2
  <1>6. Len(s) \in S
    <2>1. \A i \in 1 .. Len(s) : i - 1 \in S => i \in S
      BY <1>5
    <2>. HIDE DEF S
    <2>2. Len(s) \in Nat
      OBVIOUS
    <2>3. 0 .. Len(s) \subseteq S
      BY <1>4, <2>1, <2>2, BoundedInduction
    <2>. QED
      BY <2>2, <2>3
  <1>7. h[Len(s)] \in A
    BY <1>3, Len(s) \in Nat
  <1>. QED
    BY <1>3, <1>6, <1>7 DEF A

\* The order of the ranking is strict and total, so that each candidate has a
\* place of its own and each place a candidate.
LEMMA BeforeIsStrictOrder ==
  ASSUME NEW s \in Seq(Candidate)
  PROVE  /\ \A i \in DOMAIN s : ~ Before(s, i, i)
         /\ \A i, j \in DOMAIN s : i # j => Before(s, i, j) \/ Before(s, j, i)
         /\ \A i, j, k \in DOMAIN s : Before(s, i, j) /\ Before(s, j, k) => Before(s, i, k)
  <1>1. \A i \in DOMAIN s : /\ i \in Nat /\ s[i].rank \in Nat /\ Score(s[i]) \in Int
    <2>. SUFFICES ASSUME NEW i \in DOMAIN s
                  PROVE  i \in Nat /\ s[i].rank \in Nat /\ Score(s[i]) \in Int
      OBVIOUS
    <2>1. s[i] \in Candidate /\ i \in Nat
      OBVIOUS
    <2>. DEFINE r == s[i].rank
    <2>2. r \in Nat /\ r > 0 /\ s[i].title \in DOMAIN Relevance
      BY <2>1 DEF Candidate
    <2>3. Relevance[s[i].title] \in Nat
      BY <2>2, FoundAssumption
    <2>4. 50 \div r \in Int
      <3>. HIDE DEF r
      <3>. QED
        BY <2>2
    <2>. QED
      BY <2>1, <2>2, <2>3, <2>4 DEF Score
  <1>. DEFINE x(i) == Score(s[i])
              y(i) == s[i].rank
  <1>2. \A i \in DOMAIN s : i \in Int /\ x(i) \in Int /\ y(i) \in Int
    BY <1>1
  <1>3. \A i, j \in DOMAIN s : Before(s, i, j) <=>
          \/ x(i) > x(j)
          \/ x(i) = x(j) /\ y(i) < y(j)
          \/ x(i) = x(j) /\ y(i) = y(j) /\ i < j
    BY DEF Before
  <1>. HIDE DEF x, y
  <1>. QED
    BY <1>2, <1>3

\* No two candidates share a place, and no place is empty.
LEMMA PlacesAreDistinct ==
  ASSUME NEW s \in Seq(Candidate)
  PROVE  /\ \A i \in DOMAIN s : Place(s, i) \in 1 .. Len(s)
         /\ \A i, j \in DOMAIN s : Place(s, i) = Place(s, j) => i = j
         /\ \A k \in 1 .. Len(s) : \E i \in DOMAIN s : Place(s, i) = k
  <1>. DEFINE n == Len(s)
              Better(i) == {j \in DOMAIN s : Before(s, j, i)}
  <1>1. n \in Nat /\ DOMAIN s = 1 .. n /\ IsFiniteSet(1 .. n) /\ Cardinality(1 .. n) = n
    <2>1. n \in Nat /\ DOMAIN s = 1 .. n
      OBVIOUS
    <2>. HIDE DEF n
    <2>2. IsFiniteSet(1 .. n) /\ Cardinality(1 .. n) = n
      BY <2>1, FS_Interval
    <2>. QED
      BY <2>1, <2>2
  <1>2. /\ \A i \in 1 .. n : ~ Before(s, i, i)
        /\ \A i, j \in 1 .. n : i # j => Before(s, i, j) \/ Before(s, j, i)
        /\ \A i, j, k \in 1 .. n : Before(s, i, j) /\ Before(s, j, k) => Before(s, i, k)
    BY <1>1, BeforeIsStrictOrder
  <1>3. \A i \in 1 .. n : Place(s, i) = 1 + Cardinality(Better(i))
    BY DEF Place
  <1>4. \A i \in 1 .. n : Better(i) \in SUBSET ((1 .. n) \ {i})
    BY <1>1, <1>2
  <1>5. ASSUME NEW i \in 1 .. n
        PROVE  IsFiniteSet(Better(i)) /\ Cardinality(Better(i)) \in Nat /\ Cardinality(Better(i)) <= n - 1
    <2>. DEFINE R == (1 .. n) \ {i}
                B == Better(i)
    <2>1. IsFiniteSet(R) /\ Cardinality(R) = n - 1
      BY <1>1, FS_RemoveElement, ZenonT(60)
    <2>2. B \in SUBSET R
      BY <1>4
    <2>. HIDE DEF R, B
    <2>3. IsFiniteSet(B) /\ Cardinality(B) <= Cardinality(R)
      BY <2>1, <2>2, FS_Subset
    <2>4. Cardinality(B) \in Nat
      BY <2>3, FS_CardinalityType
    <2>. QED
      BY <2>1, <2>3, <2>4 DEF B
  <1>6. ASSUME NEW i \in 1 .. n, NEW j \in 1 .. n, Before(s, i, j)
        PROVE  Cardinality(Better(i)) < Cardinality(Better(j))
    <2>. DEFINE B == Better(i)
                C == Better(j)
    <2>1. B \subseteq C /\ i \in C /\ i \notin B
      BY <1>1, <1>2, <1>6
    <2>2. IsFiniteSet(B) /\ IsFiniteSet(C) /\ Cardinality(B) \in Nat /\ Cardinality(C) \in Nat
      BY <1>5
    <2>. HIDE DEF B, C
    <2>3. Cardinality(B) <= Cardinality(C) /\ (Cardinality(C) = Cardinality(B) => C = B)
      BY <2>1, <2>2, FS_Subset
    <2>. QED
      BY <2>1, <2>2, <2>3 DEF B, C
  <1>. HIDE DEF Better
  <1>7. \A i \in 1 .. n : Place(s, i) \in 1 .. n
    BY <1>1, <1>3, <1>5
  <1>8. \A i, j \in 1 .. n : Place(s, i) = Place(s, j) => i = j
    <2>. SUFFICES ASSUME NEW i \in 1 .. n, NEW j \in 1 .. n, i # j, Place(s, i) = Place(s, j)
                  PROVE  FALSE
      OBVIOUS
    <2>1. Cardinality(Better(i)) = Cardinality(Better(j)) /\ Cardinality(Better(i)) \in Nat
      BY <1>3, <1>5
    <2>. QED
      BY <1>2, <1>6, <2>1
  <1>. DEFINE f == [i \in 1 .. n |-> Place(s, i)]
  <1>9. f \in Injection(1 .. n, 1 .. n)
    BY <1>7, <1>8 DEF Injection, IsInjective
  <1>. HIDE DEF f, n
  <1>10. f \in Surjection(1 .. n, 1 .. n)
    BY <1>1, <1>9, FS_Injection
  <1>11. \A k \in 1 .. n : \E i \in 1 .. n : f[i] = k
    BY <1>10 DEF Surjection
  <1>. QED
    BY <1>1, <1>7, <1>8, <1>11 DEF f, n

\* The ranking has candidates of the list, no more than its limit, and none
\* twice.
LEMMA RankNamesOnce ==
  ASSUME NEW s \in Seq(Candidate), OncePerPaper(s)
  PROVE  /\ Rank(s) \in Seq(Candidate)
         /\ Len(Rank(s)) <= MaxCandidates
         /\ OncePerPaper(Rank(s))
  <1>. DEFINE at(k) == CHOOSE i \in DOMAIN s : Place(s, i) = k
              t == Sorted(s)
              n == Most(1, Least(MaxCandidates, 30))
  <1>1. Len(s) \in Nat /\ DOMAIN s = 1 .. Len(s)
    OBVIOUS
  <1>2. \A k \in 1 .. Len(s) : at(k) \in DOMAIN s /\ Place(s, at(k)) = k
    BY PlacesAreDistinct
  <1>3. t = [k \in 1 .. Len(s) |-> s[at(k)]]
    BY DEF Sorted
  <1>. HIDE DEF at
  <1>4. t \in Seq(Candidate) /\ DOMAIN t = 1 .. Len(s)
    <2>1. t \in [1 .. Len(s) -> Candidate]
      BY <1>2, <1>3
    <2>. HIDE DEF t
    <2>. QED
      BY <1>1, <2>1
  <1>. HIDE DEF t
  <1>5. OncePerPaper(t)
    <2>. SUFFICES ASSUME NEW k \in 1 .. Len(s), NEW l \in 1 .. Len(s),
                         t[k].arxiv # None, t[k].arxiv = t[l].arxiv
                  PROVE  k = l
      BY <1>4 DEF OncePerPaper
    <2>1. at(k) = at(l)
      BY <1>2, <1>3 DEF OncePerPaper
    <2>. QED
      BY <1>2, <2>1
  <1>6. n \in Nat /\ n <= MaxCandidates
    BY LimitsAssumption DEF Most, Least
  <1>. HIDE DEF n
  <1>7. /\ Prefix(t, n) \in Seq(Candidate) /\ Len(Prefix(t, n)) <= n
        /\ \A i \in DOMAIN Prefix(t, n) : i \in DOMAIN t /\ Prefix(t, n)[i] = t[i]
    BY <1>4, <1>6, PrefixOf
  <1>8. OncePerPaper(Prefix(t, n))
    BY <1>5, <1>7 DEF OncePerPaper
  <1>9. Rank(s) = Prefix(t, n)
    BY DEF Rank, t, n
  <1>10. MaxCandidates \in Nat /\ Len(Prefix(t, n)) \in Nat
    BY <1>7, LimitsAssumption
  <1>. QED
    BY <1>6, <1>7, <1>8, <1>9, <1>10

---------------------------------------------------------------------------
(* The inductive invariant.                                                *)

Candidates ==
  /\ discovered \in Seq(Candidate)
  /\ candidates \in Seq(Candidate)
  /\ OncePerPaper(candidates)
  /\ Len(candidates) <= MaxCandidates

\* The selection is of the ranking that is kept, and fills the budget.
Selection ==
  /\ selected \in Picks(candidates)
  /\ Len(selected) < MaxIngested =>
       \A k \in DOMAIN candidates : \E x \in Range(selected) : CandidateId(x) = CandidateId(candidates[k])

\* An iteration that has not ingested yet leaves the budget of its own.
Ingested ==
  /\ ingested \in Seq(Arxiv)
  /\ IsInjective(ingested)
  /\ Len(ingested) <= MaxIngested * (IF phase \in {"planning", "discovering", "ingesting"}
                                       THEN iteration - 1 ELSE iteration)

\* What goes wrong is counted, and the count decides the end.
Mishaps ==
  /\ mishaps # {} => failures > 0
  /\ phase = "COMPLETED" => failures = 0 /\ ingested # <<>>

Retries == phase = "planning" => attempts <= MaxRetries

SearchInv ==
  /\ SearchTypeOK
  /\ Retries
  /\ calls <= CallLimit
  /\ Candidates
  /\ Selection
  /\ Ingested
  /\ Mishaps

\* An attempt starts in the invariant.
LEMMA InitEstablishes == Init => SearchInv
  <1>. SUFFICES ASSUME Init PROVE SearchInv
    OBVIOUS
  <1>. USE DEF Init
  <1>1. /\ MaxIterations \in Nat \ {0} /\ MaxIngested \in Nat \ {0} /\ MaxCandidates \in Nat \ {0}
        /\ MaxCalls \in Nat \ {0} /\ MaxRetries \in Nat /\ MaxReplaced \in Nat
        /\ 0 <= CallLimit
    BY LimitsAssumption, VersionsAssumption DEF CallLimit, Least
  <1>2. SearchTypeOK
    BY <1>1, LibrariesAssumption DEF SearchTypeOK, Phases, Range
  <1>3. Retries /\ calls <= CallLimit
    BY <1>1 DEF Retries
  <1>4. Candidates
    BY <1>1 DEF Candidates, OncePerPaper
  <1>5. Selection
    BY <1>1 DEF Selection, Picks, OncePerPaper
  <1>6. Ingested
    BY <1>1 DEF Ingested, IsInjective
  <1>7. Mishaps
    BY DEF Mishaps
  <1>. QED
    BY <1>2, <1>3, <1>4, <1>5, <1>6, <1>7 DEF SearchInv

\* The numbers the steps count with.
LEMMA Limits ==
  /\ MaxIterations \in Nat \ {0} /\ MaxIngested \in Nat \ {0} /\ MaxCandidates \in Nat \ {0}
  /\ MaxCalls \in Nat \ {0} /\ MaxRetries \in Nat /\ MaxReplaced \in Nat
  /\ CallLimit \in Nat /\ CallLimit <= MaxCalls
  /\ \A i \in Nat : /\ MaxIngested * i \in Nat
                    /\ MaxIngested * (i + 1) = MaxIngested * i + MaxIngested
  <1>1. /\ MaxIterations \in Nat \ {0} /\ MaxIngested \in Nat \ {0} /\ MaxCandidates \in Nat \ {0}
        /\ MaxCalls \in Nat \ {0} /\ MaxRetries \in Nat /\ MaxReplaced \in Nat
    BY LimitsAssumption, VersionsAssumption
  <1>2. CallLimit \in Nat /\ CallLimit <= MaxCalls
    BY <1>1 DEF CallLimit, Least
  <1>3. ASSUME NEW m \in Nat, NEW i \in Nat PROVE m * i \in Nat /\ m * (i + 1) = m * i + m
    OBVIOUS
  <1>. QED
    BY <1>1, <1>2, <1>3

\* The budget of an iteration that has ended is no less than that before it.
LEMMA BudgetGrows ==
  ASSUME SearchInv
  PROVE  /\ Len(ingested) \in Nat
         /\ Len(ingested) <= MaxIngested * iteration
         /\ iteration - 1 \in Nat
         /\ phase \in {"planning", "discovering", "ingesting"} => Len(ingested) <= MaxIngested * (iteration - 1)
         /\ MaxIngested * iteration = MaxIngested * (iteration - 1) + MaxIngested
  <1>. DEFINE j == iteration - 1
  <1>1. j \in Nat /\ iteration = j + 1
    BY Limits DEF SearchInv, SearchTypeOK
  <1>2. MaxIngested \in Nat /\ MaxIngested * j \in Nat /\ MaxIngested * (j + 1) = MaxIngested * j + MaxIngested
    BY <1>1, Limits
  <1>. HIDE DEF j
  <1>3. /\ Len(ingested) \in Nat
        /\ Len(ingested) <= MaxIngested * (IF phase \in {"planning", "discovering", "ingesting"}
                                           THEN iteration - 1 ELSE iteration)
    BY DEF SearchInv, Ingested
  <1>4. iteration - 1 = j
    BY DEF j
  <1>. QED
    BY <1>1, <1>2, <1>3, <1>4

\* Steps that choose nothing new keep what was chosen.
LEMMA ChosenStays ==
  ASSUME SearchInv, UNCHANGED chosen, discovered' \in Seq(Candidate)
  PROVE  Candidates' /\ Selection'
  BY DEF SearchInv, Candidates, Selection, chosen

\* A plan changes neither candidates nor papers.
LEMMA PlanningKeeps ==
  ASSUME SearchInv, Ask \/ PlanLocally
  PROVE  SearchInv'
  <1>1. /\ UNCHANGED <<iteration, calls, discovered, chosen, papers, trouble>>
        /\ phase = "planning" /\ phase' \in {"planning", "discovering", "FAILED"}
        /\ attempts' \in {attempts, attempts + 1}
        /\ phase' = "planning" => attempts' = attempts + 1 /\ attempts < MaxRetries
    BY DEF Ask, PlanLocally, StartDiscovery
  <1>2. attempts \in Nat /\ attempts <= MaxRetries /\ MaxRetries \in Nat
    BY <1>1, Limits DEF SearchInv, SearchTypeOK, Retries
  <1>3. SearchTypeOK'
    BY <1>1, <1>2 DEF SearchInv, SearchTypeOK, Phases, papers, trouble
  <1>4. Retries'
    BY <1>1, <1>2 DEF Retries
  <1>5. calls' <= CallLimit
    BY <1>1 DEF SearchInv
  <1>6. Candidates' /\ Selection'
    BY <1>1, ChosenStays DEF SearchInv, Candidates
  <1>7. Ingested'
    BY <1>1, BudgetGrows DEF SearchInv, Ingested, papers
  <1>8. Mishaps'
    BY <1>1 DEF SearchInv, Mishaps, trouble
  <1>. QED
    BY <1>3, <1>4, <1>5, <1>6, <1>7, <1>8 DEF SearchInv

\* A search adds candidates, and counts itself and its failure.
LEMMA SearchKeeps ==
  ASSUME SearchInv, Search
  PROVE  SearchInv'
  <1>1. /\ phase = "discovering" /\ calls < CallLimit /\ calls' = calls + 1
        /\ UNCHANGED <<attempts, iteration, chosen, papers>>
        /\ phase' \in {"discovering", "FAILED"}
        /\ \/ UNCHANGED trouble
           \/ failures' = failures + 1 /\ mishaps' = mishaps \cup {"search"}
    BY DEF Search, MoreToSearch
  <1>2. calls \in Nat /\ failures \in Nat /\ calls' <= CallLimit /\ calls' \in 0 .. MaxCalls
    BY <1>1, Limits DEF SearchInv, SearchTypeOK
  <1>3. SearchTypeOK'
    BY <1>1, <1>2 DEF SearchInv, SearchTypeOK, Phases, papers, trouble
  <1>4. Retries'
    BY <1>1 DEF Retries
  <1>5. discovered' \in Seq(Candidate)
    <2>1. discovered \in Seq(Candidate)
      BY DEF SearchInv, Candidates
    <2>2. CASE UNCHANGED discovered
      BY <2>1, <2>2
    <2>3. ASSUME NEW found \in Found,
                 discovered' = discovered \o [i \in DOMAIN found |->
                   [arxiv |-> found[i].arxiv, title |-> found[i].title, year |-> found[i].year, rank |-> i]]
          PROVE  discovered' \in Seq(Candidate)
      <3>. DEFINE Entry == [arxiv : {None} \cup Arxiv, title : DOMAIN Relevance, year : {None} \cup Nat]
                  new == [i \in DOMAIN found |->
                   [arxiv |-> found[i].arxiv, title |-> found[i].title, year |-> found[i].year, rank |-> i]]
      <3>0. found \in Seq(Entry)
        BY FoundAssumption
      <3>. HIDE DEF Entry
      <3>1. DOMAIN found = 1 .. Len(found) /\ Len(found) \in Nat
        BY <3>0
      <3>2. \A i \in DOMAIN found : found[i] \in Entry /\ i \in Nat \ {0}
        BY <3>0, <3>1
      <3>3. \A i \in DOMAIN found : new[i] \in Candidate
        BY <3>2 DEF Candidate, Entry
      <3>4. new \in [1 .. Len(found) -> Candidate]
        BY <3>1, <3>3
      <3>. HIDE DEF new
      <3>5. new \in Seq(Candidate)
        BY <3>1, <3>4
      <3>. QED
        BY <2>1, <2>3, <3>5 DEF new
    <2>. QED
      BY <2>2, <2>3 DEF Search
  <1>6. Candidates' /\ Selection'
    BY <1>1, <1>5, ChosenStays
  <1>7. Ingested'
    BY <1>1, BudgetGrows DEF SearchInv, Ingested, papers
  <1>8. Mishaps'
    BY <1>1, <1>2 DEF SearchInv, Mishaps, trouble
  <1>. QED
    BY <1>2, <1>3, <1>4, <1>6, <1>7, <1>8 DEF SearchInv

\* Deduplication, ranking and selection make lists that keep the budget.
LEMMA SelectPapersKeeps ==
  ASSUME SearchInv, SelectPapers
  PROVE  SearchInv'
  <1>. DEFINE normalized == Deduplicate(candidates \o discovered)
  <1>1. /\ phase = "discovering" /\ phase' \in {"synthesizing", "ingesting"}
        /\ candidates' = Rank(normalized)
        /\ selected' = Select(Rank(normalized))
        /\ discovered' = <<>>
        /\ UNCHANGED <<attempts, iteration, calls, papers, trouble>>
    BY DEF SelectPapers
  <1>2. candidates \o discovered \in Seq(Candidate)
    BY DEF SearchInv, Candidates
  <1>3. normalized \in Seq(Candidate) /\ OncePerPaper(normalized)
    BY <1>2, DeduplicateNamesOnce
  <1>. HIDE DEF normalized
  <1>4. candidates' \in Seq(Candidate) /\ OncePerPaper(candidates') /\ Len(candidates') <= MaxCandidates
    BY <1>1, <1>3, RankNamesOnce
  <1>5. selected' = Select(candidates')
    BY <1>1
  <1>6. PICK ranked : ranked = candidates'
    OBVIOUS
  <1>7. /\ Select(ranked) \in Picks(ranked)
        /\ Len(Select(ranked)) < MaxIngested =>
             \A k \in DOMAIN ranked : \E x \in Range(Select(ranked)) : CandidateId(x) = CandidateId(ranked[k])
    BY <1>4, <1>6, SelectFillsBudget
  <1>8. Candidates'
    BY <1>1, <1>4 DEF Candidates, OncePerPaper
  <1>9. Selection'
    BY <1>5, <1>6, <1>7, ZenonT(60) DEF Selection, Picks, OncePerPaper, CandidateId
  <1>10. SearchTypeOK' /\ Retries' /\ calls' <= CallLimit
    BY <1>1 DEF SearchInv, SearchTypeOK, Retries, Phases, papers, trouble
  <1>11. Ingested'
    BY <1>1, BudgetGrows DEF SearchInv, Ingested, papers
  <1>12. Mishaps'
    BY <1>1 DEF SearchInv, Mishaps, trouble
  <1>. QED
    BY <1>8, <1>9, <1>10, <1>11, <1>12 DEF SearchInv

\* Ingestion lists no more papers than were selected and counts the failed ones.
LEMMA IngestKeeps ==
  ASSUME SearchInv, Ingest
  PROVE  SearchInv'
  <1>0. PICK ok \in SUBSET {c.arxiv : c \in Range(selected)} :
          LET failed == {i \in DOMAIN selected : selected[i].arxiv \notin library \cup ok}
              reached == Collect(ingested, selected, library \cup ok)
          IN /\ None \notin ok
             /\ library' = library \cup ok
             /\ ingested' = reached
             /\ \E unlinked \in SUBSET Range(reached) :
                  /\ failures' = failures + Cardinality(failed) + Cardinality(unlinked)
                  /\ mishaps' = mishaps \cup (IF failed = {} THEN {} ELSE {"ingestion"})
                                        \cup (IF unlinked = {} THEN {} ELSE {"linking"})
    BY DEF Ingest
  <1>. DEFINE failed == {i \in DOMAIN selected : selected[i].arxiv \notin library \cup ok}
              usable == library \cup ok
  <1>1. /\ phase = "ingesting" /\ phase' = "analyzing"
        /\ UNCHANGED <<iteration, search, chosen, version>>
        /\ None \notin ok
        /\ library' = usable
        /\ ingested' = Collect(ingested, selected, usable)
    BY <1>0 DEF Ingest
  <1>17. PICK unlinked \in SUBSET Range(ingested') :
          /\ failures' = failures + Cardinality(failed) + Cardinality(unlinked)
          /\ mishaps' = mishaps \cup (IF failed = {} THEN {} ELSE {"ingestion"})
                                \cup (IF unlinked = {} THEN {} ELSE {"linking"})
    BY <1>0
  <1>2. selected \in Seq(Candidate) /\ Len(selected) \in Nat /\ Len(selected) <= MaxIngested
    BY DEF SearchInv, Selection, Picks
  <1>3. usable \in SUBSET Arxiv
    <2>0. \A c \in Range(selected) : c \in Candidate
      BY <1>2 DEF Range
    <2>1. \A c \in Range(selected) : c.arxiv \in {None} \cup Arxiv
      BY <2>0 DEF Candidate
    <2>2. ok \subseteq Arxiv
      BY <1>1, <2>1
    <2>. QED
      BY <2>2 DEF SearchInv, SearchTypeOK
  <1>4. Cardinality(failed) \in Nat /\ (failed # {} => Cardinality(failed) > 0)
    <2>0. failed \in SUBSET (1 .. Len(selected))
      BY <1>2
    <2>1. IsFiniteSet(1 .. Len(selected))
      BY <1>2, FS_Interval
    <2>. HIDE DEF failed
    <2>2. IsFiniteSet(failed)
      BY <2>0, <2>1, FS_Subset
    <2>. QED
      BY <2>2, FS_CardinalityType, FS_EmptySet
  <1>. HIDE DEF failed, usable
  <1>5. /\ ingested \in Seq(Arxiv) /\ IsInjective(ingested) /\ Range(ingested) \subseteq library
        /\ failures \in Nat
    BY DEF SearchInv, SearchTypeOK, Ingested
  <1>6. PICK list : list = Collect(ingested, selected, usable)
    OBVIOUS
  <1>7. /\ list \in Seq(Arxiv) /\ IsInjective(list) /\ Len(list) <= Len(ingested) + Len(selected)
        /\ Range(list) \subseteq Range(ingested) \cup usable
    BY <1>2, <1>3, <1>5, <1>6, CollectListsOnce
  <1>8. ingested' = list
    BY <1>1, <1>6
  <1>9. Len(list) \in Nat /\ Len(list) <= MaxIngested * iteration
    BY <1>1, <1>2, <1>7, BudgetGrows, Limits
  <1>10. Ingested'
    BY <1>1, <1>7, <1>8, <1>9 DEF Ingested, IsInjective
  <1>11. Range(ingested') \subseteq library' /\ library' \subseteq Arxiv
    <2>1. library \subseteq usable
      BY DEF usable
    <2>. QED
      BY <1>1, <1>3, <1>5, <1>7, <1>8, <2>1
  <1>16. Cardinality(unlinked) \in Nat /\ (unlinked # {} => Cardinality(unlinked) > 0)
    <2>1. IsFiniteSet(Range(list))
      <3>1. IsFiniteSet(1 .. Len(list)) /\ DOMAIN list = 1 .. Len(list)
        BY <1>7, <1>9, FS_Interval
      <3>2. list \in Surjection(DOMAIN list, Range(list))
        BY <1>7 DEF Surjection, Range
      <3>. QED
        BY <3>1, <3>2, FS_Surjection
    <2>2. IsFiniteSet(unlinked)
      BY <1>8, <2>1, FS_Subset
    <2>. QED
      BY <2>2, FS_CardinalityType, FS_EmptySet
  <1>12. /\ failures' \in Nat /\ failures' >= failures
         /\ failed # {} \/ unlinked # {} => failures' > 0
    BY <1>4, <1>5, <1>16, <1>17
  <1>13. SearchTypeOK' /\ Retries' /\ calls' <= CallLimit
    BY <1>1, <1>11, <1>12 DEF SearchInv, SearchTypeOK, Retries, Phases, search, Range
  <1>14. Candidates' /\ Selection'
    BY <1>1, ChosenStays DEF search, SearchInv, Candidates
  <1>15. Mishaps'
    BY <1>1, <1>5, <1>12, <1>17 DEF SearchInv, Mishaps
  <1>. QED
    BY <1>10, <1>13, <1>14, <1>15 DEF SearchInv

\* An analysis that fails is counted.
LEMMA AnalyzeKeeps ==
  ASSUME SearchInv, Analyze
  PROVE  SearchInv'
  <1>1. /\ phase = "analyzing"
        /\ UNCHANGED <<phase, iteration, search, chosen, ingested, library, version>>
        /\ \/ UNCHANGED trouble
           \/ failures' = failures + 1 /\ mishaps' = mishaps \cup {"analysis"}
    BY DEF Analyze
  <1>2. failures \in Nat
    BY DEF SearchInv, SearchTypeOK
  <1>3. SearchTypeOK' /\ Retries' /\ calls' <= CallLimit
    BY <1>1, <1>2 DEF SearchInv, SearchTypeOK, Retries, search, trouble
  <1>4. Candidates' /\ Selection'
    BY <1>1, ChosenStays DEF search, SearchInv, Candidates
  <1>5. Ingested'
    BY <1>1 DEF SearchInv, Ingested
  <1>6. Mishaps'
    BY <1>1, <1>2 DEF SearchInv, Mishaps, trouble
  <1>. QED
    BY <1>3, <1>4, <1>5, <1>6 DEF SearchInv

\* The next iteration starts with the budget of the one that ended used up.
LEMMA EvaluateKeeps ==
  ASSUME SearchInv, Evaluate
  PROVE  SearchInv'
  <1>1. /\ phase = "analyzing"
        /\ UNCHANGED <<attempts, calls, discovered, chosen, papers, trouble>>
        /\ \/ phase' = "synthesizing" /\ UNCHANGED iteration
           \/ phase' = "discovering" /\ iteration' = iteration + 1 /\ iteration # MaxIterations
    BY DEF Evaluate
  <1>2. iteration' \in 1 .. MaxIterations
    BY <1>1, Limits DEF SearchInv, SearchTypeOK
  <1>3. SearchTypeOK' /\ Retries' /\ calls' <= CallLimit
    BY <1>1, <1>2 DEF SearchInv, SearchTypeOK, Retries, Phases, papers, trouble
  <1>4. Candidates' /\ Selection'
    BY <1>1, ChosenStays DEF SearchInv, Candidates
  <1>5. Ingested'
    <2>1. iteration \in Nat
      BY Limits DEF SearchInv, SearchTypeOK
    <2>2. phase' = "discovering" => iteration' - 1 = iteration
      BY <1>1, <2>1
    <2>. QED
      BY <1>1, <2>2, BudgetGrows DEF SearchInv, Ingested, papers
  <1>6. Mishaps'
    BY <1>1 DEF SearchInv, Mishaps, trouble
  <1>. QED
    BY <1>3, <1>4, <1>5, <1>6 DEF SearchInv

\* The run is completed only with papers and without failures.
LEMMA ReportingKeeps ==
  ASSUME SearchInv, Gather \/ Publish
  PROVE  SearchInv'
  <1>1. /\ phase \in {"synthesizing", "reporting"}
        /\ phase' \in {"reporting", "COMPLETED", "PARTIAL", "FAILED"}
        /\ phase' = "COMPLETED" => ingested # <<>> /\ failures = 0
        /\ UNCHANGED <<iteration, search, chosen, papers, trouble>>
    BY DEF Gather, Publish
  <1>2. SearchTypeOK' /\ Retries' /\ calls' <= CallLimit
    BY <1>1 DEF SearchInv, SearchTypeOK, Retries, Phases, search, papers, trouble
  <1>3. Candidates' /\ Selection'
    BY <1>1, ChosenStays DEF search, SearchInv, Candidates
  <1>4. Ingested'
    BY <1>1, BudgetGrows DEF SearchInv, Ingested, papers
  <1>5. Mishaps'
    BY <1>1 DEF SearchInv, Mishaps, trouble, papers
  <1>. QED
    BY <1>2, <1>3, <1>4, <1>5 DEF SearchInv

\* A replaced document disturbs no part of the invariant.
LEMMA ReplaceKeeps ==
  ASSUME SearchInv, ReplaceDocument
  PROVE  SearchInv'
  <1>1. /\ UNCHANGED <<phase, iteration, search, chosen, ingested, library, trouble>>
        /\ \E p \in library : version[p] < MaxReplaced /\ version' = [version EXCEPT ![p] = @ + 1]
    BY DEF ReplaceDocument
  <1>2. version' \in [Arxiv -> 0 .. MaxReplaced]
    BY <1>1, Limits DEF SearchInv, SearchTypeOK
  <1>3. SearchTypeOK' /\ Retries' /\ calls' <= CallLimit
    BY <1>1, <1>2 DEF SearchInv, SearchTypeOK, Retries, search, trouble
  <1>4. Candidates' /\ Selection'
    BY <1>1, ChosenStays DEF search, SearchInv, Candidates
  <1>5. Ingested' /\ Mishaps'
    BY <1>1 DEF SearchInv, Ingested, Mishaps, trouble
  <1>. QED
    BY <1>3, <1>4, <1>5 DEF SearchInv

\* Nor does a step that changes nothing.
LEMMA StutterKeeps ==
  ASSUME SearchInv, UNCHANGED vars
  PROVE  SearchInv'
  <1>1. /\ UNCHANGED <<phase, iteration, search, chosen, ingested, library, version, trouble>>
    BY DEF vars, papers
  <1>2. SearchTypeOK' /\ Retries' /\ calls' <= CallLimit
    BY <1>1 DEF SearchInv, SearchTypeOK, Retries, search, trouble
  <1>3. Candidates' /\ Selection'
    BY <1>1, ChosenStays DEF search, SearchInv, Candidates
  <1>4. Ingested' /\ Mishaps'
    BY <1>1 DEF SearchInv, Ingested, Mishaps, trouble
  <1>. QED
    BY <1>2, <1>3, <1>4 DEF SearchInv

\* The invariant holds in every state an attempt can reach.
THEOREM SearchInvariant == SearchSpec => []SearchInv
  <1>1. Init => SearchInv
    BY InitEstablishes
  <1>2. SearchInv /\ [Next]_vars => SearchInv'
    BY PlanningKeeps, SearchKeeps, SelectPapersKeeps, IngestKeeps, AnalyzeKeeps, EvaluateKeeps,
       ReportingKeeps, ReplaceKeeps, StutterKeeps DEF Next, Ended
  <1>. QED
    BY <1>1, <1>2, PTL DEF SearchSpec

---------------------------------------------------------------------------
(* What follows from it.                                                   *)

\* Variables have their types; in particular an ingested paper is in the
\* library of the owner.
THEOREM SearchTypes == SearchSpec => []SearchTypeOK
  <1>1. SearchInv => SearchTypeOK
    BY DEF SearchInv
  <1>. QED
    BY <1>1, SearchInvariant, PTL

\* The budget holds for any number of papers, queries and results, whatever
\* the searches return: a paper is one candidate and selected once, and no
\* place is left free that a candidate could have.
THEOREM SelectionHolds == SearchSpec => []SelectionIsBounded
  <1>1. ASSUME SearchInv PROVE SelectionIsBounded
    <2>1. /\ Len(selected) <= MaxIngested /\ OncePerPaper(selected)
          /\ \A i \in DOMAIN selected : \E j \in DOMAIN candidates : selected[i] = candidates[j]
      BY <1>1 DEF SearchInv, Selection, Picks
    <2>2. Range(selected) \subseteq Range(candidates)
      BY <2>1 DEF Range
    <2>3. Len(selected) < MaxIngested =>
            {CandidateId(c) : c \in Range(candidates)} \subseteq {CandidateId(c) : c \in Range(selected)}
      BY <1>1 DEF SearchInv, Selection, Range
    <2>4. Len(ingested) <= MaxIngested * iteration
      BY <1>1, BudgetGrows
    <2>. QED
      BY <1>1, <2>1, <2>2, <2>3, <2>4 DEF SelectionIsBounded, SearchInv, Candidates, Ingested
  <1>. QED
    BY <1>1, SearchInvariant, PTL

\* A run that ends COMPLETED had no failed search, ingestion or analysis, in
\* any iteration, and has a paper.
THEOREM CompletionHolds == SearchSpec => []CompletedMeansNoFailure
  <1>1. SearchInv => CompletedMeansNoFailure
    BY DEF SearchInv, SearchTypeOK, Mishaps, CompletedMeansNoFailure
  <1>. QED
    BY <1>1, SearchInvariant, PTL

\* A claim of the report cites papers it is made of only.
LEMMA ClaimsCiteTheirPapers ==
  ASSUME NEW c \in Synthesized, NEW r \in c.refs
  PROVE  r.paper \in c.papers
  <1>1. CASE c \in LocalClaims
    BY <1>1 DEF LocalClaims, Claim, Refs
  <1>2. CASE c \in Agreements
    <2>. DEFINE Of(m) == {x \in Results : x[2].metric = m}
    <2>1. PICK m : c = Claim({x[1].paper : x \in Of(m)}, UNION {Refs(x[1], x[2].cites) : x \in Of(m)},
                             {x[2].value : x \in Of(m)})
      BY <1>2 DEF Agreements
    <2>. HIDE DEF Of
    <2>2. /\ c.papers = {x[1].paper : x \in Of(m)}
          /\ c.refs = UNION {Refs(x[1], x[2].cites) : x \in Of(m)}
      BY <2>1 DEF Claim
    <2>3. PICK x \in Of(m) : r \in Refs(x[1], x[2].cites)
      BY <2>2
    <2>4. r.paper = x[1].paper
      BY <2>3 DEF Refs
    <2>. QED
      BY <2>2, <2>3, <2>4
  <1>3. CASE c \in Contradictions
    BY <1>3 DEF Contradictions, Claim, Refs
  <1>. QED
    BY <1>1, <1>2, <1>3 DEF Synthesized

\* Whatever documents were replaced while the run worked, the citations of a
\* report resolve at the moment it is saved.
THEOREM ReportsResolve == SearchSpec => PublishedReportResolves
  <1>. DEFINE Resolves ==
         \A c \in report' : \A r \in c.refs :
           /\ r.paper \in Range(ingested)
           /\ r.document = version[r.paper]
           /\ r.evidence \in DOMAIN Texts[version[r.paper]]
           /\ c.numbers # {} => Texts[version[r.paper]][r.evidence] \cap c.numbers # {}
  <1>1. ASSUME [Next]_vars, report' # report PROVE Resolves
    <2>1. report' = Synthesized /\ Valid(Synthesized)
      BY <1>1 DEF Next, Ended, vars, output, Ask, PlanLocally, StartDiscovery, Search, SelectPapers, Ingest,
                  Analyze, Evaluate, Gather, Publish, ReplaceDocument
    <2>2. ASSUME NEW c \in Synthesized, NEW r \in c.refs
          PROVE  /\ r.paper \in Range(ingested)
                 /\ r.document = version[r.paper]
                 /\ r.evidence \in DOMAIN Texts[version[r.paper]]
                 /\ c.numbers # {} => Texts[version[r.paper]][r.evidence] \cap c.numbers # {}
      <3>1. r.paper \in c.papers
        BY ClaimsCiteTheirPapers
      <3>. QED
        BY <2>1, <3>1 DEF Valid, Registry
    <2>. QED
      BY <2>1, <2>2
  <1>. QED
    BY <1>1, PTL DEF SearchSpec, PublishedReportResolves
=============================================================================
