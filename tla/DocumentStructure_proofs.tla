----------------------- MODULE DocumentStructure_proofs -----------------------
(***************************************************************************)
(* What a parsed document promises, for every sequence of pages, blocks    *)
(* and lines and every setting of the limits.                              *)
(*                                                                         *)
(* LineFits relates the state of the parser to the lines it has read:      *)
(* every line keeps it, so does every block (BlockFits, with the number of *)
(* characters) and every page (PageFits, with the images and the limits).  *)
(* The text, the pages and the limits of a document follow from it at the  *)
(* last page.  The parents of sections (NestFits) and the evidence are     *)
(* found by induction over the sections and the things registered.         *)
(***************************************************************************)
EXTENDS ReaderRules_proofs

---------------------------------------------------------------------------
(* Documents: lists of lists. *)

\* A list of lists, joined one after the other.
JoinsUp(j, lists, X) ==
  /\ j \in [0 .. Len(lists) -> Seq(X)] /\ j[0] = <<>>
  /\ \A i \in 1 .. Len(lists) : j[i] = j[i - 1] \o lists[i]

LEMMA JoinedRuns ==
  ASSUME NEW X, NEW lists \in Seq(Seq(X))
  PROVE  \E j : JoinsUp(j, lists, X) /\ Joined(lists) = j[Len(lists)]
  <1>. DEFINE n == Len(lists)
              Q == Seq(X)
              step == [i \in 1 .. n |-> [q \in Q |-> q \o lists[i]]]
              Runs(f) == f = [i \in 0 .. n |-> IF i = 0 THEN <<>> ELSE f[i - 1] \o lists[i]]
  <1>1. n \in Nat /\ \A i \in 1 .. n : lists[i] \in Q
    OBVIOUS
  <1>2. <<>> \in Q /\ \A q, x \in Q : q \o x \in Q
    OBVIOUS
  <1>. HIDE DEF n, Q
  <1>3. \E f : Runs(f)
    <2>1. \A i \in 1 .. n, q \in Q : step[i][q] = q \o lists[i] /\ step[i][q] \in Q
      BY <1>1, <1>2
    <2>2. step \in [1 .. n -> [Q -> Q]]
      BY <1>1, <1>2
    <2>. HIDE DEF step
    <2>3. CanRecur(n, Q, <<>>, step)
      BY <1>1, <1>2, <2>2 DEF CanRecur
    <2>4. PICK f : Recurs(f, n, Q, <<>>, step)
      BY <2>3, RecursionRuns
    <2>5. f \in [0 .. n -> Q] /\ f[0] = <<>> /\ \A i \in 1 .. n : f[i] = step[i][f[i - 1]]
      BY <2>4 DEF Recurs
    <2>6. \A i \in 0 .. n : f[i] = IF i = 0 THEN <<>> ELSE f[i - 1] \o lists[i]
      <3>1. \A i \in 0 .. n : i # 0 => i \in 1 .. n /\ i - 1 \in 0 .. n
        BY <1>1
      <3>. QED
        BY <2>1, <2>5, <3>1
    <2>. QED
      BY <2>5, <2>6
  <1>. DEFINE h == CHOOSE f : Runs(f)
              T == {i \in 0 .. n : h[i] \in Q}
  <1>4. Joined(lists) = h[n]
    BY Zenon DEF Joined, n
  <1>5. Runs(h)
    <2>. HIDE DEF Runs
    <2>. QED
      BY <1>3
  <1>. HIDE DEF h
  <1>6. h[0] = <<>> /\ \A i \in 1 .. n : h[i] = h[i - 1] \o lists[i]
    BY <1>1, <1>5
  <1>7. 0 .. n \subseteq T
    <2>1. 0 \in T
      BY <1>1, <1>2, <1>6
    <2>2. ASSUME NEW i \in 1 .. n, i - 1 \in T PROVE i \in T
      <3>1. i \in 0 .. n /\ h[i] = h[i - 1] \o lists[i] /\ h[i - 1] \in Q /\ lists[i] \in Q
        <4>1. i \in 0 .. n /\ lists[i] \in Q
          BY <1>1
        <4>2. h[i] = h[i - 1] \o lists[i]
          BY <1>6
        <4>. QED
          BY <2>2, <4>1, <4>2
      <3>2. h[i - 1] \o lists[i] \in Q
        BY <1>2, <3>1
      <3>. QED
        BY <3>1, <3>2
    <2>. HIDE DEF T
    <2>. QED
      BY <1>1, <2>1, <2>2, BoundedInduction
  <1>8. h \in [0 .. n -> Q]
    BY <1>5, <1>7
  <1>. QED
    BY <1>4, <1>6, <1>8 DEF JoinsUp, n, Q

\* There is one way to join them.
LEMMA JoinsOnce ==
  ASSUME NEW X, NEW lists \in Seq(Seq(X)), NEW j, JoinsUp(j, lists, X)
  PROVE  Joined(lists) = j[Len(lists)]
  <1>1. PICK h : JoinsUp(h, lists, X) /\ Joined(lists) = h[Len(lists)]
    BY JoinedRuns
  <1>. DEFINE n == Len(lists)
              T == {i \in 0 .. n : h[i] = j[i]}
  <1>2. n \in Nat
    OBVIOUS
  <1>3. 0 \in T
    BY <1>1, <1>2 DEF JoinsUp
  <1>4. ASSUME NEW i \in 1 .. n, i - 1 \in T PROVE i \in T
    <2>1. i \in 0 .. n /\ h[i - 1] = j[i - 1]
      BY <1>2, <1>4
    <2>2. h[i] = h[i - 1] \o lists[i]
      BY <1>1 DEF JoinsUp
    <2>3. j[i] = j[i - 1] \o lists[i]
      BY DEF JoinsUp
    <2>. QED
      BY <2>1, <2>2, <2>3
  <1>5. n \in T
    <2>. HIDE DEF n, T
    <2>1. 0 .. n \subseteq T
      BY <1>2, <1>3, <1>4, BoundedInduction
    <2>. QED
      BY <1>2, <2>1
  <1>. QED
    BY <1>1, <1>5

LEMMA JoinedIs ==
  ASSUME NEW X, NEW lists \in Seq(Seq(X))
  PROVE  Joined(lists) \in Seq(X) /\ Joined(<<>>) = <<>>
  <1>1. PICK h : JoinsUp(h, lists, X) /\ Joined(lists) = h[Len(lists)]
    BY JoinedRuns
  <1>2. Len(lists) \in Nat
    OBVIOUS
  <1>3. Joined(lists) \in Seq(X)
    BY <1>1, <1>2 DEF JoinsUp
  <1>4. Joined(<<>>) = <<>>
    <2>1. PICK g : JoinsUp(g, <<>>, X) /\ Joined(<<>>) = g[Len(<<>>)]
      BY JoinedRuns, <<>> \in Seq(Seq(X))
    <2>. QED
      BY <2>1 DEF JoinsUp
  <1>. QED
    BY <1>3, <1>4

\* Lists but for the last one, then that.
LEMMA JoinedLast ==
  ASSUME NEW X, NEW lists \in Seq(Seq(X)), Len(lists) # 0,
         NEW front \in Seq(Seq(X)), Len(front) = Len(lists) - 1,
         \A i \in 1 .. Len(front) : front[i] = lists[i]
  PROVE  Joined(lists) = Joined(front) \o lists[Len(lists)]
  <1>1. PICK h : JoinsUp(h, lists, X) /\ Joined(lists) = h[Len(lists)]
    BY JoinedRuns
  <1>. DEFINE n == Len(front)
              j == [i \in 0 .. n |-> h[i]]
  <1>2. n \in Nat /\ n + 1 = Len(lists)
    OBVIOUS
  <1>3. JoinsUp(j, front, X)
    <2>1. j \in [0 .. n -> Seq(X)] /\ \A i \in 0 .. n : j[i] = h[i]
      BY <1>1, <1>2 DEF JoinsUp
    <2>. HIDE DEF j
    <2>2. j[0] = <<>>
      BY <1>1, <1>2, <2>1 DEF JoinsUp
    <2>3. ASSUME NEW i \in 1 .. n PROVE j[i] = j[i - 1] \o front[i]
      <3>1. i \in 0 .. n /\ i - 1 \in 0 .. n /\ i \in 1 .. Len(lists)
        BY <1>2
      <3>2. h[i] = h[i - 1] \o lists[i]
        BY <1>1, <3>1 DEF JoinsUp
      <3>. QED
        BY <2>1, <3>1, <3>2
    <2>. QED
      BY <2>1, <2>2, <2>3 DEF JoinsUp
  <1>4. Joined(front) = h[n]
    <2>1. Joined(front) = j[n]
      <3>. HIDE DEF j
      <3>. QED
        BY <1>3, JoinsOnce
    <2>. QED
      BY <1>2, <2>1
  <1>5. h[n + 1] = h[n] \o lists[n + 1]
    <2>1. n + 1 \in 1 .. Len(lists) /\ (n + 1) - 1 = n
      BY <1>2
    <2>. HIDE DEF n
    <2>. QED
      BY <1>1, <2>1 DEF JoinsUp
  <1>. QED
    BY <1>1, <1>2, <1>4, <1>5

\* An empty list in front makes no difference.
LEMMA JoinedRest ==
  ASSUME NEW X, NEW lists \in Seq(Seq(X)), Len(lists) # 0, lists[1] = <<>>,
         NEW rest \in Seq(Seq(X)), Len(rest) = Len(lists) - 1,
         \A i \in 1 .. Len(rest) : rest[i] = lists[i + 1]
  PROVE  Joined(lists) = Joined(rest)
  <1>1. PICK h : JoinsUp(h, lists, X) /\ Joined(lists) = h[Len(lists)]
    BY JoinedRuns
  <1>. DEFINE n == Len(rest)
              j == [i \in 0 .. n |-> h[i + 1]]
  <1>2. n \in Nat /\ n + 1 = Len(lists)
    OBVIOUS
  <1>3. JoinsUp(j, rest, X)
    <2>1. j \in [0 .. n -> Seq(X)] /\ \A i \in 0 .. n : j[i] = h[i + 1]
      BY <1>1, <1>2 DEF JoinsUp
    <2>. HIDE DEF j
    <2>2. j[0] = <<>>
      <3>1. h[1] = h[0] \o lists[1] /\ h[0] = <<>>
        <4>1. 1 \in 1 .. Len(lists) /\ 1 - 1 = 0
          BY <1>2
        <4>. QED
          BY <1>1, <4>1 DEF JoinsUp
      <3>2. <<>> \o <<>> = <<>>
        OBVIOUS
      <3>. QED
        BY <1>2, <2>1, <3>1, <3>2
    <2>3. ASSUME NEW i \in 1 .. n PROVE j[i] = j[i - 1] \o rest[i]
      <3>1. i \in 0 .. n /\ i - 1 \in 0 .. n /\ i + 1 \in 1 .. Len(lists) /\ (i + 1) - 1 = i
            /\ (i - 1) + 1 = i
        BY <1>2
      <3>2. h[i + 1] = h[i] \o lists[i + 1]
        BY <1>1, <3>1 DEF JoinsUp
      <3>. QED
        BY <2>1, <3>1, <3>2
    <2>. QED
      BY <2>1, <2>2, <2>3 DEF JoinsUp
  <1>4. Joined(rest) = j[n]
    <2>. HIDE DEF j
    <2>. QED
      BY <1>3, JoinsOnce
  <1>. QED
    BY <1>1, <1>2, <1>4

LEMMA RangeJoins ==
  ASSUME NEW X, NEW s \in Seq(X), NEW t \in Seq(X)
  PROVE  Range(s \o t) = Range(s) \cup Range(t)
  <1>1. Len(s) \in Nat /\ Len(t) \in Nat /\ s \o t \in Seq(X) /\ Len(s \o t) = Len(s) + Len(t)
    OBVIOUS
  <1>2. /\ \A i \in 1 .. Len(s) : (s \o t)[i] = s[i]
        /\ \A i \in 1 .. Len(t) : (s \o t)[Len(s) + i] = t[i]
    OBVIOUS
  <1>3. /\ Range(s) = {s[i] : i \in 1 .. Len(s)} /\ Range(t) = {t[i] : i \in 1 .. Len(t)}
        /\ Range(s \o t) = {(s \o t)[i] : i \in 1 .. Len(s \o t)}
    BY <1>1, Lists
  <1>. DEFINE u == s \o t
  <1>. HIDE DEF u
  <1>4. \A i \in 1 .. Len(u) : i \in 1 .. Len(s) \/ (i - Len(s) \in 1 .. Len(t) /\ i = Len(s) + (i - Len(s)))
    BY <1>1 DEF u
  <1>5. Range(u) \subseteq Range(s) \cup Range(t)
    BY <1>2, <1>3, <1>4 DEF u
  <1>6. /\ \A i \in 1 .. Len(s) : i \in 1 .. Len(u)
        /\ \A i \in 1 .. Len(t) : Len(s) + i \in 1 .. Len(u)
    BY <1>1 DEF u
  <1>7. Range(s) \cup Range(t) \subseteq Range(u)
    BY <1>2, <1>3, <1>6 DEF u
  <1>. QED
    BY <1>5, <1>7 DEF u

LEMMA JoinedRange ==
  ASSUME NEW X, NEW lists \in Seq(Seq(X))
  PROVE  \A x : x \in Range(Joined(lists)) <=> \E i \in 1 .. Len(lists) : x \in Range(lists[i])
  <1>1. PICK h : JoinsUp(h, lists, X) /\ Joined(lists) = h[Len(lists)]
    BY JoinedRuns
  <1>. DEFINE n == Len(lists)
              T == {i \in 0 .. n : \A x : x \in Range(h[i]) <=> \E k \in 1 .. i : x \in Range(lists[k])}
  <1>2. n \in Nat /\ \A i \in 1 .. n : lists[i] \in Seq(X)
    OBVIOUS
  <1>3. 0 \in T
    <2>1. Range(<<>>) = {}
      BY DEF Range
    <2>. QED
      BY <1>1, <1>2, <2>1 DEF JoinsUp
  <1>4. ASSUME NEW i \in 1 .. n, i - 1 \in T PROVE i \in T
    <2>1. h[i] = h[i - 1] \o lists[i] /\ h[i - 1] \in Seq(X) /\ lists[i] \in Seq(X)
      <3>1. /\ h \in [0 .. n -> Seq(X)]
            /\ \A k \in 1 .. n : h[k] = h[k - 1] \o lists[k]
        BY <1>1 DEF JoinsUp
      <3>2. i - 1 \in 0 .. n
        BY <1>2
      <3>. HIDE DEF n
      <3>. QED
        BY <1>2, <3>1, <3>2
    <2>2. Range(h[i]) = Range(h[i - 1]) \cup Range(lists[i])
      BY <2>1, RangeJoins
    <2>3. i \in 0 .. n /\ i \in 1 .. i /\ \A k \in 1 .. i : k \in 1 .. (i - 1) \/ k = i
      BY <1>2
    <2>4. \A k \in 1 .. (i - 1) : k \in 1 .. i
      BY <1>2
    <2>. QED
      BY <1>4, <2>2, <2>3, <2>4
  <1>5. n \in T
    <2>. HIDE DEF n, T
    <2>1. 0 .. n \subseteq T
      BY <1>2, <1>3, <1>4, BoundedInduction
    <2>. QED
      BY <1>2, <2>1
  <1>. QED
    BY <1>1, <1>5

\* A filter goes through the items one by one.
Sifts(f, items, S, X) ==
  /\ f \in [0 .. Len(items) -> Seq(X)] /\ f[0] = <<>>
  /\ \A i \in 1 .. Len(items) :
       f[i] = IF items[i] \in S THEN Append(f[i - 1], items[i]) ELSE f[i - 1]

LEMMA AmongRuns ==
  ASSUME NEW X, NEW items \in Seq(X), NEW S
  PROVE  \E f : Sifts(f, items, S, X) /\ Among(items, S) = f[Len(items)]
  <1>. DEFINE n == Len(items)
              Q == Seq(X)
              Sifted(q, x) == IF x \in S THEN Append(q, x) ELSE q
              step == [i \in 1 .. n |-> [q \in Q |-> Sifted(q, items[i])]]
              Runs(f) == f = [i \in 0 .. n |-> IF i = 0 THEN <<>>
                                               ELSE IF items[i] \in S THEN Append(f[i - 1], items[i])
                                               ELSE f[i - 1]]
  <1>1. n \in Nat /\ \A i \in 1 .. n : items[i] \in X
    OBVIOUS
  <1>2. <<>> \in Q /\ \A q \in Q, x \in X : Sifted(q, x) \in Q
    OBVIOUS
  <1>3. \A q, i : Sifted(q, items[i]) = IF items[i] \in S THEN Append(q, items[i]) ELSE q
    OBVIOUS
  <1>. HIDE DEF n, Q, Sifted
  <1>4. \E f : Runs(f)
    <2>1. \A i \in 1 .. n, q \in Q : step[i][q] = Sifted(q, items[i])
      BY <1>1, <1>2
    <2>2. step \in [1 .. n -> [Q -> Q]]
      BY <1>1, <1>2
    <2>. HIDE DEF step
    <2>3. CanRecur(n, Q, <<>>, step)
      BY <1>1, <1>2, <2>2 DEF CanRecur
    <2>4. PICK f : Recurs(f, n, Q, <<>>, step)
      BY <2>3, RecursionRuns
    <2>5. f \in [0 .. n -> Q] /\ f[0] = <<>> /\ \A i \in 1 .. n : f[i] = step[i][f[i - 1]]
      BY <2>4 DEF Recurs
    <2>6. \A i \in 0 .. n : i # 0 => f[i] = Sifted(f[i - 1], items[i])
      <3>1. \A i \in 0 .. n : i # 0 => i \in 1 .. n /\ i - 1 \in 0 .. n
        BY <1>1
      <3>. QED
        BY <2>1, <2>5, <3>1
    <2>7. ASSUME NEW i \in 0 .. n, i # 0
          PROVE  f[i] = IF items[i] \in S THEN Append(f[i - 1], items[i]) ELSE f[i - 1]
      BY <1>3, <2>6, <2>7
    <2>8. f = [i \in 0 .. n |-> f[i]]
      BY <2>5
    <2>9. \A i \in 0 .. n : f[i] = IF i = 0 THEN <<>>
                                    ELSE IF items[i] \in S THEN Append(f[i - 1], items[i])
                                    ELSE f[i - 1]
      BY <2>5, <2>7
    <2>. QED
      BY <2>8, <2>9
  <1>. DEFINE h == CHOOSE f : Runs(f)
              T == {i \in 0 .. n : h[i] \in Q}
  <1>5. Among(items, S) = h[n]
    BY Zenon DEF Among, n
  <1>6. Runs(h)
    <2>. HIDE DEF Runs
    <2>. QED
      BY <1>4
  <1>. HIDE DEF h
  <1>7. h[0] = <<>> /\ \A i \in 1 .. n : h[i] = Sifted(h[i - 1], items[i])
    <2>1. h[0] = <<>>
      BY <1>1, <1>6
    <2>2. ASSUME NEW i \in 1 .. n PROVE h[i] = Sifted(h[i - 1], items[i])
      <3>1. i \in 0 .. n /\ i # 0
        BY <1>1
      <3>. QED
        BY <1>3, <1>6, <3>1
    <2>. QED
      BY <2>1, <2>2
  <1>8. 0 .. n \subseteq T
    <2>1. 0 \in T
      BY <1>1, <1>2, <1>7
    <2>2. ASSUME NEW i \in 1 .. n, i - 1 \in T PROVE i \in T
      <3>1. i \in 0 .. n /\ items[i] \in X
        BY <1>1
      <3>2. Sifted(h[i - 1], items[i]) \in Q
        BY <1>2, <2>2, <3>1
      <3>. QED
        BY <1>7, <3>1, <3>2
    <2>. HIDE DEF T
    <2>. QED
      BY <1>1, <2>1, <2>2, BoundedInduction
  <1>9. h \in [0 .. n -> Q]
    BY <1>6, <1>8
  <1>. HIDE DEF Runs
  <1>11. Sifts(h, items, S, X)
    BY <1>3, <1>7, <1>9 DEF Sifts, n, Q
  <1>. QED
    BY <1>5, <1>11 DEF n

\* What is kept of two lists, one after the other, is what is kept of each.
LEMMA AmongJoins ==
  ASSUME NEW X, NEW s \in Seq(X), NEW t \in Seq(X), NEW S
  PROVE  Among(s \o t, S) = Among(s, S) \o Among(t, S)
  <1>. DEFINE u == s \o t
              m == Len(s)
              n == Len(t)
  <1>1. m \in Nat /\ n \in Nat /\ u \in Seq(X) /\ Len(u) = m + n
        /\ (\A i \in 1 .. m : u[i] = s[i]) /\ (\A i \in 1 .. n : u[m + i] = t[i])
        /\ (\A i \in 1 .. n : t[i] \in X)
    OBVIOUS
  <1>. HIDE DEF u, m, n
  <1>2. PICK f : Sifts(f, s, S, X) /\ Among(s, S) = f[m]
    BY AmongRuns DEF m
  <1>3. PICK g : Sifts(g, t, S, X) /\ Among(t, S) = g[n]
    BY AmongRuns DEF n
  <1>4. PICK h : Sifts(h, u, S, X) /\ Among(u, S) = h[m + n]
    <2>1. \E h : Sifts(h, u, S, X) /\ Among(u, S) = h[Len(u)]
      BY <1>1, AmongRuns
    <2>. QED
      BY <1>1, <2>1
  <1>5. /\ f[0] = <<>> /\ \A i \in 1 .. m : f[i] = IF s[i] \in S THEN Append(f[i - 1], s[i]) ELSE f[i - 1]
        /\ \A i \in 0 .. m : f[i] \in Seq(X)
    BY <1>2 DEF Sifts, m
  <1>6. /\ g[0] = <<>> /\ \A i \in 1 .. n : g[i] = IF t[i] \in S THEN Append(g[i - 1], t[i]) ELSE g[i - 1]
        /\ \A i \in 0 .. n : g[i] \in Seq(X)
    BY <1>3 DEF Sifts, n
  <1>7. /\ h[0] = <<>>
        /\ \A i \in 1 .. (m + n) : h[i] = IF u[i] \in S THEN Append(h[i - 1], u[i]) ELSE h[i - 1]
    BY <1>1, <1>4 DEF Sifts
  <1>. DEFINE T == {i \in 0 .. m : h[i] = f[i]}
              U == {i \in 0 .. n : h[m + i] = f[m] \o g[i]}
  <1>8. m \in T
    <2>1. 0 \in T
      BY <1>1, <1>5, <1>7
    <2>2. ASSUME NEW i \in 1 .. m, i - 1 \in T PROVE i \in T
      <3>1. i \in 0 .. m /\ i \in 1 .. (m + n) /\ u[i] = s[i] /\ h[i - 1] = f[i - 1]
        BY <1>1, <2>2
      <3>. QED
        BY <1>5, <1>7, <3>1
    <2>. HIDE DEF T
    <2>3. 0 .. m \subseteq T
      BY <1>1, <2>1, <2>2, BoundedInduction
    <2>. QED
      BY <1>1, <2>3
  <1>9. f[m] \in Seq(X)
    BY <1>1, <1>5
  <1>10. ASSUME NEW a \in Seq(X), NEW b \in Seq(X), NEW x \in X
         PROVE  Append(a \o b, x) = a \o Append(b, x)
    <2>1. <<x>> \in Seq(X) /\ a \o b \in Seq(X)
      OBVIOUS
    <2>2. Append(a \o b, x) = (a \o b) \o <<x>> /\ Append(b, x) = b \o <<x>>
      BY <2>1, AppendIsConcat
    <2>3. (a \o b) \o <<x>> = a \o (b \o <<x>>)
      BY <2>1, ConcatAssociative
    <2>. QED
      BY <2>2, <2>3
  <1>11. n \in U
    <2>1. 0 \in U
      <3>1. f[m] \o <<>> = f[m]
        BY <1>9
      <3>2. m + 0 = m /\ 0 \in 0 .. n
        BY <1>1
      <3>. QED
        BY <1>6, <1>8, <3>1, <3>2
    <2>2. ASSUME NEW i \in 1 .. n, i - 1 \in U PROVE i \in U
      <3>1. /\ i \in 0 .. n /\ i - 1 \in 0 .. n /\ m + i \in 1 .. (m + n) /\ (m + i) - 1 = m + (i - 1)
            /\ u[m + i] = t[i] /\ t[i] \in X
        BY <1>1
      <3>2. h[m + (i - 1)] = f[m] \o g[i - 1] /\ g[i - 1] \in Seq(X)
        BY <1>6, <2>2, <3>1
      <3>3. h[m + i] = IF t[i] \in S THEN Append(h[m + (i - 1)], t[i]) ELSE h[m + (i - 1)]
        BY <1>7, <3>1
      <3>4. g[i] = IF t[i] \in S THEN Append(g[i - 1], t[i]) ELSE g[i - 1]
        BY <1>6
      <3>5. Append(f[m] \o g[i - 1], t[i]) = f[m] \o Append(g[i - 1], t[i])
        BY <1>9, <1>10, <3>1, <3>2
      <3>. QED
        BY <3>1, <3>2, <3>3, <3>4, <3>5
    <2>. HIDE DEF U
    <2>3. 0 .. n \subseteq U
      BY <1>1, <2>1, <2>2, BoundedInduction
    <2>. QED
      BY <1>1, <2>3
  <1>. QED
    BY <1>2, <1>3, <1>4, <1>11 DEF u

\* Sets that agree on the items keep the same.
LEMMA AmongSame ==
  ASSUME NEW X, NEW items \in Seq(X), NEW S, NEW R,
         \A i \in 1 .. Len(items) : items[i] \in S <=> items[i] \in R
  PROVE  Among(items, S) = Among(items, R)
  <1>. DEFINE n == Len(items)
  <1>1. PICK f : Sifts(f, items, S, X) /\ Among(items, S) = f[n]
    BY AmongRuns
  <1>2. PICK g : Sifts(g, items, R, X) /\ Among(items, R) = g[n]
    BY AmongRuns
  <1>3. n \in Nat
    OBVIOUS
  <1>. DEFINE T == {i \in 0 .. n : f[i] = g[i]}
  <1>4. 0 \in T
    BY <1>1, <1>2, <1>3 DEF Sifts
  <1>5. ASSUME NEW i \in 1 .. n, i - 1 \in T PROVE i \in T
    <2>1. i \in 0 .. n /\ f[i - 1] = g[i - 1] /\ (items[i] \in S <=> items[i] \in R)
      BY <1>3, <1>5
    <2>2. f[i] = IF items[i] \in S THEN Append(f[i - 1], items[i]) ELSE f[i - 1]
      BY <1>1 DEF Sifts
    <2>3. g[i] = IF items[i] \in R THEN Append(g[i - 1], items[i]) ELSE g[i - 1]
      BY <1>2 DEF Sifts
    <2>. QED
      BY <2>1, <2>2, <2>3
  <1>6. n \in T
    <2>. HIDE DEF n, T
    <2>1. 0 .. n \subseteq T
      BY <1>3, <1>4, <1>5, BoundedInduction
    <2>. QED
      BY <1>3, <2>1
  <1>. QED
    BY <1>1, <1>2, <1>6

LEMMA StructureFilters ==
  ASSUME NEW s, NEW S
  PROVE  /\ Structure!Among(s, S) = Among(s, S) /\ Structure!Joined(s) = Joined(s)
         /\ Structure!Range(s) = Range(s) /\ Structure!IsInjective(s) = IsInjective(s)
  BY DEF Structure!Among, Among, Structure!Joined, Joined, Structure!Range, Range,
         Structure!IsInjective, IsInjective

---------------------------------------------------------------------------
(* Documents: text. *)

Shown == Structure!Lines \ {"blank"}
Plain == Structure!Lines \ Structure!Headings

LEMMA LinesAre ==
  /\ Structure!Headings = {"one", "two", "three", "references"}
  /\ Shown = {"one", "two", "three", "references", "figure", "table", "text", "equation"}
  /\ Plain = {"figure", "table", "blank", "text", "equation"}
  /\ Structure!Lines = Shown \cup {"blank"}
  /\ \A h \in Structure!Headings : Structure!Level[h] \in 1 .. 3
  BY DEF Shown, Plain, Structure!Lines, Structure!Headings, Structure!Captions, Structure!Level

LEMMA WrittenIs ==
  ASSUME NEW s \in Seq(Structure!Lines)
  PROVE  /\ Structure!Written(s) = Among(s, Shown)
         /\ Structure!Written(s) \in Seq(Shown)
         /\ Range(Structure!Written(s)) = Range(s) \ {"blank"}
  <1>. DEFINE S == {x \in Range(s) : x # "blank"}
  <1>1. Structure!Written(s) = Among(s, S)
    BY StructureFilters DEF Structure!Written, Structure!Those
  <1>2. \A i \in 1 .. Len(s) : s[i] \in Range(s) /\ s[i] \in Structure!Lines
    BY Lists
  <1>3. Among(s, S) = Among(s, Shown)
    <2>1. \A i \in 1 .. Len(s) : s[i] \in S <=> s[i] \in Shown
      BY <1>2 DEF Shown
    <2>. HIDE DEF S
    <2>. QED
      BY <2>1, AmongSame
  <1>4. \A x : x \in Range(Among(s, S)) <=> x \in Range(s) /\ x \in S
    BY AmongIs, Lists
  <1>. DEFINE w == Among(s, S)
  <1>5. w \in Seq(Range(s)) /\ IsList(w) /\ Range(s) \subseteq Structure!Lines
    BY AmongIs, AmongKeeps, Lists
  <1>6. Range(w) = Range(s) \ {"blank"}
    BY <1>4
  <1>. HIDE DEF w
  <1>7. w \in Seq(Shown)
    <2>1. Len(w) \in Nat /\ \A i \in 1 .. Len(w) : w[i] \in Range(w)
      BY <1>5, Lists DEF IsList
    <2>2. \A i \in 1 .. Len(w) : w[i] \in Shown
      BY <1>5, <1>6, <2>1 DEF Shown
    <2>3. w = [i \in 1 .. Len(w) |-> w[i]]
      BY <1>5
    <2>. QED
      BY <2>1, <2>2, <2>3
  <1>. QED
    BY <1>1, <1>3, <1>6, <1>7 DEF w

LEMMA WrittenJoins ==
  ASSUME NEW s \in Seq(Structure!Lines), NEW t \in Seq(Structure!Lines)
  PROVE  Structure!Written(s \o t) = Structure!Written(s) \o Structure!Written(t)
  <1>1. s \o t \in Seq(Structure!Lines)
    OBVIOUS
  <1>2. Among(s \o t, Shown) = Among(s, Shown) \o Among(t, Shown)
    BY AmongJoins
  <1>. QED
    BY <1>1, <1>2, WrittenIs

LEMMA LinesRegroup ==
  ASSUME NEW a \in Seq(Structure!Lines), NEW b \in Seq(Structure!Lines), NEW c \in Seq(Structure!Lines)
  PROVE  (a \o b) \o c = a \o (b \o c)
  BY ConcatAssociative

LEMMA LinesLast ==
  ASSUME NEW n \in Nat,
         NEW lists \in Seq(Seq(Structure!Lines)), Len(lists) = n + 1,
         NEW front \in Seq(Seq(Structure!Lines)), Len(front) = n,
         \A i \in 1 .. n : front[i] = lists[i]
  PROVE  Joined(lists) = Joined(front) \o lists[n + 1]
  <1>1. Len(lists) # 0 /\ Len(front) = Len(lists) - 1 /\ \A i \in 1 .. Len(front) : front[i] = lists[i]
    OBVIOUS
  <1>2. Joined(lists) = Joined(front) \o lists[Len(lists)]
    BY <1>1, JoinedLast
  <1>. QED
    BY <1>2

Opening == [title: Structure!Headings \cup {"Document"}, level: Nat, from: Nat \cup {None},
            to: Nat \cup {None}, paragraphs: Seq(Structure!Paragraph)]
Reading == [error: {None, "text", "images"}, sections: Seq(Opening), pending: Seq(Plain),
            figures: Seq(Structure!Artifact), tables: Seq(Structure!Artifact),
            equations: Seq(Structure!Artifact), images: Nat, chars: Nat, pageChars: Nat]

\* The lines a section stands for, and those of several.
Named(s) == IF s.title = "Document" THEN <<>> ELSE <<s.title>>
Body(s) == Joined([k \in DOMAIN s.paragraphs |-> s.paragraphs[k].text])
SectionText(s) == Named(s) \o Body(s)
TextOf(sections) == Joined([i \in DOMAIN sections |-> SectionText(sections[i])])

LEMMA TextsAre ==
  ASSUME NEW paragraphs \in Seq(Structure!Paragraph)
  PROVE  /\ [k \in DOMAIN paragraphs |-> paragraphs[k].text] \in Seq(Seq(Structure!Lines))
         /\ Len([k \in DOMAIN paragraphs |-> paragraphs[k].text]) = Len(paragraphs)
         /\ DOMAIN paragraphs = 1 .. Len(paragraphs)
  <1>. DEFINE n == Len(paragraphs)
              texts == [k \in 1 .. n |-> paragraphs[k].text]
  <1>1. n \in Nat /\ DOMAIN paragraphs = 1 .. n /\ \A k \in 1 .. n : paragraphs[k] \in Structure!Paragraph
    OBVIOUS
  <1>2. \A k \in 1 .. n : paragraphs[k].text \in Seq(Structure!Lines)
    <2>1. ASSUME NEW q \in Seq(Plain) PROVE q \in Seq(Structure!Lines)
      BY DEF Plain
    <2>. QED
      BY <1>1, <2>1 DEF Structure!Paragraph, Plain
  <1>. HIDE DEF n
  <1>3. texts \in Seq(Seq(Structure!Lines)) /\ Len(texts) = n
    BY <1>1, <1>2
  <1>. QED
    BY <1>1, <1>3 DEF n

LEMMA SectionTextIs ==
  ASSUME NEW s \in Opening
  PROVE  /\ Named(s) \in Seq(Structure!Lines) /\ Body(s) \in Seq(Structure!Lines)
         /\ SectionText(s) \in Seq(Structure!Lines)
  <1>1. s.paragraphs \in Seq(Structure!Paragraph) /\ s.title \in Structure!Headings \cup {"Document"}
    BY DEF Opening
  <1>2. Body(s) \in Seq(Structure!Lines)
    BY <1>1, TextsAre, JoinedIs DEF Body
  <1>3. Named(s) \in Seq(Structure!Lines)
    <2>1. CASE s.title = "Document"
      BY <2>1 DEF Named
    <2>2. CASE s.title # "Document"
      <3>1. s.title \in Structure!Lines
        BY <1>1, <2>2 DEF Structure!Lines
      <3>2. Named(s) = <<s.title>>
        BY <2>2 DEF Named
      <3>. QED
        BY <3>1, <3>2
    <2>. QED
      BY <2>1, <2>2
  <1>4. \A p, q \in Seq(Structure!Lines) : p \o q \in Seq(Structure!Lines)
    OBVIOUS
  <1>. QED
    BY <1>2, <1>3, <1>4 DEF SectionText

LEMMA TextOfIs ==
  ASSUME NEW sections \in Seq(Opening)
  PROVE  /\ [i \in DOMAIN sections |-> SectionText(sections[i])] \in Seq(Seq(Structure!Lines))
         /\ Len([i \in DOMAIN sections |-> SectionText(sections[i])]) = Len(sections)
         /\ DOMAIN sections = 1 .. Len(sections)
         /\ TextOf(sections) \in Seq(Structure!Lines)
  <1>. DEFINE n == Len(sections)
              texts == [i \in 1 .. n |-> SectionText(sections[i])]
  <1>1. n \in Nat /\ DOMAIN sections = 1 .. n /\ \A i \in 1 .. n : sections[i] \in Opening
    OBVIOUS
  <1>2. \A i \in 1 .. n : SectionText(sections[i]) \in Seq(Structure!Lines)
    BY <1>1, SectionTextIs
  <1>. HIDE DEF n
  <1>3. texts \in Seq(Seq(Structure!Lines)) /\ Len(texts) = n
    BY <1>1, <1>2
  <1>4. Joined(texts) \in Seq(Structure!Lines)
    <2>. HIDE DEF texts
    <2>. QED
      BY <1>3, JoinedIs
  <1>. QED
    BY <1>1, <1>3, <1>4 DEF n, TextOf

\* One more section is its lines after the others.
LEMMA TextOfMore ==
  ASSUME NEW sections \in Seq(Opening), NEW s \in Opening
  PROVE  TextOf(Append(sections, s)) = TextOf(sections) \o SectionText(s)
  <1>. DEFINE all == Append(sections, s)
              A == [i \in DOMAIN all |-> SectionText(all[i])]
              B == [i \in DOMAIN sections |-> SectionText(sections[i])]
              n == Len(sections)
  <1>1. /\ n \in Nat /\ all \in Seq(Opening) /\ Len(all) = n + 1 /\ all[n + 1] = s
        /\ \A i \in 1 .. n : all[i] = sections[i]
    OBVIOUS
  <1>. HIDE DEF all, n
  <1>2. /\ A \in Seq(Seq(Structure!Lines)) /\ Len(A) = n + 1 /\ DOMAIN all = 1 .. (n + 1)
        /\ B \in Seq(Seq(Structure!Lines)) /\ Len(B) = n /\ DOMAIN sections = 1 .. n
    BY <1>1, TextOfIs DEF n
  <1>3. (\A i \in 1 .. n : B[i] = A[i]) /\ A[n + 1] = SectionText(s)
    BY <1>1, <1>2
  <1>4. TextOf(all) = Joined(A) /\ TextOf(sections) = Joined(B)
    BY DEF TextOf
  <1>. HIDE DEF A, B
  <1>5. Joined(A) = Joined(B) \o A[n + 1]
    BY <1>1, <1>2, <1>3, LinesLast
  <1>. QED
    BY <1>2, <1>3, <1>4, <1>5 DEF all

\* Lines more in the last section are lines more in all.
LEMMA TextOfGrown ==
  ASSUME NEW sections \in Seq(Opening), NEW grown \in Seq(Opening),
         NEW n \in Nat \ {0}, Len(sections) = n, Len(grown) = n,
         \A i \in 1 .. (n - 1) : grown[i] = sections[i],
         NEW text \in Seq(Structure!Lines),
         SectionText(grown[n]) = SectionText(sections[n]) \o text
  PROVE  TextOf(grown) = TextOf(sections) \o text
  <1>. DEFINE A == [i \in DOMAIN grown |-> SectionText(grown[i])]
              B == [i \in DOMAIN sections |-> SectionText(sections[i])]
              C == [i \in 1 .. (n - 1) |-> B[i]]
  <1>1. /\ A \in Seq(Seq(Structure!Lines)) /\ Len(A) = n /\ DOMAIN grown = 1 .. n
        /\ B \in Seq(Seq(Structure!Lines)) /\ Len(B) = n /\ DOMAIN sections = 1 .. n
    BY TextOfIs
  <1>2. (\A i \in 1 .. (n - 1) : B[i] = A[i]) /\ A[n] = B[n] \o text
    <2>1. \A i \in 1 .. n : A[i] = SectionText(grown[i]) /\ B[i] = SectionText(sections[i])
      BY <1>1
    <2>2. n \in 1 .. n /\ \A i \in 1 .. (n - 1) : i \in 1 .. n
      OBVIOUS
    <2>. HIDE DEF A, B
    <2>. QED
      BY <2>1, <2>2
  <1>3. TextOf(grown) = Joined(A) /\ TextOf(sections) = Joined(B)
    BY DEF TextOf
  <1>. HIDE DEF A, B
  <1>4. /\ C \in Seq(Seq(Structure!Lines)) /\ Len(C) = n - 1
        /\ \A i \in 1 .. (n - 1) : C[i] = B[i] /\ C[i] = A[i]
    <2>1. \A i \in 1 .. (n - 1) : B[i] \in Seq(Structure!Lines)
      BY <1>1
    <2>2. n - 1 \in Nat
      OBVIOUS
    <2>. QED
      BY <1>2, <2>1, <2>2
  <1>. HIDE DEF C
  <1>5. Joined(A) = Joined(C) \o A[n] /\ Joined(B) = Joined(C) \o B[n]
    <2>1. n - 1 \in Nat /\ (n - 1) + 1 = n
      OBVIOUS
    <2>. QED
      BY <1>1, <1>4, <2>1, LinesLast, ZenonT(60)
  <1>6. Joined(C) \in Seq(Structure!Lines) /\ B[n] \in Seq(Structure!Lines)
    BY <1>1, <1>4, JoinedIs
  <1>7. (Joined(C) \o B[n]) \o text = Joined(C) \o (B[n] \o text)
    BY <1>6, LinesRegroup
  <1>. QED
    BY <1>2, <1>3, <1>5, <1>6, <1>7

\* One more paragraph is its lines more in its section.
LEMMA SectionTextMore ==
  ASSUME NEW s \in Opening, NEW p \in Structure!Paragraph, NEW t \in Opening,
         t.title = s.title, t.paragraphs = Append(s.paragraphs, p)
  PROVE  SectionText(t) = SectionText(s) \o p.text
  <1>. DEFINE old == s.paragraphs
              new == t.paragraphs
              A == [k \in DOMAIN new |-> new[k].text]
              B == [k \in DOMAIN old |-> old[k].text]
              n == Len(old)
  <1>1. old \in Seq(Structure!Paragraph) /\ new \in Seq(Structure!Paragraph) /\ new = Append(old, p)
    BY DEF Opening
  <1>. HIDE DEF old, new
  <1>2. n \in Nat /\ Len(new) = n + 1 /\ new[n + 1] = p /\ \A i \in 1 .. n : new[i] = old[i]
    BY <1>1
  <1>. HIDE DEF n
  <1>3. /\ A \in Seq(Seq(Structure!Lines)) /\ Len(A) = n + 1 /\ DOMAIN new = 1 .. (n + 1)
        /\ B \in Seq(Seq(Structure!Lines)) /\ Len(B) = n /\ DOMAIN old = 1 .. n
    BY <1>1, <1>2, TextsAre DEF n
  <1>4. (\A i \in 1 .. n : B[i] = A[i]) /\ A[n + 1] = p.text
    BY <1>2, <1>3
  <1>5. Body(t) = Joined(A) /\ Body(s) = Joined(B)
    BY DEF Body, old, new
  <1>. HIDE DEF A, B
  <1>6. Joined(A) = Joined(B) \o A[n + 1]
    BY <1>2, <1>3, <1>4, LinesLast
  <1>7. Body(t) = Body(s) \o p.text
    BY <1>3, <1>4, <1>5, <1>6
  <1>8. Named(s) \in Seq(Structure!Lines) /\ Body(s) \in Seq(Structure!Lines) /\ p.text \in Seq(Structure!Lines)
    <2>1. A[n + 1] \in Seq(Structure!Lines)
      BY <1>2, <1>3
    <2>. QED
      BY <1>4, <2>1, SectionTextIs
  <1>9. (Named(s) \o Body(s)) \o p.text = Named(s) \o (Body(s) \o p.text)
    BY <1>8, LinesRegroup
  <1>10. Named(t) = Named(s)
    BY DEF Named
  <1>. QED
    BY <1>7, <1>8, <1>9, <1>10 DEF SectionText

---------------------------------------------------------------------------
(* Documents: the parser, line by line. *)

Started(s, p) ==
  /\ s.from \in Nat /\ s.to \in Nat /\ 1 <= s.from /\ s.from <= s.to /\ s.to <= p
  /\ \A k \in 1 .. Len(s.paragraphs) : s.paragraphs[k].page \in s.from .. s.to
Untouched(s) == s.paragraphs = <<>> /\ s.from = None /\ s.to = None
Worded(s) == \A k \in 1 .. Len(s.paragraphs) : s.paragraphs[k].text # <<>>

\* The sections after some lines, the last of them on page p.
Placed(sections, p) ==
  /\ sections \in Seq(Opening) /\ Len(sections) # 0
  /\ \A i \in 1 .. Len(sections) :
       /\ sections[i].title = "Document" <=> i = 1
       /\ Worded(sections[i])
       /\ Started(sections[i], p) \/ (i = 1 /\ Untouched(sections[i]))
  /\ \A i \in 2 .. Len(sections) :
       sections[i - 1].to = None \/ sections[i - 1].to <= sections[i].from

\* What is read of the lines shown so far is in the sections or pending.
LineFits(r, shown, p) ==
  r \in Reading /\ Placed(r.sections, p) /\ TextOf(r.sections) \o r.pending = shown
SameBut(r, q) ==
  /\ q.error = r.error /\ q.figures = r.figures /\ q.tables = r.tables /\ q.equations = r.equations
  /\ q.images = r.images /\ q.chars = r.chars /\ q.pageChars = r.pageChars

\* A section with one more paragraph.
Grown(s, text, p) ==
  [s EXCEPT !.paragraphs = Append(@, [text |-> text, page |-> p]),
            !.from = IF @ = None THEN p ELSE @,
            !.to = p]

LEMMA GrownIs ==
  ASSUME NEW s \in Opening, NEW text \in Seq(Plain), text # <<>>, NEW p \in Nat \ {0},
         Worded(s), Started(s, p) \/ Untouched(s)
  PROVE  LET g == Grown(s, text, p)
         IN  /\ g \in Opening /\ g.title = s.title /\ Worded(g) /\ Started(g, p)
             /\ s.from # None => g.from = s.from
             /\ s.from = None => Untouched(s)
             /\ SectionText(g) = SectionText(s) \o text
  <1>. DEFINE new == [text |-> text, page |-> p]
              more == Append(s.paragraphs, new)
              from == IF s.from = None THEN p ELSE s.from
              n == Len(s.paragraphs)
              h == Grown(s, text, p)
  <1>1. new \in Structure!Paragraph /\ new.text = text /\ new.page = p
    BY DEF Structure!Paragraph, Plain
  <1>2. s.paragraphs \in Seq(Structure!Paragraph) /\ s.from \in Nat \cup {None}
        /\ s = [title |-> s.title, level |-> s.level, from |-> s.from, to |-> s.to,
                paragraphs |-> s.paragraphs]
    BY DEF Opening
  <1>. HIDE DEF new
  <1>3. /\ more \in Seq(Structure!Paragraph) /\ Len(more) = n + 1 /\ more[n + 1] = new /\ n \in Nat
        /\ \A k \in 1 .. n : more[k] = s.paragraphs[k]
    BY <1>1, <1>2
  <1>4. /\ h.title = s.title /\ h.level = s.level /\ h.from = from /\ h.to = p /\ h.paragraphs = more
        /\ (more \in Seq(Structure!Paragraph) /\ from \in Nat => h \in Opening)
    <2>. HIDE DEF more, from
    <2>1. h = [s EXCEPT !.paragraphs = more, !.from = from, !.to = p]
      BY DEF Grown, more, from, new
    <2>. HIDE DEF h
    <2>. QED
      BY <2>1 DEF Opening
  <1>5. from \in Nat /\ 1 <= from /\ from <= p /\ (s.from # None => from = s.from)
    BY UsersAssumption DEF Started, Untouched
  <1>6. s.from = None => Untouched(s)
    BY UsersAssumption DEF Started
  <1>7. \A k \in 1 .. (n + 1) : k = n + 1 \/ k \in 1 .. n
    BY <1>3
  <1>. HIDE DEF more, from
  <1>. HIDE DEF h
  <1>8. h \in Opening
    BY <1>3, <1>4, <1>5
  <1>9. Worded(h)
    <2>1. \A k \in 1 .. n : more[k].text # <<>>
      BY <1>3 DEF Worded
    <2>. HIDE DEF n
    <2>. QED
      BY <1>1, <1>3, <1>7, <1>4, <2>1 DEF Worded
  <1>10. Started(h, p)
    <2>1. \A k \in 1 .. n : more[k].page \in from .. p
      <3>1. CASE Untouched(s)
        <4>1. n = 0
          BY <3>1 DEF Untouched
        <4>. QED
          BY <4>1
      <3>2. CASE Started(s, p)
        <4>1. from = s.from
          BY <1>5, <3>2, UsersAssumption DEF Started
        <4>. QED
          BY <1>3, <3>2, <4>1, SMTT(60) DEF Started
      <3>. QED
        BY <3>1, <3>2
    <2>. HIDE DEF n
    <2>2. \A k \in 1 .. (n + 1) : more[k].page \in from .. p
      BY <1>1, <1>3, <1>5, <1>7, <2>1
    <2>. QED
      BY <1>3, <1>5, <1>4, <2>2 DEF Started
  <1>11. SectionText(h) = SectionText(s) \o text
    <2>1. h.paragraphs = Append(s.paragraphs, new)
      BY <1>4 DEF more
    <2>. QED
      BY <1>1, <1>4, <1>8, <2>1, SectionTextMore
  <1>. QED
    BY <1>4, <1>5, <1>6, <1>8, <1>9, <1>10, <1>11 DEF h

LEMMA FlushedFits ==
  ASSUME NEW r, NEW shown, NEW p \in Nat \ {0}, LineFits(r, shown, p)
  PROVE  /\ LineFits(Structure!Flushed(r, p), shown, p)
         /\ Structure!Flushed(r, p).pending = <<>>
         /\ SameBut(r, Structure!Flushed(r, p))
  <1>. DEFINE n == Len(r.sections)
              s == r.sections[n]
              g == Grown(s, r.pending, p)
              grown == [r.sections EXCEPT ![n] = g]
              q == Structure!Flushed(r, p)
  <1>1. r \in Reading /\ Placed(r.sections, p) /\ TextOf(r.sections) \o r.pending = shown
    BY DEF LineFits
  <1>2. CASE r.pending = <<>>
    <2>1. q = r
      BY <1>2 DEF Structure!Flushed
    <2>. QED
      BY <1>1, <1>2, <2>1 DEF LineFits, SameBut
  <1>3. CASE r.pending # <<>>
    <2>1. q = [r EXCEPT !.pending = <<>>, !.sections = grown]
      BY <1>3 DEF Structure!Flushed, Grown
    <2>2. r.sections \in Seq(Opening) /\ n \in Nat \ {0} /\ n \in 1 .. n /\ s \in Opening
          /\ r.pending \in Seq(Plain)
      BY <1>1 DEF Reading, Placed
    <2>3. Worded(s) /\ (Started(s, p) \/ Untouched(s))
      BY <1>1, <2>2 DEF Placed
    <2>4. /\ g \in Opening /\ g.title = s.title /\ Worded(g) /\ Started(g, p)
          /\ s.from # None => g.from = s.from
          /\ s.from = None => Untouched(s)
          /\ SectionText(g) = SectionText(s) \o r.pending
      BY <1>3, <2>2, <2>3, GrownIs
    <2>. HIDE DEF g
    <2>5. /\ grown \in Seq(Opening) /\ Len(grown) = n /\ grown[n] = g
          /\ \A i \in 1 .. n : i # n => grown[i] = r.sections[i]
      BY <2>2, <2>4
    <2>. HIDE DEF grown, n
    <2>6. TextOf(grown) = shown
      <3>1. r.pending \in Seq(Structure!Lines)
        <4>1. \A t \in Seq(Plain) : t \in Seq(Structure!Lines)
          BY DEF Plain
        <4>. QED
          BY <2>2, <4>1
      <3>2. TextOf(grown) = TextOf(r.sections) \o r.pending
        <4>1. Len(r.sections) = n /\ \A i \in 1 .. (n - 1) : grown[i] = r.sections[i]
          BY <2>2, <2>5 DEF n
        <4>2. SectionText(grown[n]) = SectionText(r.sections[n]) \o r.pending
          BY <2>4, <2>5
        <4>. QED
          BY <2>2, <2>5, <3>1, <4>1, <4>2, TextOfGrown, ZenonT(60)
      <3>. QED
        BY <1>1, <3>2
    <2>7. Placed(grown, p)
      <3>1. ASSUME NEW i \in 1 .. n
            PROVE  /\ grown[i].title = "Document" <=> i = 1
                   /\ Worded(grown[i])
                   /\ Started(grown[i], p) \/ (i = 1 /\ Untouched(grown[i]))
        <4>1. /\ r.sections[i].title = "Document" <=> i = 1
              /\ Worded(r.sections[i])
              /\ Started(r.sections[i], p) \/ (i = 1 /\ Untouched(r.sections[i]))
          BY <1>1 DEF Placed, n
        <4>2. CASE i = n
          BY <2>4, <2>5, <4>1, <4>2
        <4>3. CASE i # n
          BY <2>5, <4>1, <4>3
        <4>. QED
          BY <4>2, <4>3
      <3>2. ASSUME NEW i \in 2 .. n
            PROVE  grown[i - 1].to = None \/ grown[i - 1].to <= grown[i].from
        <4>1. i \in 1 .. n /\ i - 1 \in 1 .. n /\ i - 1 # n /\ i # 1
          BY <2>2
        <4>2. r.sections[i - 1].to = None \/ r.sections[i - 1].to <= r.sections[i].from
          BY <1>1 DEF Placed, n
        <4>3. Started(r.sections[i], p)
          BY <1>1, <4>1 DEF Placed, n
        <4>4. r.sections[i].from # None
          BY <4>3, UsersAssumption DEF Started
        <4>5. grown[i].from = r.sections[i].from
          BY <2>4, <2>5, <4>1, <4>4
        <4>. QED
          BY <2>5, <4>1, <4>2, <4>5
      <3>. QED
        BY <2>2, <2>5, <3>1, <3>2 DEF Placed
    <2>8. /\ q \in Reading /\ q.pending = <<>> /\ q.sections = grown /\ SameBut(r, q)
      <3>1. q.pending = <<>> /\ q.sections = grown /\ SameBut(r, q)
        BY <1>1, <2>1 DEF Reading, SameBut
      <3>2. <<>> \in Seq(Plain)
        OBVIOUS
      <3>3. q \in Reading
        BY <1>1, <2>1, <2>5, <3>2 DEF Reading
      <3>. QED
        BY <3>1, <3>3
    <2>9. TextOf(grown) \o <<>> = TextOf(grown)
      BY <2>5, TextOfIs
    <2>. HIDE DEF q
    <2>10. LineFits(q, shown, p)
      BY <2>6, <2>7, <2>8, <2>9 DEF LineFits
    <2>. QED
      BY <2>8, <2>10 DEF q
  <1>. QED
    BY <1>2, <1>3

\* A recursion whose steps lead from set to set stays in them.
Leads(n, U, fits, base, next) ==
  /\ n \in Nat /\ fits \in [0 .. n -> SUBSET U] /\ base \in fits[0]
  /\ next \in [1 .. n -> [U -> U]]
  /\ \A i \in 1 .. n : \A x \in fits[i - 1] : next[i][x] \in fits[i]
Follows(f, n, fits, base, next) ==
  f[0] = base /\ \A i \in 1 .. n : f[i - 1] \in fits[i - 1] => f[i] = next[i][f[i - 1]]
Stays(f, n, fits) == \A i \in 0 .. n : f[i] \in fits[i]

LEMMA FollowsStays ==
  ASSUME NEW n, NEW U, NEW fits, NEW base, NEW next, Leads(n, U, fits, base, next),
         NEW f, Follows(f, n, fits, base, next)
  PROVE  Stays(f, n, fits)
  <1>. DEFINE T == {i \in 0 .. n : f[i] \in fits[i]}
  <1>1. n \in Nat /\ 0 \in T
    BY DEF Leads, Follows
  <1>2. ASSUME NEW i \in 1 .. n, i - 1 \in T PROVE i \in T
    <2>1. i \in 0 .. n /\ f[i - 1] \in fits[i - 1]
      BY <1>1, <1>2
    <2>2. f[i] = next[i][f[i - 1]] /\ next[i][f[i - 1]] \in fits[i]
      BY <2>1 DEF Leads, Follows
    <2>. QED
      BY <2>1, <2>2
  <1>3. 0 .. n \subseteq T
    <2>. HIDE DEF T
    <2>. QED
      BY <1>1, <1>2, BoundedInduction
  <1>. QED
    BY <1>3 DEF Stays

LEMMA LeadsRuns ==
  ASSUME NEW n, NEW U, NEW fits, NEW base, NEW next, Leads(n, U, fits, base, next)
  PROVE  \E f : Recurs(f, n, U, base, next) /\ Stays(f, n, fits)
  <1>1. base \in U
    BY 0 \in 0 .. n DEF Leads
  <1>2. CanRecur(n, U, base, next)
    BY <1>1 DEF CanRecur, Leads
  <1>3. PICK f : Recurs(f, n, U, base, next)
    BY <1>2, RecursionRuns
  <1>4. Follows(f, n, fits, base, next)
    BY <1>3 DEF Recurs, Follows
  <1>. QED
    BY <1>3, <1>4, FollowsStays

LEMMA LinesAppend ==
  ASSUME NEW a \in Seq(Structure!Lines), NEW b \in Seq(Structure!Lines), NEW x \in Structure!Lines
  PROVE  Append(a \o b, x) = a \o Append(b, x) /\ Append(a, x) = a \o <<x>>
  <1>1. <<x>> \in Seq(Structure!Lines) /\ a \o b \in Seq(Structure!Lines)
    OBVIOUS
  <1>2. /\ Append(a \o b, x) = (a \o b) \o <<x>> /\ Append(b, x) = b \o <<x>>
        /\ Append(a, x) = a \o <<x>>
    BY <1>1, AppendIsConcat
  <1>3. (a \o b) \o <<x>> = a \o (b \o <<x>>)
    BY <1>1, LinesRegroup
  <1>. QED
    BY <1>2, <1>3

LEMMA OpenedIs ==
  ASSUME NEW line \in Structure!Headings, NEW p \in Nat \ {0}
  PROVE  LET s == Structure!Opened(line, Structure!Level[line], p)
         IN  /\ s \in Opening /\ s.title # "Document" /\ s.from = p
             /\ Worded(s) /\ Started(s, p) /\ SectionText(s) = <<line>>
  <1>. DEFINE s == Structure!Opened(line, Structure!Level[line], p)
  <1>1. s.title = line /\ s.from = p /\ s.to = p /\ s.paragraphs = <<>>
    BY DEF Structure!Opened
  <1>2. s \in Opening
    <2>1. Structure!Level[line] \in Nat /\ <<>> \in Seq(Structure!Paragraph)
      BY LinesAre
    <2>. QED
      BY <2>1 DEF Opening, Structure!Opened
  <1>. HIDE DEF s
  <1>3. line # "Document" /\ line \in Structure!Lines
    BY LinesAre DEF Shown
  <1>4. Worded(s) /\ Started(s, p)
    BY <1>1 DEF Worded, Started
  <1>5. SectionText(s) = <<line>>
    <2>1. Named(s) = <<line>>
      BY <1>1, <1>3 DEF Named
    <2>2. [k \in DOMAIN s.paragraphs |-> s.paragraphs[k].text] = <<>>
      BY <1>1
    <2>3. Body(s) = <<>>
      BY <2>2, JoinedIs, <<>> \in Seq(Seq(Structure!Lines)) DEF Body
    <2>4. <<line>> \o <<>> = <<line>>
      OBVIOUS
    <2>. QED
      BY <2>1, <2>3, <2>4 DEF SectionText
  <1>. QED
    BY <1>1, <1>2, <1>3, <1>4, <1>5 DEF s

\* A line shown is one line more.
LEMMA ReadLineFits ==
  ASSUME NEW r, NEW shown \in Seq(Structure!Lines), NEW p \in Nat \ {0}, LineFits(r, shown, p),
         NEW line \in Structure!Lines
  PROVE  /\ LineFits(Structure!ReadLine(r, line, p),
                     IF line \in Shown THEN Append(shown, line) ELSE shown, p)
         /\ SameBut(r, Structure!ReadLine(r, line, p))
  <1>. DEFINE q == Structure!Flushed(r, p)
              next == Structure!ReadLine(r, line, p)
  <1>1. LineFits(q, shown, p) /\ q.pending = <<>> /\ SameBut(r, q)
    BY FlushedFits
  <1>2. CASE line = "blank"
    <2>1. next = q /\ line \notin Shown
      <3>1. line \notin Structure!Headings /\ line \notin Shown
        BY <1>2, LinesAre
      <3>. QED
        BY <1>2, <3>1 DEF Structure!ReadLine
    <2>. QED
      BY <1>1, <2>1
  <1>3. CASE line \in Structure!Headings
    <2>. DEFINE s == Structure!Opened(line, Structure!Level[line], p)
                all == Append(q.sections, s)
                n == Len(q.sections)
    <2>1. line \in Shown /\ line # "blank"
      BY <1>3, LinesAre
    <2>2. next = [q EXCEPT !.sections = all]
      BY <1>3, <2>1 DEF Structure!ReadLine
    <2>3. /\ s \in Opening /\ s.title # "Document" /\ s.from = p
          /\ Worded(s) /\ Started(s, p) /\ SectionText(s) = <<line>>
      BY <1>3, OpenedIs
    <2>. HIDE DEF s, q
    <2>4. q \in Reading /\ Placed(q.sections, p) /\ TextOf(q.sections) \o <<>> = shown
      BY <1>1 DEF LineFits
    <2>5. q.sections \in Seq(Opening) /\ n \in Nat /\ n # 0
      BY <2>4 DEF Placed
    <2>6. /\ all \in Seq(Opening) /\ Len(all) = n + 1 /\ all[n + 1] = s
          /\ \A i \in 1 .. n : all[i] = q.sections[i]
      BY <2>3, <2>5
    <2>7. TextOf(all) = Append(shown, line)
      <3>1. TextOf(q.sections) = shown
        BY <2>4, <2>5, TextOfIs
      <3>2. TextOf(all) = shown \o <<line>>
        BY <2>3, <2>5, <3>1, TextOfMore
      <3>. QED
        BY <3>2, LinesAppend
    <2>. HIDE DEF all, n
    <2>8. Placed(all, p)
      <3>1. \A i \in 1 .. (n + 1) : i = n + 1 \/ i \in 1 .. n
        BY <2>5
      <3>2. \A i \in 1 .. n : /\ q.sections[i].title = "Document" <=> i = 1
                              /\ Worded(q.sections[i])
                              /\ Started(q.sections[i], p) \/ (i = 1 /\ Untouched(q.sections[i]))
        BY <2>4 DEF Placed, n
      <3>3. \A i \in 1 .. (n + 1) : /\ all[i].title = "Document" <=> i = 1
                                    /\ Worded(all[i])
                                    /\ Started(all[i], p) \/ (i = 1 /\ Untouched(all[i]))
        BY <2>3, <2>5, <2>6, <3>1, <3>2
      <3>4. ASSUME NEW i \in 2 .. (n + 1)
            PROVE  all[i - 1].to = None \/ all[i - 1].to <= all[i].from
        <4>1. CASE i = n + 1
          <5>1. n \in 1 .. n /\ i - 1 = n
            BY <2>5, <4>1
          <5>2. q.sections[n].to = None \/ q.sections[n].to <= p
            BY <3>2, <5>1 DEF Started, Untouched
          <5>. QED
            BY <2>3, <2>6, <4>1, <5>1, <5>2
        <4>2. CASE i # n + 1
          <5>1. i \in 2 .. n /\ i \in 1 .. n /\ i - 1 \in 1 .. n
            BY <2>5, <4>2
          <5>2. q.sections[i - 1].to = None \/ q.sections[i - 1].to <= q.sections[i].from
            BY <2>4, <5>1 DEF Placed, n
          <5>. QED
            BY <2>6, <5>1, <5>2
        <4>. QED
          BY <4>1, <4>2
      <3>. QED
        BY <2>5, <2>6, <3>3, <3>4 DEF Placed
    <2>9. /\ next.pending = <<>> /\ next.sections = all /\ SameBut(q, next) /\ next \in Reading
      <3>1. next.pending = <<>> /\ next.sections = all /\ SameBut(q, next)
        BY <1>1, <2>2, <2>4 DEF Reading, SameBut
      <3>2. next \in Reading
        BY <2>2, <2>4, <2>6 DEF Reading
      <3>. QED
        BY <3>1, <3>2
    <2>. HIDE DEF next
    <2>10. TextOf(all) \o <<>> = TextOf(all)
      BY <2>6, TextOfIs
    <2>. QED
      BY <1>1, <2>1, <2>7, <2>8, <2>9, <2>10 DEF LineFits, SameBut, next
  <1>4. CASE line # "blank" /\ line \notin Structure!Headings
    <2>1. line \in Shown /\ line \in Plain
      BY <1>4 DEF Shown, Plain
    <2>2. next = [r EXCEPT !.pending = Append(@, line)]
      BY <1>4 DEF Structure!ReadLine
    <2>3. r \in Reading /\ Placed(r.sections, p) /\ TextOf(r.sections) \o r.pending = shown
      BY DEF LineFits
    <2>4. r.pending \in Seq(Plain) /\ Append(r.pending, line) \in Seq(Plain)
      BY <2>1, <2>3 DEF Reading
    <2>5. /\ next.pending = Append(r.pending, line) /\ next.sections = r.sections
          /\ SameBut(r, next)
      BY <2>2, <2>3 DEF Reading, SameBut
    <2>6. next \in Reading
      BY <2>2, <2>3, <2>4 DEF Reading
    <2>7. TextOf(r.sections) \o Append(r.pending, line) = Append(shown, line)
      <3>1. \A t \in Seq(Plain) : t \in Seq(Structure!Lines)
        BY DEF Plain
      <3>2. r.pending \in Seq(Structure!Lines) /\ TextOf(r.sections) \in Seq(Structure!Lines)
        BY <2>3, <2>4, <3>1, TextOfIs DEF Placed
      <3>. QED
        BY <2>3, <3>2, LinesAppend
    <2>. HIDE DEF next
    <2>. QED
      BY <2>1, <2>3, <2>5, <2>6, <2>7 DEF LineFits, next
  <1>. QED
    BY <1>2, <1>3, <1>4

LEMMA ReadLinesFit ==
  ASSUME NEW r, NEW shown \in Seq(Structure!Lines), NEW p \in Nat \ {0}, LineFits(r, shown, p),
         NEW block \in Seq(Structure!Lines)
  PROVE  /\ LineFits(Structure!ReadLines(r, block, p), shown \o Structure!Written(block), p)
         /\ SameBut(r, Structure!ReadLines(r, block, p))
  <1>. DEFINE n == Len(block)
  <1>1. n \in Nat /\ \A i \in 1 .. n : block[i] \in Structure!Lines
    OBVIOUS
  <1>2. PICK w : Sifts(w, block, Shown, Structure!Lines) /\ Among(block, Shown) = w[n]
    BY AmongRuns
  <1>3. Structure!Written(block) = w[n]
    BY <1>2, WrittenIs
  <1>. HIDE DEF n
  <1>4. /\ w[0] = <<>> /\ \A i \in 0 .. n : w[i] \in Seq(Structure!Lines)
        /\ \A i \in 1 .. n : w[i] = IF block[i] \in Shown THEN Append(w[i - 1], block[i]) ELSE w[i - 1]
    BY <1>2 DEF Sifts, n
  <1>. DEFINE Fit(x, i) == x \in Reading /\ LineFits(x, shown \o w[i], p) /\ SameBut(r, x)
              stage == [i \in 0 .. n |-> {x \in Reading : Fit(x, i)}]
              turn == [i \in 1 .. n |-> [x \in Reading |->
                         IF x \in stage[i - 1] THEN Structure!ReadLine(x, block[i], p) ELSE r]]
              Runs(f) == f = [i \in 0 .. n |-> IF i = 0 THEN r
                                               ELSE Structure!ReadLine(f[i - 1], block[i], p)]
  <1>5. Fit(r, 0)
    <2>1. shown \o <<>> = shown
      OBVIOUS
    <2>. QED
      BY <1>4, <2>1 DEF LineFits, SameBut
  <1>6. ASSUME NEW i \in 1 .. n, NEW x, Fit(x, i - 1)
        PROVE  Fit(Structure!ReadLine(x, block[i], p), i)
    <2>. DEFINE before == shown \o w[i - 1]
                y == Structure!ReadLine(x, block[i], p)
    <2>1. i \in 0 .. n /\ i - 1 \in 0 .. n /\ w[i - 1] \in Seq(Structure!Lines)
          /\ block[i] \in Structure!Lines
      BY <1>1, <1>4
    <2>2. before \in Seq(Structure!Lines)
      BY <2>1
    <2>3. LineFits(x, before, p) /\ SameBut(r, x)
      BY <1>6
    <2>4. shown \o w[i] = IF block[i] \in Shown THEN Append(before, block[i]) ELSE before
      <3>1. Append(before, block[i]) = shown \o Append(w[i - 1], block[i])
        BY <2>1, LinesAppend
      <3>2. w[i] = IF block[i] \in Shown THEN Append(w[i - 1], block[i]) ELSE w[i - 1]
        BY <1>4
      <3>. QED
        BY <3>1, <3>2
    <2>. HIDE DEF before
    <2>5. /\ LineFits(y, IF block[i] \in Shown THEN Append(before, block[i]) ELSE before, p)
          /\ SameBut(x, y)
      BY <2>1, <2>2, <2>3, ReadLineFits
    <2>. HIDE DEF y
    <2>6. LineFits(y, shown \o w[i], p)
      BY <2>4, <2>5
    <2>7. y \in Reading /\ SameBut(r, y)
      BY <2>3, <2>5 DEF LineFits, SameBut
    <2>. QED
      BY <2>6, <2>7 DEF y
  <1>. HIDE DEF Fit
  <1>7. /\ stage \in [0 .. n -> SUBSET Reading] /\ \A i \in 0 .. n : \A x : x \in stage[i] <=> x \in Reading /\ Fit(x, i)
    OBVIOUS
  <1>8. r \in Reading /\ r \in stage[0]
    <2>1. r \in Reading
      BY DEF LineFits
    <2>. QED
      BY <1>1, <1>5, <2>1
  <1>9. \A i \in 1 .. n : \A x \in stage[i - 1] :
          Structure!ReadLine(x, block[i], p) \in Reading /\ Structure!ReadLine(x, block[i], p) \in stage[i]
    <2>. SUFFICES ASSUME NEW i \in 1 .. n, NEW x \in stage[i - 1]
                  PROVE  Structure!ReadLine(x, block[i], p) \in stage[i]
                         /\ Structure!ReadLine(x, block[i], p) \in Reading
      OBVIOUS
    <2>. HIDE DEF stage
    <2>1. i \in 0 .. n /\ i - 1 \in 0 .. n
      BY <1>1
    <2>2. Fit(Structure!ReadLine(x, block[i], p), i)
      BY <1>6, <1>7, <2>1
    <2>. QED
      BY <1>7, <2>1, <2>2 DEF Fit
  <1>. HIDE DEF stage
  <1>10. /\ turn \in [1 .. n -> [Reading -> Reading]]
         /\ \A i \in 1 .. n : \A x \in stage[i - 1] : turn[i][x] = Structure!ReadLine(x, block[i], p)
    <2>1. turn \in [1 .. n -> [Reading -> Reading]]
      BY <1>8, <1>9
    <2>2. ASSUME NEW i \in 1 .. n, NEW x \in stage[i - 1]
          PROVE  turn[i][x] = Structure!ReadLine(x, block[i], p)
      <3>1. x \in Reading
        BY <1>1, <1>7
      <3>. QED
        BY <3>1
    <2>. QED
      BY <2>1, <2>2
  <1>. HIDE DEF turn
  <1>11. Leads(n, Reading, stage, r, turn)
    <2>1. \A i \in 1 .. n : \A x \in stage[i - 1] : turn[i][x] \in stage[i]
      BY <1>9, <1>10
    <2>. QED
      BY <1>1, <1>7, <1>8, <1>10, <2>1 DEF Leads
  <1>12. \E f : Runs(f)
    <2>1. PICK f : Recurs(f, n, Reading, r, turn) /\ Stays(f, n, stage)
      BY <1>11, LeadsRuns, Zenon
    <2>2. f \in [0 .. n -> Reading] /\ f[0] = r /\ \A i \in 1 .. n : f[i] = turn[i][f[i - 1]]
      BY <2>1 DEF Recurs
    <2>3. \A i \in 1 .. n : f[i] = Structure!ReadLine(f[i - 1], block[i], p)
      <3>1. \A i \in 1 .. n : f[i - 1] \in stage[i - 1]
        BY <1>1, <2>1 DEF Stays
      <3>. QED
        BY <1>10, <2>2, <3>1
    <2>4. \A i \in 0 .. n : i # 0 => i \in 1 .. n
      BY <1>1
    <2>. QED
      BY <2>2, <2>3, <2>4, ZenonT(60)
  <1>. DEFINE h == CHOOSE f : Runs(f)
  <1>13. Structure!ReadLines(r, block, p) = h[n]
    BY Zenon DEF Structure!ReadLines, n
  <1>14. Runs(h)
    <2>. HIDE DEF Runs
    <2>. QED
      BY <1>12
  <1>. HIDE DEF h
  <1>15. h[0] = r /\ \A i \in 1 .. n : h[i] = Structure!ReadLine(h[i - 1], block[i], p)
    <2>1. 0 \in 0 .. n /\ \A i \in 1 .. n : i \in 0 .. n /\ i # 0
      BY <1>1
    <2>. QED
      BY <1>14, <2>1
  <1>16. h[n] \in stage[n]
    <2>1. Follows(h, n, stage, r, turn)
      BY <1>10, <1>15 DEF Follows
    <2>2. Stays(h, n, stage)
      BY <1>11, <2>1, FollowsStays, Zenon
    <2>. QED
      BY <1>1, <2>2 DEF Stays
  <1>17. Fit(h[n], n)
    BY <1>1, <1>7, <1>16
  <1>. QED
    BY <1>3, <1>13, <1>17 DEF Fit

---------------------------------------------------------------------------
(* Documents: the parser, block by block and page by page. *)

Within(count, all, limits) ==
  ~Structure!Exceeds(count, limits.pageChars) /\ all <= limits.chars

\* Past a limit, more is past it too.
LEMMA WithinLess ==
  ASSUME NEW limits \in Structure!Limits, NEW count \in Nat, NEW all \in Nat, NEW k \in Nat,
         ~Within(count, all, limits)
  PROVE  ~Within(count + k, all + k, limits)
  <1>1. limits.pageChars \in Nat /\ limits.chars \in Nat
    BY DEF Structure!Limits
  <1>. QED
    BY <1>1 DEF Within, Structure!Exceeds

\* What is read of the lines shown so far, of which a number are on page p: all
\* of them is counted and in the sections, or too many were shown.
BlockFits(r, shown, count, p, limits) ==
  /\ r \in Reading
  /\ r.error = None => /\ LineFits(r, shown, p) /\ r.pending = <<>>
                       /\ r.chars = Len(shown) /\ r.pageChars = count
                       /\ Within(count, Len(shown), limits)
  /\ r.error # None => ~Within(count, Len(shown), limits)

LEMMA ArtifactFits ==
  ASSUME NEW r \in Reading, NEW text \in Seq(Structure!Lines), NEW p \in Nat
  PROVE  LET q == Structure!WithArtifact(r, text, p)
         IN  /\ q \in Reading /\ q.error = r.error /\ q.sections = r.sections
             /\ q.pending = r.pending /\ q.images = r.images /\ q.chars = r.chars
             /\ q.pageChars = r.pageChars
  <1>. DEFINE new == [text |-> text, page |-> p]
              q == Structure!WithArtifact(r, text, p)
  <1>1. new \in Structure!Artifact
    BY DEF Structure!Artifact
  <1>2. \/ q = r
        \/ q = [r EXCEPT !.figures = Append(@, new)]
        \/ q = [r EXCEPT !.tables = Append(@, new)]
        \/ q = [r EXCEPT !.equations = Append(@, new)]
    BY DEF Structure!WithArtifact
  <1>. HIDE DEF new, q
  <1>3. /\ Append(r.figures, new) \in Seq(Structure!Artifact)
        /\ Append(r.tables, new) \in Seq(Structure!Artifact)
        /\ Append(r.equations, new) \in Seq(Structure!Artifact)
    BY <1>1 DEF Reading
  <1>4. q \in Reading /\ q.error = r.error /\ q.sections = r.sections
        /\ q.pending = r.pending /\ q.images = r.images /\ q.chars = r.chars
        /\ q.pageChars = r.pageChars
    <2>1. CASE q = r
      BY <2>1
    <2>2. CASE q = [r EXCEPT !.figures = Append(@, new)]
      BY <1>3, <2>2 DEF Reading
    <2>3. CASE q = [r EXCEPT !.tables = Append(@, new)]
      BY <1>3, <2>3 DEF Reading
    <2>4. CASE q = [r EXCEPT !.equations = Append(@, new)]
      BY <1>3, <2>4 DEF Reading
    <2>. QED
      BY <1>2, <2>1, <2>2, <2>3, <2>4
  <1>. QED
    BY <1>4 DEF q

LEMMA ReadBlockFits ==
  ASSUME NEW limits \in Structure!Limits, NEW r, NEW shown \in Seq(Structure!Lines),
         NEW count \in Nat, NEW p \in Nat \ {0}, BlockFits(r, shown, count, p, limits),
         NEW block \in Seq(Structure!Lines)
  PROVE  LET text == Structure!Written(block)
             q == Structure!ReadBlock(r, block, p, limits)
         IN  BlockFits(q, shown \o text, count + Len(text), p, limits) /\ q.images = r.images
  <1>. DEFINE text == Structure!Written(block)
              k == Len(text)
              q == Structure!ReadBlock(r, block, p, limits)
              counted == [r EXCEPT !.chars = @ + Len(text), !.pageChars = @ + Len(text)]
              read == Structure!ReadLines(counted, block, p)
              f == Structure!Flushed(read, p)
  <1>1. text \in Seq(Structure!Lines)
    <2>1. \A t \in Seq(Shown) : t \in Seq(Structure!Lines)
      BY DEF Shown
    <2>. QED
      BY <2>1, WrittenIs
  <1>2. /\ r.error # None \/ text = <<>> => q = r
        /\ ~(r.error # None \/ text = <<>>) =>
             q = IF Structure!Exceeds(counted.pageChars, limits.pageChars)
                      \/ counted.chars > limits.chars
                 THEN [r EXCEPT !.error = "text"]
                 ELSE Structure!WithArtifact(f, text, p)
    BY Zenon DEF Structure!ReadBlock
  <1>. HIDE DEF text, q
  <1>3. /\ k \in Nat /\ Len(shown) \in Nat /\ shown \o text \in Seq(Structure!Lines)
        /\ Len(shown \o text) = Len(shown) + k
    BY <1>1
  <1>4. r \in Reading /\ r.chars \in Nat /\ r.pageChars \in Nat
    BY DEF BlockFits, Reading
  <1>5. CASE r.error # None
    <2>1. ~Within(count + k, Len(shown \o text), limits)
      BY <1>3, <1>5, WithinLess DEF BlockFits
    <2>. QED
      BY <1>2, <1>4, <1>5, <2>1 DEF BlockFits, q, text
  <1>6. CASE r.error = None /\ text = <<>>
    <2>1. shown \o text = shown /\ k = 0 /\ count + k = count
      BY <1>6
    <2>. QED
      BY <1>2, <1>6, <2>1 DEF q, text
  <1>7. CASE r.error = None /\ text # <<>>
    <2>1. /\ LineFits(r, shown, p) /\ r.pending = <<>>
          /\ r.chars = Len(shown) /\ r.pageChars = count
      BY <1>7 DEF BlockFits
    <2>2. /\ counted \in Reading /\ counted.sections = r.sections /\ counted.pending = r.pending
          /\ counted.error = r.error /\ counted.images = r.images
          /\ counted.chars = Len(shown) + k /\ counted.pageChars = count + k
      <3>1. counted = [r EXCEPT !.chars = r.chars + k, !.pageChars = r.pageChars + k]
        OBVIOUS
      <3>2. r.chars + k \in Nat /\ r.pageChars + k \in Nat
            /\ r.chars + k = Len(shown) + k /\ r.pageChars + k = count + k
        BY <1>3, <1>4, <2>1
      <3>. HIDE DEF counted, k
      <3>3. /\ counted.sections = r.sections /\ counted.pending = r.pending
            /\ counted.error = r.error /\ counted.images = r.images
            /\ counted.chars = r.chars + k /\ counted.pageChars = r.pageChars + k
        BY <1>4, <3>1 DEF Reading
      <3>4. counted \in Reading
        BY <1>4, <3>1, <3>2 DEF Reading
      <3>. QED
        BY <3>2, <3>3, <3>4
    <2>. HIDE DEF counted
    <2>3. CASE ~Within(count + k, Len(shown) + k, limits)
      <3>1. q = [r EXCEPT !.error = "text"]
        <4>1. limits.chars \in Nat
          BY DEF Structure!Limits
        <4>2. Structure!Exceeds(count + k, limits.pageChars) \/ Len(shown) + k > limits.chars
          BY <1>3, <2>3, <4>1 DEF Within
        <4>. QED
          BY <1>2, <1>7, <2>2, <4>2
      <3>2. q \in Reading /\ q.error # None /\ q.images = r.images
        BY <1>4, <3>1, DocumentAssumption DEF Reading
      <3>. QED
        BY <1>3, <2>3, <3>2 DEF BlockFits, q, text
    <2>4. CASE Within(count + k, Len(shown) + k, limits)
      <3>1. q = Structure!WithArtifact(f, text, p)
        <4>1. limits.chars \in Nat
          BY DEF Structure!Limits
        <4>2. ~(Structure!Exceeds(count + k, limits.pageChars) \/ Len(shown) + k > limits.chars)
          BY <1>3, <2>4, <4>1 DEF Within
        <4>. QED
          BY <1>2, <1>7, <2>2, <4>2
      <3>2. LineFits(counted, shown, p)
        BY <2>1, <2>2 DEF LineFits
      <3>3. LineFits(read, shown \o text, p) /\ SameBut(counted, read)
        BY <3>2, ReadLinesFit DEF text
      <3>. HIDE DEF read
      <3>4. LineFits(f, shown \o text, p) /\ f.pending = <<>> /\ SameBut(read, f)
        BY <3>3, FlushedFits
      <3>. HIDE DEF f
      <3>5. f \in Reading
        BY <3>4 DEF LineFits
      <3>6. /\ q \in Reading /\ q.error = f.error /\ q.sections = f.sections
            /\ q.pending = f.pending /\ q.images = f.images /\ q.chars = f.chars
            /\ q.pageChars = f.pageChars
        BY <1>1, <3>1, <3>5, ArtifactFits
      <3>7. LineFits(q, shown \o text, p)
        BY <3>4, <3>6 DEF LineFits
      <3>8. /\ q.error = None /\ q.chars = Len(shown) + k /\ q.pageChars = count + k
            /\ q.images = r.images /\ q.pending = <<>>
        BY <1>7, <2>2, <3>3, <3>4, <3>6 DEF SameBut
      <3>. QED
        BY <1>3, <2>4, <3>6, <3>7, <3>8 DEF BlockFits, q, text
    <2>. QED
      BY <2>3, <2>4
  <1>. QED
    BY <1>5, <1>6, <1>7

LEMMA WrittenNone == Structure!Written(<<>>) = <<>>
  <1>1. <<>> \in Seq(Structure!Lines) /\ Range(<<>>) = {}
    BY DEF Range
  <1>2. /\ Structure!Written(<<>>) \in Seq(Shown)
        /\ Range(Structure!Written(<<>>)) = {}
    BY <1>1, WrittenIs
  <1>3. ASSUME NEW s \in Seq(Shown), Range(s) = {} PROVE s = <<>>
    <2>1. Len(s) \in Nat /\ \A i \in 1 .. Len(s) : s[i] \in Range(s)
      BY DEF Range
    <2>. QED
      BY <1>3, <2>1
  <1>. QED
    BY <1>2, <1>3

LEMMA WrittenMore ==
  ASSUME NEW shown \in Seq(Structure!Lines), NEW a \in Seq(Structure!Lines), NEW b \in Seq(Structure!Lines)
  PROVE  /\ Structure!Written(a) \in Seq(Structure!Lines) /\ Structure!Written(b) \in Seq(Structure!Lines)
         /\ Structure!Written(a \o b) \in Seq(Structure!Lines)
         /\ shown \o Structure!Written(a \o b) = (shown \o Structure!Written(a)) \o Structure!Written(b)
         /\ Len(Structure!Written(a \o b)) = Len(Structure!Written(a)) + Len(Structure!Written(b))
  <1>1. \A t \in Seq(Shown) : t \in Seq(Structure!Lines)
    BY DEF Shown
  <1>2. Structure!Written(a) \in Seq(Structure!Lines) /\ Structure!Written(b) \in Seq(Structure!Lines)
    BY <1>1, WrittenIs
  <1>3. Structure!Written(a \o b) = Structure!Written(a) \o Structure!Written(b)
    BY WrittenJoins
  <1>4. ASSUME NEW c \in Seq(Structure!Lines), NEW d \in Seq(Structure!Lines)
        PROVE  Len(c \o d) = Len(c) + Len(d) /\ c \o d \in Seq(Structure!Lines)
    OBVIOUS
  <1>. DEFINE c == Structure!Written(a)
              d == Structure!Written(b)
  <1>5. (shown \o c) \o d = shown \o (c \o d) /\ Len(c \o d) = Len(c) + Len(d)
        /\ c \o d \in Seq(Structure!Lines)
    BY <1>2, <1>4, LinesRegroup, SMTT(60)
  <1>. QED
    BY <1>2, <1>3, <1>5, Zenon

LEMMA ReadBlocksFit ==
  ASSUME NEW limits \in Structure!Limits, NEW r, NEW shown \in Seq(Structure!Lines),
         NEW p \in Nat \ {0}, BlockFits(r, shown, 0, p, limits),
         NEW blocks \in Seq(Seq(Structure!Lines))
  PROVE  LET text == Structure!Written(Joined(blocks))
             q == Structure!ReadBlocks(r, blocks, p, limits)
         IN  BlockFits(q, shown \o text, Len(text), p, limits) /\ q.images = r.images
  <1>. DEFINE n == Len(blocks)
  <1>1. n \in Nat /\ \A i \in 1 .. n : blocks[i] \in Seq(Structure!Lines)
    OBVIOUS
  <1>2. PICK w : JoinsUp(w, blocks, Structure!Lines) /\ Joined(blocks) = w[n]
    BY JoinedRuns
  <1>. HIDE DEF n
  <1>3. /\ w[0] = <<>> /\ \A i \in 0 .. n : w[i] \in Seq(Structure!Lines)
        /\ \A i \in 1 .. n : w[i] = w[i - 1] \o blocks[i]
    BY <1>2 DEF JoinsUp, n
  <1>. DEFINE text(i) == Structure!Written(w[i])
              Fit(x, i) == BlockFits(x, shown \o text(i), Len(text(i)), p, limits)
                           /\ x.images = r.images
              stage == [i \in 0 .. n |-> {x \in Reading : Fit(x, i)}]
              Read(x, i) == Structure!ReadBlock(x, blocks[i], p, limits)
              turn == [i \in 1 .. n |-> [x \in Reading |-> IF x \in stage[i - 1] THEN Read(x, i) ELSE r]]
              Runs(f) == f = [i \in 0 .. n |-> IF i = 0 THEN r
                               ELSE Structure!ReadBlock(f[i - 1], blocks[i], p, limits)]
  <1>4. r \in Reading
    BY DEF BlockFits
  <1>5. Fit(r, 0)
    <2>1. Structure!Written(<<>>) = <<>>
      BY WrittenNone
    <2>2. shown \o <<>> = shown /\ Len(<<>>) = 0
      OBVIOUS
    <2>. QED
      BY <1>3, <2>1, <2>2
  <1>6. ASSUME NEW i \in 1 .. n, NEW x, Fit(x, i - 1)
        PROVE  Fit(Read(x, i), i)
    <2>. DEFINE before == shown \o text(i - 1)
                count == Len(text(i - 1))
                more == Structure!Written(blocks[i])
                y == Read(x, i)
    <2>1. i - 1 \in 0 .. n /\ w[i - 1] \in Seq(Structure!Lines) /\ blocks[i] \in Seq(Structure!Lines)
          /\ w[i] = w[i - 1] \o blocks[i]
      <3>1. i - 1 \in 0 .. n
        BY <1>1
      <3>. QED
        BY <1>1, <1>3, <3>1, Zenon
    <2>2. /\ text(i - 1) \in Seq(Structure!Lines)
          /\ shown \o text(i) = before \o more
          /\ Len(text(i)) = count + Len(more)
      <3>1. PICK a, b : a = w[i - 1] /\ b = blocks[i]
        OBVIOUS
      <3>2. a \in Seq(Structure!Lines) /\ b \in Seq(Structure!Lines) /\ w[i] = a \o b
        BY <2>1, <3>1, Zenon
      <3>3. /\ Structure!Written(a) \in Seq(Structure!Lines)
            /\ shown \o Structure!Written(a \o b)
                 = (shown \o Structure!Written(a)) \o Structure!Written(b)
            /\ Len(Structure!Written(a \o b)) = Len(Structure!Written(a)) + Len(Structure!Written(b))
        BY <3>2, WrittenMore, ZenonT(60)
      <3>. QED
        BY <3>1, <3>2, <3>3, Zenon
    <2>3. before \in Seq(Structure!Lines) /\ count \in Nat
      BY <2>2
    <2>4. BlockFits(x, before, count, p, limits) /\ x.images = r.images
      BY <1>6
    <2>. HIDE DEF before, count
    <2>5. BlockFits(y, before \o more, count + Len(more), p, limits) /\ y.images = x.images
      <3>1. PICK a, b, c : a = before /\ b = blocks[i] /\ c = count
        OBVIOUS
      <3>2. a \in Seq(Structure!Lines) /\ b \in Seq(Structure!Lines) /\ c \in Nat
            /\ BlockFits(x, a, c, p, limits)
        BY <2>1, <2>3, <2>4, <3>1
      <3>3. LET q == Structure!ReadBlock(x, b, p, limits)
                t == Structure!Written(b)
            IN  BlockFits(q, a \o t, c + Len(t), p, limits) /\ q.images = x.images
        BY <3>2, ReadBlockFits
      <3>. QED
        BY <3>1, <3>3, Zenon
    <2>. HIDE DEF y, more
    <2>6. BlockFits(y, shown \o text(i), Len(text(i)), p, limits)
      BY <2>2, <2>5
    <2>. QED
      BY <2>4, <2>5, <2>6 DEF y
  <1>7. /\ stage \in [0 .. n -> SUBSET Reading]
        /\ \A i \in 0 .. n : \A x : x \in stage[i] <=> x \in Reading /\ Fit(x, i)
    <2>. HIDE DEF Fit
    <2>. QED
      OBVIOUS
  <1>8. \A x, i : Fit(x, i) => x \in Reading
    BY DEF BlockFits
  <1>. HIDE DEF Fit, stage, Read
  <1>9. r \in stage[0]
    BY <1>1, <1>4, <1>5, <1>7
  <1>10. \A i \in 1 .. n : \A x \in stage[i - 1] : Read(x, i) \in Reading /\ Read(x, i) \in stage[i]
    <2>1. \A i \in 1 .. n : i \in 0 .. n /\ i - 1 \in 0 .. n
      BY <1>1
    <2>. QED
      BY <1>6, <1>7, <1>8, <2>1
  <1>11. /\ turn \in [1 .. n -> [Reading -> Reading]]
         /\ \A i \in 1 .. n : \A x \in stage[i - 1] : turn[i][x] = Read(x, i)
    <2>1. turn \in [1 .. n -> [Reading -> Reading]]
      BY <1>4, <1>10
    <2>2. ASSUME NEW i \in 1 .. n, NEW x \in stage[i - 1]
          PROVE  turn[i][x] = Read(x, i)
      <3>1. x \in Reading
        BY <1>1, <1>7
      <3>. QED
        BY <3>1
    <2>. QED
      BY <2>1, <2>2
  <1>. HIDE DEF turn
  <1>12. Leads(n, Reading, stage, r, turn)
    <2>1. \A i \in 1 .. n : \A x \in stage[i - 1] : turn[i][x] \in stage[i]
      BY <1>10, <1>11
    <2>. QED
      BY <1>1, <1>7, <1>9, <1>11, <2>1 DEF Leads
  <1>13. \E f : Runs(f)
    <2>1. PICK f : Recurs(f, n, Reading, r, turn) /\ Stays(f, n, stage)
      BY <1>12, LeadsRuns, Zenon
    <2>2. f \in [0 .. n -> Reading] /\ f[0] = r /\ \A i \in 1 .. n : f[i] = turn[i][f[i - 1]]
      BY <2>1 DEF Recurs
    <2>3. \A i \in 1 .. n : f[i] = Structure!ReadBlock(f[i - 1], blocks[i], p, limits)
      <3>1. \A i \in 1 .. n : f[i - 1] \in stage[i - 1]
        BY <1>1, <2>1 DEF Stays
      <3>. QED
        BY <1>11, <2>2, <3>1 DEF Read
    <2>4. \A i \in 0 .. n : i # 0 => i \in 1 .. n
      BY <1>1
    <2>. QED
      BY <2>2, <2>3, <2>4, ZenonT(60)
  <1>. DEFINE h == CHOOSE f : Runs(f)
  <1>14. Structure!ReadBlocks(r, blocks, p, limits) = h[n]
    BY Zenon DEF Structure!ReadBlocks, n
  <1>15. Runs(h)
    <2>. HIDE DEF Runs
    <2>. QED
      BY <1>13
  <1>. HIDE DEF h
  <1>16. h[0] = r /\ \A i \in 1 .. n : h[i] = Read(h[i - 1], i)
    <2>1. 0 \in 0 .. n /\ \A i \in 1 .. n : i \in 0 .. n /\ i # 0
      BY <1>1
    <2>. QED
      BY <1>15, <2>1 DEF Read
  <1>17. h[n] \in stage[n]
    <2>1. Follows(h, n, stage, r, turn)
      BY <1>11, <1>16 DEF Follows
    <2>2. Stays(h, n, stage)
      BY <1>12, <2>1, FollowsStays, Zenon
    <2>. QED
      BY <1>1, <2>2 DEF Stays
  <1>18. Fit(h[n], n)
    BY <1>1, <1>7, <1>17
  <1>. QED
    BY <1>2, <1>14, <1>18 DEF Fit

\* The lines and the images of the pages so far.
Sources(pages, text, images) ==
  /\ pages \in Seq(Structure!Pages)
  /\ text \in [0 .. Len(pages) -> Seq(Structure!Lines)] /\ text[0] = <<>>
  /\ images \in [0 .. Len(pages) -> Nat] /\ images[0] = 0
  /\ \A i \in 1 .. Len(pages) : /\ text[i] = text[i - 1] \o Joined(pages[i].blocks)
                                /\ images[i] = images[i - 1] + pages[i].images

\* The first i pages are within the limits.
Allowed(pages, limits, text, images, i) ==
  /\ \A j \in 1 .. i :
       /\ ~Structure!Exceeds(pages[j].images, limits.images)
       /\ ~Structure!Exceeds(Len(Structure!Written(Joined(pages[j].blocks))), limits.pageChars)
  /\ ~Structure!Exceeds(images[i], limits.allImages)
  /\ Len(Structure!Written(text[i])) <= limits.chars

PageFits(r, pages, limits, text, images, i) ==
  /\ r \in Reading
  /\ r.error = None => /\ LineFits(r, Structure!Written(text[i]), i) /\ r.pending = <<>>
                       /\ r.chars = Len(Structure!Written(text[i])) /\ r.images = images[i]
                       /\ Allowed(pages, limits, text, images, i)
  /\ r.error # None => ~Allowed(pages, limits, text, images, i)

LEMMA SourcesAre ==
  ASSUME NEW pages, NEW text, NEW images, Sources(pages, text, images), NEW i \in 1 .. Len(pages)
  PROVE  LET t == Structure!Written(text[i - 1])
             more == Structure!Written(Joined(pages[i].blocks))
         IN  /\ Len(pages) \in Nat /\ i \in Nat \ {0} /\ pages[i].images \in Nat
             /\ pages[i].blocks \in Seq(Seq(Structure!Lines))
             /\ images[i - 1] \in Nat /\ images[i] = images[i - 1] + pages[i].images
             /\ t \in Seq(Structure!Lines) /\ more \in Seq(Structure!Lines)
             /\ Structure!Written(text[i]) = t \o more
             /\ Len(t \o more) = Len(t) + Len(more) /\ Len(t) \in Nat /\ Len(more) \in Nat
  <1>1. Len(pages) \in Nat /\ i \in Nat \ {0} /\ i - 1 \in 0 .. Len(pages) /\ pages[i] \in Structure!Pages
    BY DEF Sources
  <1>2. pages[i].images \in Nat /\ pages[i].blocks \in Seq(Seq(Structure!Lines))
    BY <1>1 DEF Structure!Pages
  <1>3. /\ text[i - 1] \in Seq(Structure!Lines) /\ images[i - 1] \in Nat
        /\ text[i] = text[i - 1] \o Joined(pages[i].blocks)
        /\ images[i] = images[i - 1] + pages[i].images
    BY <1>1 DEF Sources
  <1>. DEFINE a == text[i - 1]
              b == Joined(pages[i].blocks)
              t == Structure!Written(a)
              more == Structure!Written(b)
  <1>4. b \in Seq(Structure!Lines)
    BY <1>2, JoinedIs
  <1>. HIDE DEF a, b
  <1>5. Structure!Written(a \o b) = t \o more
    BY <1>3, <1>4, WrittenJoins DEF a
  <1>6. t \in Seq(Structure!Lines) /\ more \in Seq(Structure!Lines)
    BY <1>3, <1>4, WrittenMore DEF a
  <1>. HIDE DEF t, more
  <1>7. Len(t \o more) = Len(t) + Len(more) /\ Len(t) \in Nat /\ Len(more) \in Nat
    BY <1>6
  <1>. QED
    BY <1>1, <1>2, <1>3, <1>5, <1>6, <1>7, Zenon DEF a, b, t, more

LEMMA AllowedLess ==
  ASSUME NEW pages, NEW text, NEW images, Sources(pages, text, images),
         NEW limits \in Structure!Limits, NEW i \in 1 .. Len(pages),
         Allowed(pages, limits, text, images, i)
  PROVE  Allowed(pages, limits, text, images, i - 1)
  <1>. DEFINE before == Len(Structure!Written(text[i - 1]))
              all == Len(Structure!Written(text[i]))
  <1>1. /\ i \in Nat \ {0} /\ images[i - 1] \in Nat /\ images[i - 1] <= images[i] /\ images[i] \in Nat
        /\ before \in Nat /\ all \in Nat /\ before <= all
    <2>. DEFINE t == Structure!Written(text[i - 1])
                more == Structure!Written(Joined(pages[i].blocks))
    <2>1. /\ i \in Nat \ {0} /\ pages[i].images \in Nat
          /\ images[i - 1] \in Nat /\ images[i] = images[i - 1] + pages[i].images
          /\ Structure!Written(text[i]) = t \o more
          /\ Len(t \o more) = Len(t) + Len(more) /\ Len(t) \in Nat /\ Len(more) \in Nat
      BY SourcesAre
    <2>. HIDE DEF t, more
    <2>2. all = Len(t) + Len(more) /\ before = Len(t)
      BY <2>1, Zenon DEF t
    <2>. HIDE DEF all, before
    <2>. QED
      BY <2>1, <2>2
  <1>2. limits.allImages \in Nat /\ limits.chars \in Nat
    BY DEF Structure!Limits
  <1>3. ~Structure!Exceeds(images[i - 1], limits.allImages) /\ before <= limits.chars
    <2>1. ~Structure!Exceeds(images[i], limits.allImages) /\ all <= limits.chars
      BY DEF Allowed
    <2>. HIDE DEF all, before
    <2>. QED
      BY <1>1, <1>2, <2>1 DEF Structure!Exceeds
  <1>4. \A j \in 1 .. (i - 1) : j \in 1 .. i
    BY <1>1
  <1>. QED
    BY <1>3, <1>4 DEF Allowed

LEMMA LineFitsLater ==
  ASSUME NEW r, NEW shown, NEW p \in Nat, NEW q \in Nat, p <= q, LineFits(r, shown, p)
  PROVE  LineFits(r, shown, q)
  <1>1. \A s : Started(s, p) => Started(s, q)
    BY DEF Started
  <1>2. Placed(r.sections, p) => Placed(r.sections, q)
    BY <1>1 DEF Placed
  <1>. QED
    BY <1>2 DEF LineFits

LEMMA ReadPageFits ==
  ASSUME NEW pages, NEW text, NEW images, Sources(pages, text, images),
         NEW limits \in Structure!Limits, NEW i \in 1 .. Len(pages),
         NEW r, PageFits(r, pages, limits, text, images, i - 1)
  PROVE  PageFits(Structure!ReadPage(r, pages[i], i, limits), pages, limits, text, images, i)
  <1>. DEFINE page == pages[i]
              t == Structure!Written(text[i - 1])
              more == Structure!Written(Joined(page.blocks))
              q == Structure!ReadPage(r, page, i, limits)
              counted == [r EXCEPT !.images = @ + page.images, !.pageChars = 0]
              refused == \/ Structure!Exceeds(page.images, limits.images)
                         \/ Structure!Exceeds(images[i], limits.allImages)
  <1>1. /\ Len(pages) \in Nat /\ i \in Nat \ {0} /\ page.images \in Nat
        /\ page.blocks \in Seq(Seq(Structure!Lines))
        /\ images[i - 1] \in Nat /\ images[i] = images[i - 1] + page.images
        /\ t \in Seq(Structure!Lines) /\ more \in Seq(Structure!Lines)
        /\ Structure!Written(text[i]) = t \o more
        /\ Len(t \o more) = Len(t) + Len(more) /\ Len(t) \in Nat /\ Len(more) \in Nat
    BY SourcesAre
  <1>2. q = IF r.error # None THEN r
            ELSE IF Structure!Exceeds(page.images, limits.images)
                      \/ Structure!Exceeds(counted.images, limits.allImages)
                 THEN [r EXCEPT !.error = "images"]
            ELSE Structure!ReadBlocks(counted, page.blocks, i, limits)
    BY Zenon DEF Structure!ReadPage
  <1>3. r \in Reading
    BY DEF PageFits
  <1>. HIDE DEF q, t
  <1>4. CASE r.error # None
    <2>1. ~Allowed(pages, limits, text, images, i)
      BY <1>4, AllowedLess DEF PageFits
    <2>. QED
      BY <1>2, <1>3, <1>4, <2>1 DEF PageFits, q
  <1>5. CASE r.error = None
    <2>1. /\ LineFits(r, t, i - 1) /\ r.pending = <<>> /\ r.chars = Len(t) /\ r.images = images[i - 1]
          /\ Allowed(pages, limits, text, images, i - 1)
      BY <1>5 DEF PageFits, t
    <2>2. /\ counted \in Reading /\ counted.sections = r.sections /\ counted.pending = r.pending
          /\ counted.error = r.error /\ counted.images = images[i]
          /\ counted.chars = r.chars /\ counted.pageChars = 0
      <3>1. counted = [r EXCEPT !.images = r.images + page.images, !.pageChars = 0]
        OBVIOUS
      <3>2. r.images + page.images \in Nat /\ r.images + page.images = images[i]
        BY <1>1, <2>1
      <3>. HIDE DEF counted, page
      <3>3. /\ counted.sections = r.sections /\ counted.pending = r.pending
            /\ counted.error = r.error /\ counted.images = r.images + page.images
            /\ counted.chars = r.chars /\ counted.pageChars = 0
        BY <1>3, <3>1 DEF Reading
      <3>4. counted \in Reading
        BY <1>3, <3>1, <3>2 DEF Reading
      <3>. QED
        BY <3>2, <3>3, <3>4
    <2>. HIDE DEF counted
    <2>3. CASE refused
      <3>1. q = [r EXCEPT !.error = "images"]
        BY <1>2, <1>5, <2>2, <2>3
      <3>2. q \in Reading /\ q.error # None
        BY <1>3, <3>1, DocumentAssumption DEF Reading
      <3>3. i \in 1 .. i
        BY <1>1
      <3>4. ~Allowed(pages, limits, text, images, i)
        BY <2>3, <3>3 DEF Allowed
      <3>. QED
        BY <3>2, <3>4 DEF PageFits, q
    <2>4. CASE ~refused
      <3>1. q = Structure!ReadBlocks(counted, page.blocks, i, limits)
        BY <1>2, <1>5, <2>2, <2>4
      <3>2. limits.chars \in Nat /\ limits.pageChars \in Nat
        BY DEF Structure!Limits
      <3>3. LineFits(counted, t, i)
        <4>1. i - 1 \in Nat /\ i - 1 <= i /\ i \in Nat
          BY <1>1
        <4>2. LineFits(r, t, i)
          BY <2>1, <4>1, LineFitsLater
        <4>. QED
          BY <2>2, <4>2 DEF LineFits
      <3>4. Within(0, Len(t), limits)
        <4>1. Len(t) <= limits.chars
          BY <2>1 DEF Allowed, t
        <4>. QED
          BY <3>2, <4>1 DEF Within, Structure!Exceeds
      <3>5. BlockFits(counted, t, 0, i, limits)
        BY <1>5, <2>1, <2>2, <3>3, <3>4 DEF BlockFits
      <3>6. BlockFits(q, t \o more, Len(more), i, limits) /\ q.images = images[i]
        <4>1. PICK b : b = page.blocks
          OBVIOUS
        <4>2. b \in Seq(Seq(Structure!Lines))
          BY <1>1, <4>1
        <4>3. LET u == Structure!Written(Joined(b))
                  x == Structure!ReadBlocks(counted, b, i, limits)
              IN  BlockFits(x, t \o u, Len(u), i, limits) /\ x.images = counted.images
          BY <1>1, <3>5, <4>2, ReadBlocksFit
        <4>. QED
          BY <2>2, <3>1, <4>1, <4>3, Zenon
      <3>. HIDE DEF page
      <3>7. q.error = None =>
              /\ LineFits(q, t \o more, i) /\ q.pending = <<>> /\ q.chars = Len(t \o more)
              /\ Within(Len(more), Len(t \o more), limits)
        BY <3>6 DEF BlockFits
      <3>8. q.error # None => ~Within(Len(more), Len(t \o more), limits)
        BY <3>6 DEF BlockFits
      <3>9. Allowed(pages, limits, text, images, i) <=> Within(Len(more), Len(t \o more), limits)
        <4>1. \A j \in 1 .. i : j = i \/ j \in 1 .. (i - 1)
          BY <1>1
        <4>2. i \in 1 .. i
          BY <1>1
        <4>3. ~Structure!Exceeds(page.images, limits.images)
              /\ ~Structure!Exceeds(images[i], limits.allImages)
          BY <2>4
        <4>4. ASSUME Within(Len(more), Len(t \o more), limits)
              PROVE  Allowed(pages, limits, text, images, i)
          <5>1. ~Structure!Exceeds(Len(more), limits.pageChars) /\ Len(t \o more) <= limits.chars
            BY <4>4 DEF Within
          <5>. QED
            BY <1>1, <2>1, <4>1, <4>3, <5>1 DEF Allowed, page
        <4>5. ASSUME Allowed(pages, limits, text, images, i)
              PROVE  Within(Len(more), Len(t \o more), limits)
          BY <1>1, <4>2, <4>5 DEF Allowed, Within, page
        <4>. QED
          BY <4>4, <4>5
      <3>10. q \in Reading
        BY <3>6 DEF BlockFits
      <3>. QED
        BY <1>1, <3>6, <3>7, <3>8, <3>9, <3>10 DEF PageFits, q, page
    <2>. QED
      BY <2>3, <2>4
  <1>. QED
    BY <1>4, <1>5

LEMMA SourcesExist ==
  ASSUME NEW pages \in Seq(Structure!Pages)
  PROVE  \E text, images : /\ Sources(pages, text, images)
                           /\ Structure!Source(pages) = text[Len(pages)]
                           /\ Structure!Images(pages) = images[Len(pages)]
  <1>. DEFINE n == Len(pages)
              lists == [i \in 1 .. n |-> Joined(pages[i].blocks)]
              step == [i \in 1 .. n |-> [x \in Nat |-> x + pages[i].images]]
              Runs(f) == f = [i \in 0 .. n |-> IF i = 0 THEN 0 ELSE f[i - 1] + pages[i].images]
              h == CHOOSE f : Runs(f)
  <1>1. /\ n \in Nat /\ DOMAIN pages = 1 .. n
        /\ \A i \in 1 .. n : pages[i].images \in Nat /\ pages[i].blocks \in Seq(Seq(Structure!Lines))
    <2>1. n \in Nat /\ DOMAIN pages = 1 .. n /\ \A i \in 1 .. n : pages[i] \in Structure!Pages
      OBVIOUS
    <2>. QED
      BY <2>1 DEF Structure!Pages
  <1>2. Structure!Images(pages) = h[n]
    BY Zenon DEF Structure!Images
  <1>3. Structure!Source(pages) = Joined(lists)
    <2>1. Structure!Source(pages) = Joined([i \in DOMAIN pages |-> Joined(pages[i].blocks)])
      BY StructureFilters DEF Structure!Source
    <2>. QED
      BY <1>1, <2>1
  <1>. HIDE DEF n, h
  <1>4. lists \in Seq(Seq(Structure!Lines)) /\ Len(lists) = n
    <2>1. \A i \in 1 .. n : Joined(pages[i].blocks) \in Seq(Structure!Lines)
      BY <1>1, JoinedIs
    <2>. QED
      BY <1>1, <2>1
  <1>5. \A i \in 1 .. n : lists[i] = Joined(pages[i].blocks)
    OBVIOUS
  <1>. HIDE DEF lists
  <1>6. PICK text : JoinsUp(text, lists, Structure!Lines) /\ Joined(lists) = text[n]
    BY <1>4, JoinedRuns
  <1>7. /\ text \in [0 .. n -> Seq(Structure!Lines)] /\ text[0] = <<>>
        /\ \A i \in 1 .. n : text[i] = text[i - 1] \o Joined(pages[i].blocks)
    BY <1>4, <1>5, <1>6 DEF JoinsUp
  <1>8. CanRecur(n, Nat, 0, step)
    BY <1>1 DEF CanRecur
  <1>9. PICK f : Recurs(f, n, Nat, 0, step)
    <2>. HIDE DEF step
    <2>. QED
      BY <1>8, RecursionRuns
  <1>10. /\ f \in [0 .. n -> Nat] /\ f[0] = 0
         /\ \A i \in 1 .. n : f[i] = f[i - 1] + pages[i].images
    <2>1. /\ f \in [0 .. n -> Nat] /\ f[0] = 0 /\ \A i \in 1 .. n : f[i] = step[i][f[i - 1]]
      BY <1>9 DEF Recurs
    <2>2. \A i \in 1 .. n : i - 1 \in 0 .. n /\ f[i - 1] \in Nat
      BY <1>1, <2>1
    <2>. QED
      BY <2>1, <2>2
  <1>11. Runs(f)
    <2>1. \A i \in 0 .. n : i # 0 => i \in 1 .. n
      BY <1>1
    <2>. QED
      BY <1>10, <2>1
  <1>12. Runs(h)
    <2>. HIDE DEF Runs
    <2>. QED
      BY <1>11 DEF h
  <1>13. h[0] = 0 /\ \A i \in 1 .. n : h[i] = h[i - 1] + pages[i].images
    <2>1. 0 \in 0 .. n /\ \A i \in 1 .. n : i \in 0 .. n /\ i # 0
      BY <1>1
    <2>. QED
      BY <1>12, <2>1
  <1>14. h[n] = f[n]
    <2>. DEFINE T == {i \in 0 .. n : h[i] = f[i]}
    <2>1. 0 \in T
      BY <1>1, <1>10, <1>13
    <2>2. ASSUME NEW i \in 1 .. n, i - 1 \in T PROVE i \in T
      <3>1. i \in 0 .. n /\ h[i - 1] = f[i - 1]
        BY <1>1, <2>2
      <3>. QED
        BY <1>10, <1>13, <3>1
    <2>3. 0 .. n \subseteq T
      <3>. HIDE DEF T
      <3>. QED
        BY <1>1, <2>1, <2>2, BoundedInduction
    <2>. QED
      BY <1>1, <2>3
  <1>15. Sources(pages, text, f)
    BY <1>7, <1>10 DEF Sources, n
  <1>. QED
    BY <1>2, <1>3, <1>6, <1>14, <1>15 DEF n

LEMMA UnreadFits ==
  ASSUME NEW pages, NEW text, NEW images, Sources(pages, text, images),
         NEW limits \in Structure!Limits
  PROVE  PageFits(Structure!Unread, pages, limits, text, images, 0)
  <1>. DEFINE doc == Structure!Opened("Document", 1, None)
              r == Structure!Unread
              sections == <<doc>>
  <1>1. /\ doc.title = "Document" /\ doc.from = None /\ doc.to = None /\ doc.paragraphs = <<>>
        /\ doc \in Opening
    BY <<>> \in Seq(Structure!Paragraph) DEF Structure!Opened, Opening
  <1>2. /\ r.error = None /\ r.sections = sections /\ r.pending = <<>> /\ r.images = 0
        /\ r.chars = 0 /\ r.pageChars = 0
        /\ r = [error |-> None, sections |-> sections, pending |-> <<>>, figures |-> <<>>,
                tables |-> <<>>, equations |-> <<>>, images |-> 0, chars |-> 0, pageChars |-> 0]
    BY DEF Structure!Unread
  <1>. HIDE DEF doc, r
  <1>3. sections \in Seq(Opening) /\ Len(sections) = 1 /\ sections[1] = doc
    BY <1>1
  <1>. HIDE DEF sections
  <1>4. r \in Reading
    <2>1. <<>> \in Seq(Plain) /\ <<>> \in Seq(Structure!Artifact)
      OBVIOUS
    <2>. QED
      BY <1>2, <1>3, <2>1 DEF Reading
  <1>5. Placed(sections, 0)
    <2>1. Untouched(doc) /\ Worded(doc)
      BY <1>1 DEF Untouched, Worded
    <2>. QED
      BY <1>1, <1>3, <2>1 DEF Placed
  <1>6. TextOf(sections) = <<>>
    <2>1. SectionText(doc) = <<>>
      <3>1. Named(doc) = <<>>
        BY <1>1 DEF Named
      <3>2. Body(doc) = <<>>
        <4>1. [k \in DOMAIN doc.paragraphs |-> doc.paragraphs[k].text] = <<>>
          BY <1>1
        <4>. QED
          BY <4>1, JoinedIs, <<>> \in Seq(Seq(Structure!Lines)) DEF Body
      <3>. QED
        BY <3>1, <3>2 DEF SectionText
    <2>. DEFINE texts == [i \in DOMAIN sections |-> SectionText(sections[i])]
    <2>2. texts \in Seq(Seq(Structure!Lines)) /\ Len(texts) = 1 /\ texts[1] = <<>>
      <3>1. texts \in Seq(Seq(Structure!Lines)) /\ Len(texts) = Len(sections)
            /\ DOMAIN sections = 1 .. Len(sections)
        BY <1>3, TextOfIs
      <3>2. 1 \in DOMAIN sections
        BY <1>3, <3>1
      <3>3. texts[1] = SectionText(sections[1])
        BY <3>2
      <3>. QED
        BY <1>3, <2>1, <3>1, <3>3
    <2>. HIDE DEF texts
    <2>3. Joined(texts) = Joined(<<>>)
      <3>1. PICK e : e = <<>>
        OBVIOUS
      <3>2. e \in Seq(Seq(Structure!Lines)) /\ Len(e) = 0
        BY <3>1
      <3>3. /\ Len(texts) # 0 /\ Len(e) = Len(texts) - 1
            /\ \A i \in 1 .. Len(e) : e[i] = texts[i + 1]
        BY <2>2, <3>2
      <3>4. Joined(texts) = Joined(e)
        BY <2>2, <3>2, <3>3, JoinedRest
      <3>. QED
        BY <3>1, <3>4
    <2>4. Joined(<<>>) = <<>>
      BY <2>2, JoinedIs
    <2>. QED
      BY <2>3, <2>4 DEF texts, TextOf
  <1>7. text[0] = <<>> /\ images[0] = 0
    BY DEF Sources
  <1>8. LineFits(r, <<>>, 0)
    <2>1. <<>> \o <<>> = <<>>
      OBVIOUS
    <2>. QED
      BY <1>2, <1>4, <1>5, <1>6, <2>1 DEF LineFits
  <1>9. Allowed(pages, limits, text, images, 0)
    <2>1. limits.chars \in Nat /\ limits.allImages \in Nat /\ Len(<<>>) = 0
      BY DEF Structure!Limits
    <2>. QED
      BY <1>7, <2>1, WrittenNone DEF Allowed, Structure!Exceeds
  <1>. QED
    BY <1>2, <1>4, <1>7, <1>8, <1>9, WrittenNone DEF PageFits, r

LEMMA ReadPagesFit ==
  ASSUME NEW pages, NEW text, NEW images, Sources(pages, text, images),
         NEW limits \in Structure!Limits
  PROVE  PageFits(Structure!ReadPages(pages, limits), pages, limits, text, images, Len(pages))
  <1>. DEFINE n == Len(pages)
              start == Structure!Unread
              Fit(x, i) == PageFits(x, pages, limits, text, images, i)
              Read(x, i) == Structure!ReadPage(x, pages[i], i, limits)
              stage == [i \in 0 .. n |-> {x \in Reading : Fit(x, i)}]
              turn == [i \in 1 .. n |-> [x \in Reading |-> IF x \in stage[i - 1] THEN Read(x, i) ELSE start]]
              Runs(f) == f = [i \in 0 .. n |-> IF i = 0 THEN start
                                ELSE Structure!ReadPage(f[i - 1], pages[i], i, limits)]
              h == CHOOSE f : Runs(f)
  <1>1. n \in Nat
    BY DEF Sources
  <1>2. Structure!ReadPages(pages, limits) = h[n]
    BY Zenon DEF Structure!ReadPages
  <1>. HIDE DEF h, start
  <1>3. Fit(start, 0)
    BY UnreadFits DEF start
  <1>4. \A i \in 1 .. n : \A x : Fit(x, i - 1) => Fit(Read(x, i), i)
    BY ReadPageFits
  <1>5. \A x, i : Fit(x, i) => x \in Reading
    BY DEF PageFits
  <1>. HIDE DEF n, Fit, Read
  <1>6. /\ stage \in [0 .. n -> SUBSET Reading]
        /\ \A i \in 0 .. n : \A x : x \in stage[i] <=> x \in Reading /\ Fit(x, i)
    OBVIOUS
  <1>. HIDE DEF stage
  <1>7. start \in stage[0] /\ start \in Reading
    BY <1>1, <1>3, <1>5, <1>6
  <1>8. \A i \in 1 .. n : \A x \in stage[i - 1] : Read(x, i) \in Reading /\ Read(x, i) \in stage[i]
    <2>1. \A i \in 1 .. n : i \in 0 .. n /\ i - 1 \in 0 .. n
      BY <1>1
    <2>. QED
      BY <1>4, <1>5, <1>6, <2>1
  <1>9. /\ turn \in [1 .. n -> [Reading -> Reading]]
        /\ \A i \in 1 .. n : \A x \in stage[i - 1] : turn[i][x] = Read(x, i)
    <2>1. turn \in [1 .. n -> [Reading -> Reading]]
      BY <1>7, <1>8
    <2>2. ASSUME NEW i \in 1 .. n, NEW x \in stage[i - 1]
          PROVE  turn[i][x] = Read(x, i)
      <3>1. x \in Reading
        BY <1>1, <1>6
      <3>. QED
        BY <3>1
    <2>. QED
      BY <2>1, <2>2
  <1>. HIDE DEF turn
  <1>10. Leads(n, Reading, stage, start, turn)
    <2>1. \A i \in 1 .. n : \A x \in stage[i - 1] : turn[i][x] \in stage[i]
      BY <1>8, <1>9
    <2>. QED
      BY <1>1, <1>6, <1>7, <1>9, <2>1 DEF Leads
  <1>11. \E f : Runs(f)
    <2>1. PICK f : Recurs(f, n, Reading, start, turn) /\ Stays(f, n, stage)
      BY <1>10, LeadsRuns, Zenon
    <2>2. f \in [0 .. n -> Reading] /\ f[0] = start /\ \A i \in 1 .. n : f[i] = turn[i][f[i - 1]]
      BY <2>1 DEF Recurs
    <2>3. \A i \in 1 .. n : f[i] = Structure!ReadPage(f[i - 1], pages[i], i, limits)
      <3>1. \A i \in 1 .. n : f[i - 1] \in stage[i - 1]
        BY <1>1, <2>1 DEF Stays
      <3>. QED
        BY <1>9, <2>2, <3>1 DEF Read
    <2>4. \A i \in 0 .. n : i # 0 => i \in 1 .. n
      BY <1>1
    <2>. QED
      BY <2>2, <2>3, <2>4
  <1>12. Runs(h)
    <2>. HIDE DEF Runs
    <2>. QED
      BY <1>11 DEF h
  <1>13. h[0] = start /\ \A i \in 1 .. n : h[i] = Read(h[i - 1], i)
    <2>1. 0 \in 0 .. n /\ \A i \in 1 .. n : i \in 0 .. n /\ i # 0
      BY <1>1
    <2>. QED
      BY <1>12, <2>1 DEF Read
  <1>14. h[n] \in stage[n]
    <2>1. Follows(h, n, stage, start, turn)
      BY <1>9, <1>13 DEF Follows
    <2>2. Stays(h, n, stage)
      BY <1>10, <2>1, FollowsStays, Zenon
    <2>. QED
      BY <1>1, <2>2 DEF Stays
  <1>15. Fit(h[n], n)
    BY <1>1, <1>6, <1>14
  <1>. QED
    BY <1>2, <1>15 DEF Fit, n

---------------------------------------------------------------------------
(* Documents: what is parsed. *)

LEMMA AmongAll ==
  ASSUME NEW X, NEW items \in Seq(X), NEW S, \A i \in 1 .. Len(items) : items[i] \in S
  PROVE  Among(items, S) = items
  <1>. DEFINE n == Len(items)
  <1>1. n \in Nat /\ \A i \in 1 .. n : items[i] \in X
    OBVIOUS
  <1>2. PICK f : Sifts(f, items, S, X) /\ Among(items, S) = f[n]
    BY AmongRuns
  <1>3. /\ f \in [0 .. n -> Seq(X)] /\ f[0] = <<>>
        /\ \A i \in 1 .. n : f[i] = Append(f[i - 1], items[i])
    BY <1>2 DEF Sifts
  <1>. HIDE DEF n
  <1>. DEFINE Same(s, i) == Len(s) = i /\ \A k \in 1 .. i : s[k] = items[k]
              T == {i \in 0 .. n : Same(f[i], i)}
  <1>4. 0 \in T
    BY <1>1, <1>3
  <1>5. ASSUME NEW i \in 1 .. n, i - 1 \in T PROVE i \in T
    <2>1. i \in 0 .. n /\ i - 1 \in 0 .. n /\ f[i - 1] \in Seq(X) /\ items[i] \in X
          /\ f[i] = Append(f[i - 1], items[i]) /\ Same(f[i - 1], i - 1)
      <3>1. i \in 0 .. n /\ i - 1 \in 0 .. n
        BY <1>1
      <3>2. Same(f[i - 1], i - 1)
        <4>. HIDE DEF Same
        <4>. QED
          BY <1>5
      <3>. HIDE DEF Same
      <3>. QED
        BY <1>1, <1>3, <3>1, <3>2
    <2>2. ASSUME NEW s \in Seq(X), Same(s, i - 1) PROVE Same(Append(s, items[i]), i)
      <3>1. /\ Len(Append(s, items[i])) = (i - 1) + 1 /\ Append(s, items[i])[i] = items[i]
            /\ \A k \in 1 .. (i - 1) : Append(s, items[i])[k] = s[k]
        BY <2>1, <2>2
      <3>2. \A k \in 1 .. i : k = i \/ k \in 1 .. (i - 1)
        BY <1>1
      <3>. QED
        BY <1>1, <2>2, <3>1, <3>2
    <2>. HIDE DEF Same
    <2>. QED
      BY <2>1, <2>2
  <1>6. n \in T
    <2>. HIDE DEF T
    <2>1. 0 .. n \subseteq T
      BY <1>1, <1>4, <1>5, BoundedInduction
    <2>. QED
      BY <1>1, <2>1
  <1>7. f[n] \in Seq(X) /\ Same(f[n], n)
    BY <1>1, <1>3, <1>6
  <1>8. ASSUME NEW s \in Seq(X), Same(s, n) PROVE s = items
    <2>1. s = [i \in 1 .. n |-> s[i]] /\ items = [i \in 1 .. n |-> items[i]]
      BY <1>8 DEF n
    <2>. QED
      BY <1>8, <2>1
  <1>. QED
    BY <1>2, <1>7, <1>8

LEMMA AmongNone ==
  ASSUME NEW X, NEW items \in Seq(X), NEW S, \A i \in 1 .. Len(items) : items[i] \notin S
  PROVE  Among(items, S) = <<>>
  <1>1. Len(items) \in Nat
    OBVIOUS
  <1>2. PICK f : Sifts(f, items, S, X) /\ Among(items, S) = f[Len(items)]
    BY AmongRuns
  <1>3. f[0] = <<>> /\ \A i \in 1 .. Len(items) : f[i] = f[i - 1]
    BY <1>2 DEF Sifts
  <1>. DEFINE n == Len(items)
              T == {i \in 0 .. n : f[i] = <<>>}
  <1>4. 0 \in T
    BY <1>1, <1>3
  <1>5. ASSUME NEW i \in 1 .. n, i - 1 \in T PROVE i \in T
    <2>1. i \in 0 .. n
      BY <1>1
    <2>. QED
      BY <1>3, <1>5, <2>1
  <1>6. n \in T
    <2>. HIDE DEF T
    <2>1. 0 .. n \subseteq T
      BY <1>1, <1>4, <1>5, BoundedInduction
    <2>. QED
      BY <1>1, <2>1
  <1>. QED
    BY <1>2, <1>6

\* Sections but the first d.
Rest(kept, sections, d) ==
  /\ d \in {0, 1} /\ kept \in Seq(Opening) /\ Len(kept) = Len(sections) - d
  /\ \A i \in 1 .. Len(kept) : kept[i] = sections[i + d]
  /\ d = 1 <=> sections[1].paragraphs = <<>>

LEMMA KeptIs ==
  ASSUME NEW sections, NEW p, Placed(sections, p)
  PROVE  \E d : Rest(Structure!Kept(sections), sections, d)
  <1>. DEFINE S == {s \in Range(sections) : s.paragraphs # <<>> \/ s.title # "Document"}
              n == Len(sections)
  <1>1. Structure!Kept(sections) = Among(sections, S)
    BY StructureFilters DEF Structure!Kept, Structure!Those
  <1>2. /\ sections \in Seq(Opening) /\ n \in Nat \ {0}
        /\ \A i \in 1 .. n : (sections[i].title = "Document" <=> i = 1) /\ sections[i] \in Opening
    BY DEF Placed
  <1>3. \A i \in 1 .. n : sections[i] \in S <=> ~(i = 1 /\ sections[i].paragraphs = <<>>)
    <2>1. \A i \in 1 .. n : sections[i] \in Range(sections)
      BY <1>2, Lists
    <2>. QED
      BY <1>2, <2>1
  <1>. HIDE DEF S
  <1>4. CASE sections[1].paragraphs # <<>>
    <2>1. Among(sections, S) = sections
      BY <1>2, <1>3, <1>4, AmongAll
    <2>2. Rest(sections, sections, 0)
      BY <1>2, <1>4 DEF Rest
    <2>. QED
      BY <1>1, <2>1, <2>2
  <1>5. CASE sections[1].paragraphs = <<>>
    <2>. DEFINE first == <<sections[1]>>
                rest == [i \in 1 .. (n - 1) |-> sections[i + 1]]
    <2>1. 1 \in 1 .. n /\ sections[1] \in Opening /\ n - 1 \in Nat
          /\ \A i \in 1 .. (n - 1) : i + 1 \in 1 .. n /\ i + 1 # 1
      BY <1>2
    <2>2. first \in Seq(Opening) /\ Len(first) = 1 /\ first[1] = sections[1]
      BY <2>1
    <2>3. rest \in Seq(Opening) /\ Len(rest) = n - 1 /\ \A i \in 1 .. (n - 1) : rest[i] = sections[i + 1]
      BY <1>2, <2>1
    <2>. HIDE DEF first, rest
    <2>4. sections = first \o rest
      <3>1. /\ first \o rest \in Seq(Opening) /\ Len(first \o rest) = n
            /\ \A i \in 1 .. n : (first \o rest)[i] = sections[i]
        <4>1. ASSUME NEW a \in Seq(Opening), NEW b \in Seq(Opening)
              PROVE  /\ a \o b \in Seq(Opening) /\ Len(a \o b) = Len(a) + Len(b)
                     /\ \A i \in 1 .. Len(a) : (a \o b)[i] = a[i]
                     /\ \A i \in 1 .. Len(b) : (a \o b)[Len(a) + i] = b[i]
          OBVIOUS
        <4>2. /\ first \o rest \in Seq(Opening) /\ Len(first \o rest) = 1 + (n - 1)
              /\ (first \o rest)[1] = sections[1]
              /\ \A i \in 1 .. (n - 1) : (first \o rest)[1 + i] = rest[i]
          BY <2>2, <2>3, <4>1
        <4>3. \A i \in 1 .. n : i = 1 \/ (i - 1 \in 1 .. (n - 1) /\ 1 + (i - 1) = i /\ (i - 1) + 1 = i)
          BY <1>2
        <4>4. \A i \in 1 .. (n - 1) : (first \o rest)[1 + i] = sections[i + 1]
          BY <2>3, <4>2
        <4>5. \A i \in 1 .. n : (first \o rest)[i] = sections[i]
          BY <4>2, <4>3, <4>4
        <4>. QED
          BY <1>2, <4>2, <4>5
      <3>2. ASSUME NEW s \in Seq(Opening), Len(s) = n, \A i \in 1 .. n : s[i] = sections[i]
            PROVE  s = sections
        <4>1. s = [i \in 1 .. n |-> s[i]] /\ sections = [i \in 1 .. n |-> sections[i]]
          BY <1>2, <3>2
        <4>. QED
          BY <3>2, <4>1
      <3>. QED
        BY <3>1, <3>2
    <2>5. Among(first, S) = <<>>
      <3>1. \A i \in 1 .. Len(first) : first[i] \notin S
        BY <1>3, <1>5, <2>1, <2>2
      <3>. QED
        BY <2>2, <3>1, AmongNone
    <2>6. Among(rest, S) = rest
      <3>1. \A i \in 1 .. Len(rest) : rest[i] \in S
        BY <1>3, <2>1, <2>3
      <3>. QED
        BY <2>3, <3>1, AmongAll
    <2>7. Among(sections, S) = rest
      <3>1. Among(first \o rest, S) = Among(first, S) \o Among(rest, S)
        BY <2>2, <2>3, AmongJoins
      <3>2. <<>> \o rest = rest
        BY <2>3
      <3>. QED
        BY <2>4, <2>5, <2>6, <3>1, <3>2
    <2>8. Rest(rest, sections, 1)
      BY <1>5, <2>3 DEF Rest
    <2>. QED
      BY <1>1, <2>7, <2>8
  <1>. QED
    BY <1>4, <1>5

LEMMA KeptText ==
  ASSUME NEW sections, NEW p, Placed(sections, p), NEW kept, NEW d, Rest(kept, sections, d)
  PROVE  TextOf(kept) = TextOf(sections)
  <1>. DEFINE n == Len(sections)
              A == [i \in DOMAIN sections |-> SectionText(sections[i])]
              B == [i \in DOMAIN kept |-> SectionText(kept[i])]
  <1>1. sections \in Seq(Opening) /\ n \in Nat \ {0} /\ kept \in Seq(Opening) /\ d \in {0, 1}
        /\ Len(kept) = n - d /\ (\A i \in 1 .. (n - d) : kept[i] = sections[i + d])
        /\ (d = 1 => sections[1].paragraphs = <<>> /\ sections[1].title = "Document")
    BY DEF Placed, Rest
  <1>2. /\ A \in Seq(Seq(Structure!Lines)) /\ Len(A) = n /\ DOMAIN sections = 1 .. n
        /\ B \in Seq(Seq(Structure!Lines)) /\ Len(B) = n - d /\ DOMAIN kept = 1 .. (n - d)
    BY <1>1, TextOfIs
  <1>3. /\ \A i \in 1 .. n : A[i] = SectionText(sections[i])
        /\ \A i \in 1 .. (n - d) : B[i] = SectionText(sections[i + d])
    BY <1>1, <1>2
  <1>4. TextOf(sections) = Joined(A) /\ TextOf(kept) = Joined(B)
    BY DEF TextOf
  <1>. HIDE DEF A, B
  <1>5. CASE d = 0
    <2>1. kept = sections
      <3>1. sections = [i \in 1 .. n |-> sections[i]] /\ kept = [i \in 1 .. n |-> kept[i]]
        BY <1>1, <1>5
      <3>2. \A i \in 1 .. n : kept[i] = sections[i]
        BY <1>1, <1>5
      <3>. QED
        BY <3>1, <3>2
    <2>. QED
      BY <2>1
  <1>6. CASE d = 1
    <2>1. A[1] = <<>>
      <3>1. Named(sections[1]) = <<>>
        BY <1>1, <1>6 DEF Named
      <3>2. Body(sections[1]) = <<>>
        <4>1. [k \in DOMAIN sections[1].paragraphs |-> sections[1].paragraphs[k].text] = <<>>
          BY <1>1, <1>6
        <4>. QED
          BY <4>1, JoinedIs, <<>> \in Seq(Seq(Structure!Lines)) DEF Body
      <3>3. 1 \in 1 .. n /\ <<>> \o <<>> = <<>>
        BY <1>1
      <3>. QED
        BY <1>3, <3>1, <3>2, <3>3 DEF SectionText
    <2>2. \A i \in 1 .. (n - 1) : B[i] = A[i + 1]
      <3>1. \A i \in 1 .. (n - 1) : i + 1 \in 1 .. n
        BY <1>1
      <3>. QED
        BY <1>3, <1>6, <3>1
    <2>3. Len(A) # 0 /\ Len(B) = Len(A) - 1 /\ \A i \in 1 .. Len(B) : B[i] = A[i + 1]
      BY <1>1, <1>2, <1>6, <2>2
    <2>4. Joined(A) = Joined(B)
      BY <1>2, <2>1, <2>3, JoinedRest
    <2>. QED
      BY <1>4, <2>4
  <1>. QED
    BY <1>1, <1>5, <1>6

LEMMA SectionLines ==
  ASSUME NEW s \in Opening
  PROVE  /\ \A x \in Range(SectionText(s)) :
              x \in Structure!Headings
                \/ \E k \in 1 .. Len(s.paragraphs) : x \in Range(s.paragraphs[k].text)
         /\ \A k \in 1 .. Len(s.paragraphs) : \A x \in Range(s.paragraphs[k].text) :
              x \in Range(SectionText(s)) /\ x \in Plain
  <1>. DEFINE texts == [k \in DOMAIN s.paragraphs |-> s.paragraphs[k].text]
              n == Len(s.paragraphs)
  <1>1. s.paragraphs \in Seq(Structure!Paragraph) /\ s.title \in Structure!Headings \cup {"Document"}
    BY DEF Opening
  <1>2. texts \in Seq(Seq(Structure!Lines)) /\ Len(texts) = n /\ DOMAIN s.paragraphs = 1 .. n
    BY <1>1, TextsAre
  <1>3. \A k \in 1 .. n : texts[k] = s.paragraphs[k].text
    BY <1>2
  <1>4. \A k \in 1 .. n : s.paragraphs[k] \in Structure!Paragraph
    BY <1>1
  <1>5. \A k \in 1 .. n : \A x \in Range(s.paragraphs[k].text) : x \in Plain
    <2>1. \A k \in 1 .. n : s.paragraphs[k].text \in Seq(Plain)
      BY <1>4 DEF Structure!Paragraph, Plain
    <2>2. ASSUME NEW q \in Seq(Plain), NEW x \in Range(q) PROVE x \in Plain
      <3>1. Range(q) = {q[i] : i \in 1 .. Len(q)} /\ \A i \in 1 .. Len(q) : q[i] \in Plain
        BY Lists
      <3>. QED
        BY <3>1
    <2>. QED
      BY <2>1, <2>2
  <1>6. Body(s) = Joined(texts)
    BY DEF Body
  <1>. HIDE DEF texts
  <1>7. \A x : x \in Range(Body(s)) <=> \E k \in 1 .. n : x \in Range(s.paragraphs[k].text)
    <2>1. \A x : x \in Range(Joined(texts)) <=> \E k \in 1 .. Len(texts) : x \in Range(texts[k])
      BY <1>2, JoinedRange
    <2>. QED
      BY <1>2, <1>3, <1>6, <2>1
  <1>8. \A x \in Range(Named(s)) : x \in Structure!Headings
    <2>1. CASE s.title = "Document"
      <3>1. Named(s) = <<>>
        BY <2>1 DEF Named
      <3>. QED
        BY <3>1 DEF Range
    <2>2. CASE s.title # "Document"
      <3>1. Named(s) = <<s.title>> /\ s.title \in Structure!Headings
        BY <1>1, <2>2 DEF Named
      <3>2. Range(<<s.title>>) = {s.title}
        BY DEF Range
      <3>. QED
        BY <3>1, <3>2
    <2>. QED
      BY <2>1, <2>2
  <1>9. Range(SectionText(s)) = Range(Named(s)) \cup Range(Body(s))
    BY SectionTextIs, RangeJoins DEF SectionText
  <1>. QED
    BY <1>5, <1>7, <1>8, <1>9

\* There is a paragraph where a line is text.
LEMMA ParagraphsHaveText ==
  ASSUME NEW sections, NEW p, Placed(sections, p), NEW kept, NEW d, Rest(kept, sections, d)
  PROVE  (\E i \in 1 .. Len(kept) : kept[i].paragraphs # <<>>)
           <=> \E x \in Range(TextOf(kept)) : x \notin Structure!Headings
  <1>. DEFINE n == Len(kept)
              texts == [i \in DOMAIN kept |-> SectionText(kept[i])]
  <1>1. kept \in Seq(Opening) /\ n \in Nat /\ \A i \in 1 .. n : kept[i] \in Opening
    BY DEF Rest
  <1>2. texts \in Seq(Seq(Structure!Lines)) /\ Len(texts) = n /\ DOMAIN kept = 1 .. n
    BY <1>1, TextOfIs
  <1>3. \A i \in 1 .. n : texts[i] = SectionText(kept[i])
    BY <1>2
  <1>4. TextOf(kept) = Joined(texts)
    BY DEF TextOf
  <1>. HIDE DEF texts
  <1>5. \A x : x \in Range(TextOf(kept)) <=> \E i \in 1 .. n : x \in Range(SectionText(kept[i]))
    <2>1. \A x : x \in Range(Joined(texts)) <=> \E i \in 1 .. Len(texts) : x \in Range(texts[i])
      BY <1>2, JoinedRange
    <2>. QED
      BY <1>2, <1>3, <1>4, <2>1
  <1>6. \A i \in 1 .. n : Worded(kept[i])
    <2>1. \A i \in 1 .. n : i + d \in 1 .. Len(sections) /\ kept[i] = sections[i + d]
      BY <1>1 DEF Rest, Placed
    <2>. QED
      BY <2>1 DEF Placed
  <1>7. ASSUME NEW i \in 1 .. n, kept[i].paragraphs # <<>>
        PROVE  \E x \in Range(TextOf(kept)) : x \notin Structure!Headings
    <2>1. kept[i] \in Opening /\ kept[i].paragraphs \in Seq(Structure!Paragraph)
      BY <1>1 DEF Opening
    <2>2. 1 \in 1 .. Len(kept[i].paragraphs) /\ kept[i].paragraphs[1] \in Structure!Paragraph
      BY <1>7, <2>1
    <2>. DEFINE t == kept[i].paragraphs[1].text
    <2>3. t \in Seq(Plain) /\ t # <<>>
      BY <1>6, <2>2 DEF Structure!Paragraph, Plain, Worded
    <2>. HIDE DEF t
    <2>4. t[1] \in Range(t)
      <3>1. 1 \in 1 .. Len(t) /\ Range(t) = {t[k] : k \in 1 .. Len(t)}
        BY <2>3, Lists
      <3>. QED
        BY <3>1
    <2>5. t[1] \in Range(SectionText(kept[i])) /\ t[1] \in Plain
      BY <2>1, <2>2, <2>4, SectionLines DEF t
    <2>. QED
      BY <1>5, <2>5 DEF Plain
  <1>8. ASSUME NEW x \in Range(TextOf(kept)), x \notin Structure!Headings
        PROVE  \E i \in 1 .. n : kept[i].paragraphs # <<>>
    <2>1. PICK i \in 1 .. n : x \in Range(SectionText(kept[i]))
      BY <1>5
    <2>2. PICK k \in 1 .. Len(kept[i].paragraphs) : x \in Range(kept[i].paragraphs[k].text)
      BY <1>1, <1>8, <2>1, SectionLines
    <2>3. kept[i].paragraphs # <<>>
      <3>1. Len(<<>>) = 0 /\ 1 .. 0 = {}
        OBVIOUS
      <3>. QED
        BY <2>2, <3>1
    <2>. QED
      BY <2>3
  <1>. QED
    BY <1>7, <1>8

\* What is read of a paper within the limits, and what is parsed of it.
Parse(pages, limits, parsed, read, text, images) ==
  /\ pages \in Seq(Structure!Pages) /\ limits \in Structure!Limits
  /\ parsed = Structure!Parsed(pages, limits) /\ read = Structure!ReadPages(pages, limits)
  /\ Sources(pages, text, images)
  /\ Structure!Source(pages) = text[Len(pages)] /\ Structure!Images(pages) = images[Len(pages)]
  /\ PageFits(read, pages, limits, text, images, Len(pages))
  /\ parsed.sections = Structure!Kept(read.sections)
  /\ parsed.figures = read.figures /\ parsed.tables = read.tables
  /\ parsed.equations = read.equations
  /\ parsed.references = Structure!References(parsed.sections)
  /\ parsed.error = None <=>
       /\ ~(Len(pages) > limits.pages) /\ read.error = None
       /\ \E i \in DOMAIN parsed.sections : parsed.sections[i].paragraphs # <<>>

LEMMA ParseIs ==
  ASSUME NEW pages \in Seq(Structure!Pages), NEW limits \in Structure!Limits
  PROVE  \E read, text, images :
           Parse(pages, limits, Structure!Parsed(pages, limits), read, text, images)
  <1>1. PICK text, images : /\ Sources(pages, text, images)
                            /\ Structure!Source(pages) = text[Len(pages)]
                            /\ Structure!Images(pages) = images[Len(pages)]
    BY SourcesExist
  <1>. DEFINE read == Structure!ReadPages(pages, limits)
              kept == Structure!Kept(read.sections)
              error == IF Len(pages) > limits.pages THEN "pages"
                       ELSE IF read.error # None THEN read.error
                       ELSE IF \A i \in DOMAIN kept : kept[i].paragraphs = <<>> THEN "malformed"
                       ELSE None
              parsed == Structure!Parsed(pages, limits)
  <1>2. parsed = [error |-> error, sections |-> kept, figures |-> read.figures,
                  tables |-> read.tables, equations |-> read.equations,
                  references |-> Structure!References(kept)]
    BY Zenon DEF Structure!Parsed
  <1>3. PageFits(read, pages, limits, text, images, Len(pages))
    BY <1>1, ReadPagesFit
  <1>. HIDE DEF read, kept, parsed
  <1>4. error = None <=> /\ ~(Len(pages) > limits.pages) /\ read.error = None
                         /\ \E i \in DOMAIN kept : kept[i].paragraphs # <<>>
    BY DocumentAssumption
  <1>. HIDE DEF error
  <1>5. /\ parsed.error = error /\ parsed.sections = kept /\ parsed.figures = read.figures
        /\ parsed.tables = read.tables /\ parsed.equations = read.equations
        /\ parsed.references = Structure!References(kept)
    BY <1>2
  <1>6. Parse(pages, limits, parsed, read, text, images)
    BY <1>1, <1>3, <1>4, <1>5 DEF Parse, parsed, read, kept
  <1>. QED
    BY <1>6 DEF parsed

LEMMA ParseKeeps ==
  ASSUME NEW pages, NEW limits, NEW parsed, NEW read, NEW text, NEW images,
         Parse(pages, limits, parsed, read, text, images), read.error = None
  PROVE  /\ Placed(read.sections, Len(pages)) /\ Len(pages) \in Nat
         /\ \E d : Rest(parsed.sections, read.sections, d)
         /\ TextOf(parsed.sections) = Structure!Written(Structure!Source(pages))
  <1>1. /\ LineFits(read, Structure!Written(Structure!Source(pages)), Len(pages))
        /\ read.pending = <<>> /\ Len(pages) \in Nat
    BY DEF Parse, PageFits
  <1>2. /\ Placed(read.sections, Len(pages)) /\ read.sections \in Seq(Opening)
        /\ TextOf(read.sections) \o <<>> = Structure!Written(Structure!Source(pages))
    BY <1>1 DEF LineFits, Placed
  <1>3. PICK d : Rest(parsed.sections, read.sections, d)
    BY <1>2, KeptIs DEF Parse
  <1>4. TextOf(parsed.sections) = TextOf(read.sections)
    BY <1>2, <1>3, KeptText
  <1>5. TextOf(read.sections) \o <<>> = TextOf(read.sections)
    BY <1>2, TextOfIs
  <1>. QED
    BY <1>1, <1>2, <1>3, <1>4, <1>5

LEMMA LimitsKept ==
  ASSUME NEW pages, NEW limits, NEW parsed, NEW read, NEW text, NEW images,
         Parse(pages, limits, parsed, read, text, images)
  PROVE  Structure!LimitsHold(pages, limits, parsed)
  <1>. DEFINE n == Len(pages)
              source == Structure!Source(pages)
              Chars(i) == Len(Structure!Written(Structure!Joined(pages[i].blocks)))
              allowed == /\ \A i \in DOMAIN pages :
                              /\ ~Structure!Exceeds(pages[i].images, limits.images)
                              /\ ~Structure!Exceeds(Chars(i), limits.pageChars)
                         /\ ~Structure!Exceeds(Structure!Images(pages), limits.allImages)
                         /\ Len(Structure!Written(source)) <= limits.chars
              worded == Structure!Range(source) \ (Structure!Headings \cup {"blank"}) # {}
              some == \E i \in DOMAIN parsed.sections : parsed.sections[i].paragraphs # <<>>
  <1>1. Structure!LimitsHold(pages, limits, parsed) <=>
          (parsed.error = None <=> n <= limits.pages /\ allowed /\ worded)
    BY Zenon DEF Structure!LimitsHold
  <1>2. n \in Nat /\ DOMAIN pages = 1 .. n /\ limits.pages \in Nat
    BY DEF Parse, Structure!Limits
  <1>3. allowed <=> Allowed(pages, limits, text, images, n)
    <2>1. \A i \in 1 .. n : Chars(i) = Len(Structure!Written(Joined(pages[i].blocks)))
      BY StructureFilters
    <2>2. source = text[n] /\ Structure!Images(pages) = images[n]
      BY DEF Parse
    <2>. HIDE DEF Chars, source, n
    <2>. QED
      BY <1>2, <2>1, <2>2 DEF Allowed
  <1>4. read.error = None <=> allowed
    BY <1>3 DEF Parse, PageFits
  <1>5. read.error = None => (some <=> worded)
    <2>. SUFFICES ASSUME read.error = None PROVE some <=> worded
      OBVIOUS
    <2>1. PICK d : Rest(parsed.sections, read.sections, d)
      BY ParseKeeps
    <2>2. Placed(read.sections, n) /\ TextOf(parsed.sections) = Structure!Written(source)
      BY ParseKeeps
    <2>3. DOMAIN parsed.sections = 1 .. Len(parsed.sections)
      BY <2>1 DEF Rest
    <2>4. some <=> \E x \in Range(Structure!Written(source)) : x \notin Structure!Headings
      BY <2>1, <2>2, <2>3, ParagraphsHaveText
    <2>5. Range(Structure!Written(source)) = Range(source) \ {"blank"}
      <3>1. source \in Seq(Structure!Lines)
        BY <1>2 DEF Parse, Sources
      <3>. QED
        BY <3>1, WrittenIs
    <2>6. Structure!Range(source) = Range(source)
      BY StructureFilters
    <2>. HIDE DEF source, some
    <2>. QED
      BY <2>4, <2>5, <2>6
  <1>6. parsed.error = None <=> ~(n > limits.pages) /\ read.error = None /\ some
    BY DEF Parse
  <1>. HIDE DEF allowed, worded, some
  <1>7. ~(n > limits.pages) <=> n <= limits.pages
    BY <1>2
  <1>. QED
    BY <1>1, <1>4, <1>5, <1>6, <1>7

LEMMA LinesKept ==
  ASSUME NEW pages, NEW limits, NEW parsed, NEW read, NEW text, NEW images,
         Parse(pages, limits, parsed, read, text, images), parsed.error = None
  PROVE  Structure!TextIsKept(pages, parsed)
  <1>. DEFINE kept == parsed.sections
              texts == [i \in DOMAIN kept |->
                          LET s == kept[i]
                          IN (IF s.title = "Document" THEN <<>> ELSE <<s.title>>)
                               \o Structure!Joined([k \in DOMAIN s.paragraphs |-> s.paragraphs[k].text])]
  <1>1. Structure!TextIsKept(pages, parsed)
          <=> Structure!Joined(texts) = Structure!Written(Structure!Source(pages))
    BY Zenon DEF Structure!TextIsKept
  <1>2. texts = [i \in DOMAIN kept |-> SectionText(kept[i])]
    <2>1. \A s : (IF s.title = "Document" THEN <<>> ELSE <<s.title>>)
                   \o Structure!Joined([k \in DOMAIN s.paragraphs |-> s.paragraphs[k].text])
                 = SectionText(s)
      BY StructureFilters, Zenon DEF SectionText, Named, Body
    <2>. QED
      BY <2>1, Zenon
  <1>3. Structure!Joined(texts) = TextOf(kept)
    <2>1. Structure!Joined(texts) = Joined(texts)
      BY StructureFilters, Zenon
    <2>. HIDE DEF texts
    <2>. QED
      BY <1>2, <2>1 DEF TextOf
  <1>4. read.error = None
    BY DEF Parse
  <1>5. TextOf(kept) = Structure!Written(Structure!Source(pages))
    BY <1>4, ParseKeeps
  <1>. HIDE DEF texts, kept
  <1>. QED
    BY <1>1, <1>3, <1>5

\* The sections that are kept all have pages.
LEMMA KeptStarted ==
  ASSUME NEW sections, NEW p, Placed(sections, p), NEW kept, NEW d, Rest(kept, sections, d),
         NEW i \in 1 .. Len(kept)
  PROVE  /\ i + d \in 1 .. Len(sections) /\ kept[i] = sections[i + d] /\ kept[i] \in Opening
         /\ Started(kept[i], p)
  <1>1. /\ d \in {0, 1} /\ Len(kept) = Len(sections) - d /\ Len(sections) \in Nat /\ i \in Nat \ {0}
        /\ kept[i] = sections[i + d] /\ kept[i] \in Opening
        /\ d = 0 => sections[1].paragraphs # <<>>
    BY DEF Rest, Placed
  <1>2. i + d \in 1 .. Len(sections) /\ (i + d = 1 => d = 0)
    BY <1>1
  <1>3. Started(sections[i + d], p) \/ (i + d = 1 /\ Untouched(sections[i + d]))
    BY <1>2 DEF Placed
  <1>4. ~(i + d = 1 /\ Untouched(sections[i + d]))
    BY <1>1, <1>2 DEF Untouched
  <1>. QED
    BY <1>1, <1>2, <1>3, <1>4

LEMMA PagesFollow ==
  ASSUME NEW pages, NEW limits, NEW parsed, NEW read, NEW text, NEW images,
         Parse(pages, limits, parsed, read, text, images), parsed.error = None
  PROVE  Structure!PagesAgree(pages, parsed)
  <1>. DEFINE n == Len(pages)
              kept == parsed.sections
  <1>1. read.error = None
    BY DEF Parse
  <1>2. Placed(read.sections, n) /\ n \in Nat
    BY <1>1, ParseKeeps
  <1>3. PICK d : Rest(kept, read.sections, d)
    BY <1>1, ParseKeeps
  <1>. HIDE DEF kept, n
  <1>4. DOMAIN kept = 1 .. Len(kept) /\ Len(kept) \in Nat /\ d \in {0, 1}
    BY <1>3 DEF Rest
  <1>5. ASSUME NEW i \in DOMAIN kept
        PROVE  LET s == kept[i]
               IN /\ s \in Structure!Section
                  /\ 1 <= s.from /\ s.from <= s.to /\ s.to <= n
                  /\ \A k \in DOMAIN s.paragraphs : s.paragraphs[k].page \in s.from .. s.to
                  /\ i > 1 => kept[i - 1].to <= s.from
    <2>. DEFINE s == kept[i]
    <2>1. /\ i + d \in 1 .. Len(read.sections) /\ s = read.sections[i + d] /\ s \in Opening
          /\ Started(s, n)
      BY <1>2, <1>3, <1>4, KeptStarted
    <2>2. s \in Structure!Section
      BY <2>1 DEF Opening, Structure!Section, Started
    <2>3. DOMAIN s.paragraphs = 1 .. Len(s.paragraphs)
      BY <2>1 DEF Opening
    <2>4. ASSUME i > 1 PROVE kept[i - 1].to <= s.from
      <3>1. i - 1 \in 1 .. Len(kept) /\ i \in Nat
        BY <1>4, <2>4
      <3>2. kept[i - 1] = read.sections[(i - 1) + d] /\ Started(kept[i - 1], n)
        BY <1>2, <1>3, <3>1, KeptStarted
      <3>3. i + d \in 2 .. Len(read.sections) /\ (i - 1) + d = (i + d) - 1
        BY <1>4, <2>1, <2>4, <3>1
      <3>4. kept[i - 1].to = None \/ kept[i - 1].to <= s.from
        BY <1>2, <2>1, <3>2, <3>3 DEF Placed
      <3>. QED
        BY <3>2, <3>4, UsersAssumption DEF Started
    <2>. HIDE DEF s
    <2>5. /\ 1 <= s.from /\ s.from <= s.to /\ s.to <= n
          /\ \A k \in DOMAIN s.paragraphs : s.paragraphs[k].page \in s.from .. s.to
      BY <2>1, <2>3 DEF Started
    <2>. QED
      BY <2>2, <2>4, <2>5 DEF s
  <1>. QED
    BY <1>5, Zenon DEF Structure!PagesAgree, kept, n

---------------------------------------------------------------------------
(* Documents: the parents of sections. *)

LEMMA GreatestNumber ==
  ASSUME NEW S \in SUBSET Nat, NEW b \in Nat, \A x \in S : x < b, S # {}
  PROVE  \E m \in S : \A x \in S : x <= m
  <1>. DEFINE T == {b - x : x \in S}
  <1>1. T \in SUBSET Nat /\ T # {}
    <2>1. \A x \in S : b - x \in Nat /\ b - x \in T
      OBVIOUS
    <2>. QED
      BY <2>1
  <1>2. PICK t \in T : \A y \in T : t <= y
    <2>. HIDE DEF T
    <2>. QED
      BY <1>1, LeastNumber
  <1>3. PICK m \in S : t = b - m
    BY <1>2
  <1>4. ASSUME NEW x \in S PROVE x <= m
    <2>1. b - m <= b - x
      BY <1>2, <1>3
    <2>. QED
      BY <2>1
  <1>. QED
    BY <1>4

Tree == [open: UNION {[L -> Nat] : L \in SUBSET Nat}, parents: Seq(Nat \cup {None})]

\* The parent of the k-th section is the nearest one before with a lower level.
Right(parent, sections, k) ==
  IF parent = None THEN \A j \in 1 .. (k - 1) : ~(sections[j].level < sections[k].level)
  ELSE /\ parent \in 1 .. (k - 1) /\ sections[parent].level < sections[k].level
       /\ \A j \in (parent + 1) .. (k - 1) : ~(sections[j].level < sections[k].level)

\* The open sections after i: deeper ones come later, and none before one of
\* them could still be a parent where it could not.
OpenFits(open, sections, i) ==
  /\ open \in [DOMAIN open -> 1 .. i] /\ DOMAIN open \subseteq Nat
  /\ \A l \in DOMAIN open : sections[open[l]].level = l
  /\ \A l \in DOMAIN open : \A m \in DOMAIN open : l < m => open[l] < open[m]
  /\ \A j \in 1 .. i : \E l \in DOMAIN open : l <= sections[j].level /\ j <= open[l]

NestFits(s, sections, i) ==
  /\ s \in Tree /\ Len(s.parents) = i
  /\ \A k \in 1 .. i : Right(s.parents[k], sections, k)
  /\ OpenFits(s.open, sections, i)

LEMMA ParentIsRight ==
  ASSUME NEW sections \in Seq(Opening), NEW i \in 1 .. Len(sections), NEW open,
         OpenFits(open, sections, i - 1)
  PROVE  /\ Right(Structure!ParentOf(sections[i].level, open), sections, i)
         /\ Structure!ParentOf(sections[i].level, open) \in Nat \cup {None}
  <1>. DEFINE level == sections[i].level
              above == {l \in DOMAIN open : l < level}
              parent == Structure!ParentOf(level, open)
  <1>1. /\ i \in Nat \ {0} /\ level \in Nat
        /\ \A j \in 1 .. Len(sections) : sections[j].level \in Nat
    <2>1. \A j \in 1 .. Len(sections) : sections[j] \in Opening
      OBVIOUS
    <2>. QED
      BY <2>1 DEF Opening
  <1>2. parent = IF above = {} THEN None ELSE open[CHOOSE l \in above : \A k \in above : k <= l]
    BY Zenon DEF Structure!ParentOf
  <1>3. \A j \in 1 .. (i - 1) : sections[j].level \in Nat
        /\ \E l \in DOMAIN open : l \in Nat /\ l <= sections[j].level /\ j <= open[l] /\ open[l] \in 1 .. (i - 1)
    BY <1>1 DEF OpenFits
  <1>. HIDE DEF level, parent
  <1>4. CASE above = {}
    <2>1. parent = None
      BY <1>2, <1>4
    <2>2. ASSUME NEW j \in 1 .. (i - 1) PROVE ~(sections[j].level < level)
      <3>1. PICK l \in DOMAIN open : l \in Nat /\ l <= sections[j].level
        BY <1>3
      <3>2. sections[j].level \in Nat /\ ~(l < level)
        BY <1>3, <1>4
      <3>. QED
        BY <1>1, <3>1, <3>2
    <2>. QED
      BY <2>1, <2>2 DEF Right, level, parent
  <1>5. CASE above # {}
    <2>. DEFINE m == CHOOSE l \in above : \A k \in above : k <= l
    <2>1. above \in SUBSET Nat /\ \A x \in above : x < level
      BY DEF OpenFits
    <2>2. m \in above /\ \A k \in above : k <= m
      <3>1. \E l \in above : \A k \in above : k <= l
        <4>. HIDE DEF above
        <4>. QED
          BY <1>1, <1>5, <2>1, GreatestNumber
      <3>. HIDE DEF above
      <3>. QED
        BY <3>1
    <2>. HIDE DEF m
    <2>3. parent = open[m]
      BY <1>2, <1>5 DEF m
    <2>4. /\ m \in DOMAIN open /\ m \in Nat /\ m < level
          /\ parent \in 1 .. (i - 1) /\ sections[parent].level = m
      BY <2>1, <2>2, <2>3 DEF OpenFits
    <2>5. parent # None
      BY <1>1, <2>4, UsersAssumption
    <2>6. ASSUME NEW j \in (parent + 1) .. (i - 1), sections[j].level < level
          PROVE  FALSE
      <3>1. j \in 1 .. (i - 1) /\ parent < j
        BY <1>1, <2>4
      <3>2. PICK l \in DOMAIN open : /\ l \in Nat /\ l <= sections[j].level /\ j <= open[l]
                                     /\ open[l] \in 1 .. (i - 1)
        BY <1>3, <3>1
      <3>3. sections[j].level \in Nat
        BY <1>3, <3>1
      <3>4. l \in above /\ l <= m
        BY <1>1, <2>2, <2>6, <3>2, <3>3
      <3>5. l < m => open[l] < open[m]
        BY <2>4, <3>2 DEF OpenFits
      <3>6. CASE l = m
        BY <1>1, <2>3, <2>4, <3>1, <3>2, <3>6
      <3>7. CASE l # m
        <4>1. open[l] < parent
          BY <2>3, <2>4, <3>2, <3>4, <3>5, <3>7
        <4>. QED
          BY <1>1, <2>4, <3>1, <3>2, <4>1
      <3>. QED
        BY <3>6, <3>7
    <2>7. sections[parent].level < level
      BY <2>4
    <2>. QED
      BY <1>1, <2>4, <2>5, <2>6, <2>7 DEF Right, level, parent
  <1>. QED
    BY <1>4, <1>5

LEMMA NestedFits ==
  ASSUME NEW sections \in Seq(Opening), NEW i \in 1 .. Len(sections), NEW s,
         NestFits(s, sections, i - 1)
  PROVE  NestFits(Structure!Nested(s, sections, i), sections, i)
  <1>. DEFINE level == sections[i].level
              D == {l \in DOMAIN s.open : l < level} \cup {level}
              open == [l \in D |-> IF l = level THEN i ELSE s.open[l]]
              parent == Structure!ParentOf(level, s.open)
              parents == Append(s.parents, parent)
              t == Structure!Nested(s, sections, i)
  <1>1. t = [open |-> open, parents |-> parents]
    BY Zenon DEF Structure!Nested
  <1>2. /\ i \in Nat \ {0} /\ level \in Nat
        /\ \A j \in 1 .. Len(sections) : sections[j].level \in Nat
    <2>1. \A j \in 1 .. Len(sections) : sections[j] \in Opening
      OBVIOUS
    <2>. QED
      BY <2>1 DEF Opening
  <1>3. OpenFits(s.open, sections, i - 1) /\ s \in Tree /\ Len(s.parents) = i - 1
        /\ s.parents \in Seq(Nat \cup {None})
    BY DEF NestFits, Tree
  <1>4. Right(parent, sections, i) /\ parent \in Nat \cup {None}
    BY <1>3, ParentIsRight
  <1>. HIDE DEF parent, t
  <1>5. /\ parents \in Seq(Nat \cup {None}) /\ Len(parents) = i /\ parents[i] = parent
        /\ \A k \in 1 .. (i - 1) : parents[k] = s.parents[k]
    BY <1>2, <1>3, <1>4
  <1>. HIDE DEF parents
  <1>6. \A k \in 1 .. i : Right(parents[k], sections, k)
    <2>1. \A k \in 1 .. i : k = i \/ k \in 1 .. (i - 1)
      BY <1>2
    <2>2. \A k \in 1 .. (i - 1) : Right(s.parents[k], sections, k)
      BY DEF NestFits
    <2>. QED
      BY <1>4, <1>5, <2>1, <2>2
  <1>. DEFINE old == s.open
  <1>7. /\ \A l \in DOMAIN old : l \in Nat /\ old[l] \in 1 .. (i - 1) /\ sections[old[l]].level = l
        /\ \A l \in DOMAIN old : \A m \in DOMAIN old : l < m => old[l] < old[m]
        /\ \A j \in 1 .. (i - 1) : \E l \in DOMAIN old : l <= sections[j].level /\ j <= old[l]
    BY <1>3 DEF OpenFits
  <1>. HIDE DEF old
  <1>8. /\ DOMAIN open = D /\ open[level] = i /\ level \in D
        /\ \A l \in D : l # level => l \in DOMAIN old /\ l < level /\ open[l] = old[l]
        /\ \A l \in DOMAIN old : l < level => l \in D /\ open[l] = old[l]
    BY <1>2, <1>7 DEF old
  <1>9. open \in [D -> 1 .. i] /\ D \subseteq Nat
    BY <1>2, <1>7 DEF old
  <1>. HIDE DEF open, D, level
  <1>10. \A l \in D : sections[open[l]].level = l
    BY <1>7, <1>8 DEF level
  <1>11. ASSUME NEW l \in D, NEW m \in D, l < m PROVE open[l] < open[m]
    <2>1. l \in Nat /\ m \in Nat
      BY <1>9
    <2>2. l # level
      <3>1. m = level \/ m < level
        BY <1>8
      <3>. QED
        BY <1>2, <1>11, <2>1, <3>1
    <2>3. l \in DOMAIN old /\ open[l] = old[l] /\ old[l] \in 1 .. (i - 1)
      BY <1>7, <1>8, <2>2
    <2>4. CASE m = level
      BY <1>2, <1>8, <2>3, <2>4
    <2>5. CASE m # level
      BY <1>7, <1>8, <1>11, <2>3, <2>5
    <2>. QED
      BY <2>4, <2>5
  <1>12. ASSUME NEW j \in 1 .. i PROVE \E l \in D : l <= sections[j].level /\ j <= open[l]
    <2>1. CASE j = i
      BY <1>2, <1>8, <2>1 DEF level
    <2>2. CASE j # i
      <3>1. j \in 1 .. (i - 1) /\ j \in 1 .. Len(sections)
        BY <1>2, <2>2
      <3>2. PICK l \in DOMAIN old : l <= sections[j].level /\ j <= old[l]
        BY <1>7, <3>1
      <3>3. l \in Nat /\ sections[j].level \in Nat
        BY <1>2, <1>7, <3>1
      <3>4. CASE l < level
        BY <1>8, <3>2, <3>4
      <3>5. CASE ~(l < level)
        <4>1. level <= sections[j].level /\ j <= i
          BY <1>2, <3>1, <3>2, <3>3, <3>5
        <4>. QED
          BY <1>8, <4>1
      <3>. QED
        BY <3>4, <3>5
    <2>. QED
      BY <2>1, <2>2
  <1>13. OpenFits(open, sections, i)
    BY <1>8, <1>9, <1>10, <1>11, <1>12 DEF OpenFits
  <1>14. t.open = open /\ t.parents = parents /\ t \in Tree
    <2>1. open \in [D -> Nat]
      BY <1>2, <1>9
    <2>2. open \in UNION {[L -> Nat] : L \in SUBSET Nat}
      BY <1>9, <2>1
    <2>. QED
      BY <1>1, <1>5, <2>2 DEF Tree
  <1>. QED
    BY <1>5, <1>6, <1>13, <1>14 DEF NestFits, t

LEMMA ParentsAre ==
  ASSUME NEW sections \in Seq(Opening)
  PROVE  \A k \in 1 .. Len(sections) : Right(Structure!Parents(sections)[k], sections, k)
  <1>. DEFINE n == Len(sections)
              start == [open |-> <<>>, parents |-> <<>>]
              Fit(x, i) == NestFits(x, sections, i)
              Turned(x, i) == Structure!Nested(x, sections, i)
              stage == [i \in 0 .. n |-> {x \in Tree : Fit(x, i)}]
              turn == [i \in 1 .. n |-> [x \in Tree |-> IF x \in stage[i - 1] THEN Turned(x, i) ELSE start]]
              Runs(f) == f = [i \in 0 .. n |-> IF i = 0 THEN start
                                ELSE Structure!Nested(f[i - 1], sections, i)]
              h == CHOOSE f : Runs(f)
  <1>1. n \in Nat
    OBVIOUS
  <1>2. Structure!Parents(sections) = h[n].parents
    BY Zenon DEF Structure!Parents
  <1>. HIDE DEF h
  <1>3. Fit(start, 0)
    <2>1. <<>> = [l \in {} |-> 0]
      OBVIOUS
    <2>2. <<>> \in [{} -> Nat] /\ DOMAIN <<>> = {} /\ <<>> \in Seq(Nat \cup {None}) /\ Len(<<>>) = 0
      BY <2>1
    <2>3. <<>> \in UNION {[L -> Nat] : L \in SUBSET Nat}
      BY <2>2
    <2>4. start \in Tree
      BY <2>2, <2>3 DEF Tree
    <2>5. OpenFits(<<>>, sections, 0)
      BY <2>1, <2>2 DEF OpenFits
    <2>. QED
      BY <2>2, <2>4, <2>5 DEF NestFits
  <1>. HIDE DEF start
  <1>4. \A i \in 1 .. n : \A x : Fit(x, i - 1) => Fit(Turned(x, i), i)
    BY NestedFits
  <1>5. \A x, i : Fit(x, i) => x \in Tree
    BY DEF NestFits
  <1>. HIDE DEF n, Fit, Turned
  <1>6. /\ stage \in [0 .. n -> SUBSET Tree]
        /\ \A i \in 0 .. n : \A x : x \in stage[i] <=> x \in Tree /\ Fit(x, i)
    OBVIOUS
  <1>. HIDE DEF stage
  <1>7. start \in stage[0] /\ start \in Tree
    BY <1>1, <1>3, <1>5, <1>6
  <1>8. \A i \in 1 .. n : \A x \in stage[i - 1] : Turned(x, i) \in Tree /\ Turned(x, i) \in stage[i]
    <2>1. \A i \in 1 .. n : i \in 0 .. n /\ i - 1 \in 0 .. n
      BY <1>1
    <2>. QED
      BY <1>4, <1>5, <1>6, <2>1
  <1>9. /\ turn \in [1 .. n -> [Tree -> Tree]]
        /\ \A i \in 1 .. n : \A x \in stage[i - 1] : turn[i][x] = Turned(x, i)
    <2>1. turn \in [1 .. n -> [Tree -> Tree]]
      BY <1>7, <1>8
    <2>2. ASSUME NEW i \in 1 .. n, NEW x \in stage[i - 1]
          PROVE  turn[i][x] = Turned(x, i)
      <3>1. x \in Tree
        BY <1>1, <1>6
      <3>. QED
        BY <3>1
    <2>. QED
      BY <2>1, <2>2
  <1>. HIDE DEF turn
  <1>10. Leads(n, Tree, stage, start, turn)
    <2>1. \A i \in 1 .. n : \A x \in stage[i - 1] : turn[i][x] \in stage[i]
      BY <1>8, <1>9
    <2>. QED
      BY <1>1, <1>6, <1>7, <1>9, <2>1 DEF Leads
  <1>11. \E f : Runs(f)
    <2>1. PICK f : Recurs(f, n, Tree, start, turn) /\ Stays(f, n, stage)
      BY <1>10, LeadsRuns, Zenon
    <2>2. f \in [0 .. n -> Tree] /\ f[0] = start /\ \A i \in 1 .. n : f[i] = turn[i][f[i - 1]]
      BY <2>1 DEF Recurs
    <2>3. \A i \in 1 .. n : f[i] = Structure!Nested(f[i - 1], sections, i)
      <3>1. \A i \in 1 .. n : f[i - 1] \in stage[i - 1]
        BY <1>1, <2>1 DEF Stays
      <3>. QED
        BY <1>9, <2>2, <3>1 DEF Turned
    <2>4. \A i \in 0 .. n : i # 0 => i \in 1 .. n
      BY <1>1
    <2>. QED
      BY <2>2, <2>3, <2>4
  <1>12. Runs(h)
    <2>. HIDE DEF Runs
    <2>. QED
      BY <1>11 DEF h
  <1>13. h[0] = start /\ \A i \in 1 .. n : h[i] = Turned(h[i - 1], i)
    <2>1. 0 \in 0 .. n /\ \A i \in 1 .. n : i \in 0 .. n /\ i # 0
      BY <1>1
    <2>. QED
      BY <1>12, <2>1 DEF Turned
  <1>14. h[n] \in stage[n]
    <2>1. Follows(h, n, stage, start, turn)
      BY <1>9, <1>13 DEF Follows
    <2>2. Stays(h, n, stage)
      BY <1>10, <2>1, FollowsStays, Zenon
    <2>. QED
      BY <1>1, <2>2 DEF Stays
  <1>15. NestFits(h[n], sections, n)
    BY <1>1, <1>6, <1>14 DEF Fit
  <1>. QED
    BY <1>2, <1>15 DEF NestFits, n

LEMMA ParentsAreNearest ==
  ASSUME NEW parsed, parsed.sections \in Seq(Opening)
  PROVE  Structure!ParentsNest(parsed)
  <1>. DEFINE kept == parsed.sections
              Shallower(j, i) == j < i /\ kept[j].level < kept[i].level
              parent(i) == Structure!Parents(kept)[i]
              Nearest(i) == IF parent(i) = None THEN \A j \in DOMAIN kept : ~Shallower(j, i)
                            ELSE Shallower(parent(i), i)
                                 /\ \A j \in parent(i) + 1 .. i : ~Shallower(j, i)
  <1>1. DOMAIN kept = 1 .. Len(kept) /\ Len(kept) \in Nat
    OBVIOUS
  <1>2. \A i \in 1 .. Len(kept) : Right(parent(i), kept, i)
    BY ParentsAre
  <1>. HIDE DEF kept, parent
  <1>3. ASSUME NEW i \in DOMAIN kept PROVE Nearest(i)
    <2>1. i \in Nat /\ i \in 1 .. Len(kept) /\ Right(parent(i), kept, i)
      BY <1>1, <1>2
    <2>2. CASE parent(i) = None
      <3>1. \A j \in 1 .. (i - 1) : ~(kept[j].level < kept[i].level)
        BY <2>1, <2>2 DEF Right
      <3>2. \A j \in DOMAIN kept : j < i => j \in 1 .. (i - 1)
        BY <1>1, <2>1
      <3>. QED
        BY <2>2, <3>1, <3>2
    <2>3. CASE parent(i) # None
      <3>1. /\ parent(i) \in 1 .. (i - 1) /\ kept[parent(i)].level < kept[i].level
            /\ \A j \in (parent(i) + 1) .. (i - 1) : ~(kept[j].level < kept[i].level)
        BY <2>1, <2>3 DEF Right
      <3>2. \A j \in parent(i) + 1 .. i : j < i => j \in (parent(i) + 1) .. (i - 1)
        BY <2>1, <3>1
      <3>3. parent(i) < i
        BY <2>1, <3>1
      <3>. QED
        BY <2>3, <3>1, <3>2, <3>3
    <2>. QED
      BY <2>2, <2>3
  <1>. QED
    BY <1>3, Zenon DEF Structure!ParentsNest, kept, parent

---------------------------------------------------------------------------
(* Documents: evidence. *)

LEMMA ConcatAt ==
  ASSUME NEW X, NEW a \in Seq(X), NEW b \in Seq(X)
  PROVE  /\ a \o b \in Seq(X) /\ Len(a \o b) = Len(a) + Len(b)
         /\ Len(a) \in Nat /\ Len(b) \in Nat
         /\ \A i \in 1 .. Len(a) : (a \o b)[i] = a[i]
         /\ \A i \in 1 .. Len(b) : (a \o b)[Len(a) + i] = b[i]
  OBVIOUS

LEMMA SameList ==
  ASSUME NEW X, NEW a \in Seq(X), NEW Y, NEW b \in Seq(Y), Len(a) = Len(b),
         \A i \in 1 .. Len(a) : a[i] = b[i]
  PROVE  a = b
  <1>1. a = [i \in 1 .. Len(a) |-> a[i]] /\ b = [i \in 1 .. Len(a) |-> b[i]]
    OBVIOUS
  <1>. QED
    BY <1>1

\* The members of S are one piece of the list, q items from place p on.
Part(items, p, q) == [i \in 1 .. q |-> items[p + i]]
Together(items, S, p, q) ==
  /\ p \in Nat /\ q \in Nat /\ p + q <= Len(items)
  /\ \A i \in 1 .. Len(items) : items[i] \in S <=> i \in (p + 1) .. (p + q)

LEMMA AmongPiece ==
  ASSUME NEW X, NEW items \in Seq(X), NEW p, NEW q, NEW S, Together(items, S, p, q)
  PROVE  Among(items, S) = Part(items, p, q)
  <1>0. /\ p \in Nat /\ q \in Nat /\ p + q <= Len(items)
        /\ \A i \in 1 .. Len(items) : items[i] \in S <=> i \in (p + 1) .. (p + q)
    BY DEF Together
  <1>. DEFINE n == Len(items)
              rest == n - (p + q)
              part(k, from) == [i \in 1 .. k |-> items[from + i]]
  <1>1. n \in Nat /\ rest \in Nat /\ \A i \in 1 .. n : items[i] \in X
    BY <1>0
  <1>2. /\ \A i \in 1 .. p : i \in 1 .. n /\ ~(i \in (p + 1) .. (p + q))
        /\ \A i \in 1 .. q : p + i \in 1 .. n /\ p + i \in (p + 1) .. (p + q)
        /\ \A i \in 1 .. rest : (p + q) + i \in 1 .. n /\ ~((p + q) + i \in (p + 1) .. (p + q))
    BY <1>0, <1>1
  <1>. HIDE DEF n, rest
  <1>3. PICK a, b, c :
          /\ a \in Seq(X) /\ Len(a) = p /\ (\A i \in 1 .. p : a[i] = items[i])
          /\ b \in Seq(X) /\ Len(b) = q /\ (\A i \in 1 .. q : b[i] = items[p + i])
          /\ c \in Seq(X) /\ Len(c) = rest /\ (\A i \in 1 .. rest : c[i] = items[(p + q) + i])
          /\ b = part(q, p)
    <2>0. p \in Nat /\ q \in Nat
      BY <1>0
    <2>1. /\ part(p, 0) \in Seq(X) /\ Len(part(p, 0)) = p /\ (\A i \in 1 .. p : part(p, 0)[i] = items[i])
      BY <1>1, <1>2, <2>0
    <2>2. /\ part(q, p) \in Seq(X) /\ Len(part(q, p)) = q
          /\ (\A i \in 1 .. q : part(q, p)[i] = items[p + i])
      BY <1>1, <1>2, <2>0
    <2>3. /\ part(rest, p + q) \in Seq(X) /\ Len(part(rest, p + q)) = rest
          /\ (\A i \in 1 .. rest : part(rest, p + q)[i] = items[(p + q) + i])
      BY <1>1, <1>2, <2>0
    <2>. HIDE DEF part
    <2>. QED
      BY <2>1, <2>2, <2>3
  <1>. HIDE DEF part
  <1>10. a \in Seq(X) /\ b \in Seq(X) /\ c \in Seq(X) /\ a \o b \in Seq(X)
    BY <1>0, <1>3, ConcatAt
  <1>11. PICK ab : ab = a \o b
    OBVIOUS
  <1>12. /\ ab \in Seq(X) /\ Len(ab) = p + q
         /\ (\A i \in 1 .. p : ab[i] = a[i]) /\ (\A i \in 1 .. q : ab[p + i] = b[i])
    <2>1. /\ Len(a \o b) = Len(a) + Len(b)
          /\ \A i \in 1 .. Len(a) : (a \o b)[i] = a[i]
          /\ \A i \in 1 .. Len(b) : (a \o b)[Len(a) + i] = b[i]
      BY <1>10, ConcatAt
    <2>. QED
      BY <1>3, <1>10, <1>11, <2>1
  <1>13. ab \in Seq(X) /\ c \in Seq(X)
    BY <1>10, <1>12
  <1>4. ab \o c = items
    <2>1. PICK abc : abc = ab \o c
      OBVIOUS
    <2>2. /\ abc \in Seq(X) /\ Len(abc) = (p + q) + rest
          /\ (\A i \in 1 .. (p + q) : abc[i] = ab[i])
          /\ (\A i \in 1 .. rest : abc[(p + q) + i] = c[i])
      <3>1. /\ ab \o c \in Seq(X) /\ Len(ab \o c) = Len(ab) + Len(c)
            /\ \A i \in 1 .. Len(ab) : (ab \o c)[i] = ab[i]
            /\ \A i \in 1 .. Len(c) : (ab \o c)[Len(ab) + i] = c[i]
        BY <1>10, <1>13, ConcatAt
      <3>2. Len(ab) = p + q /\ Len(c) = rest
        BY <1>3, <1>12
      <3>. HIDE DEF rest
      <3>. QED
        BY <2>1, <3>1, <3>2
    <2>3. (p + q) + rest = n
      BY <1>0, <1>1 DEF rest, n
    <2>4. ASSUME NEW i \in 1 .. n PROVE abc[i] = items[i]
      <3>1. CASE i \in 1 .. p
        BY <1>3, <1>12, <2>2, <3>1
      <3>2. CASE i \in (p + 1) .. (p + q)
        <4>1. i - p \in 1 .. q /\ p + (i - p) = i /\ i \in 1 .. (p + q)
          BY <1>0, <3>2
        <4>2. abc[i] = ab[i] /\ ab[p + (i - p)] = b[i - p] /\ b[i - p] = items[p + (i - p)]
          BY <1>0, <1>3, <1>12, <2>2, <4>1
        <4>. QED
          BY <4>1, <4>2
      <3>3. CASE i > p + q
        <4>1. i - (p + q) \in 1 .. rest /\ (p + q) + (i - (p + q)) = i
          BY <1>0, <1>1, <2>3, <3>3
        <4>2. abc[(p + q) + (i - (p + q))] = c[i - (p + q)]
              /\ c[i - (p + q)] = items[(p + q) + (i - (p + q))]
          BY <1>3, <2>2, <4>1
        <4>. QED
          BY <4>1, <4>2
      <3>. QED
        BY <1>0, <1>1, <3>1, <3>2, <3>3
    <2>5. abc = items
      BY <2>2, <2>3, <2>4, SameList DEF n
    <2>. QED
      BY <2>1, <2>2, <2>5
  <1>5. Among(a, S) = <<>>
    <2>1. \A i \in 1 .. Len(a) : a[i] \notin S
      BY <1>0, <1>2, <1>3 DEF n
    <2>. QED
      BY <1>3, <2>1, AmongNone
  <1>6. Among(c, S) = <<>>
    <2>1. \A i \in 1 .. Len(c) : c[i] \notin S
      BY <1>0, <1>2, <1>3 DEF n
    <2>. QED
      BY <1>3, <2>1, AmongNone
  <1>7. Among(b, S) = b
    <2>1. \A i \in 1 .. Len(b) : b[i] \in S
      BY <1>0, <1>2, <1>3, ZenonT(60) DEF n
    <2>. QED
      BY <1>3, <2>1, AmongAll
  <1>8. Among(items, S) = (Among(a, S) \o Among(b, S)) \o Among(c, S)
    <2>1. Among(ab \o c, S) = Among(ab, S) \o Among(c, S)
      BY <1>13, AmongJoins
    <2>2. Among(a \o b, S) = Among(a, S) \o Among(b, S)
      BY <1>10, AmongJoins, SMTT(60)
    <2>. QED
      BY <1>4, <1>11, <2>1, <2>2
  <1>9. (<<>> \o b) \o <<>> = b
    BY <1>3
  <1>. QED
    BY <1>3, <1>5, <1>6, <1>7, <1>8, <1>9 DEF part, Part

Entry == [text: Seq(Structure!Lines), page: Nat \cup {None}]
Things == [kind: {"paragraph", "figure", "table", "equation", "reference"},
           section: Nat \cup {None}, evidence: Nat \cup {None},
           text: Seq(Structure!Lines), page: Nat \cup {None}]
Records == [id: Nat, of: Things]

\* Items that bring their own place or none are numbered by their places.
LEMMA RegisteredInOrder ==
  ASSUME NEW items \in Seq(Things),
         \A i \in 1 .. Len(items) : items[i].evidence = None \/ items[i].evidence = i
  PROVE  LET e == Structure!AllRegistered(items)
         IN  /\ e \in Seq(Records) /\ Len(e) = Len(items)
             /\ \A i \in 1 .. Len(items) : e[i] = [id |-> i, of |-> items[i]]
  <1>. DEFINE n == Len(items)
              record(i) == [id |-> i, of |-> items[i]]
              upTo(i) == [k \in 1 .. i |-> record(k)]
              Runs(f) == f = [i \in 0 .. n |-> IF i = 0 THEN <<>>
                                ELSE Structure!Registered(f[i - 1], items[i])]
              F == [i \in 0 .. n |-> upTo(i)]
              h == CHOOSE f : Runs(f)
              e == Structure!AllRegistered(items)
  <1>1. n \in Nat /\ \A i \in 1 .. n : items[i] \in Things /\ i \in Nat
    OBVIOUS
  <1>2. e = h[n]
    BY Zenon DEF Structure!AllRegistered
  <1>3. \A i \in 1 .. n : record(i) \in Records
    BY <1>1 DEF Records
  <1>. HIDE DEF h, e, n
  <1>4. \A i \in 0 .. n : upTo(i) \in Seq(Records) /\ Len(upTo(i)) = i
    <2>1. \A i \in 0 .. n : \A k \in 1 .. i : k \in 1 .. n
      BY <1>1
    <2>. HIDE DEF record
    <2>. QED
      BY <1>3, <2>1
  <1>5. ASSUME NEW i \in 1 .. n
        PROVE  Structure!Registered(upTo(i - 1), items[i]) = upTo(i)
    <2>. DEFINE s == upTo(i - 1)
    <2>1. /\ i - 1 \in 0 .. n /\ i \in 0 .. n /\ s \in Seq(Records) /\ Len(s) = i - 1 /\ i \in Nat
          /\ upTo(i) \in Seq(Records) /\ Len(upTo(i)) = i
      BY <1>1, <1>4
    <2>2. /\ \A k \in 1 .. (i - 1) : s[k] = record(k)
          /\ \A k \in 1 .. i : upTo(i)[k] = record(k)
      OBVIOUS
    <2>3. record(i) \in Records
      BY <1>3
    <2>4. Structure!Registered(s, items[i]) = Append(s, record(i))
      <3>1. items[i].evidence = None \/ items[i].evidence = i
        BY DEF n
      <3>2. i # None
        BY <2>1, UsersAssumption
      <3>. HIDE DEF s
      <3>. QED
        BY <2>1, <3>1, <3>2 DEF Structure!Registered
    <2>. HIDE DEF s, record, upTo
    <2>5. Append(s, record(i)) \in Seq(Records) /\ Len(Append(s, record(i))) = i
          /\ \A k \in 1 .. i : Append(s, record(i))[k] = record(k)
      <3>1. \A k \in 1 .. i : k = i \/ k \in 1 .. (i - 1)
        BY <2>1
      <3>2. /\ Append(s, record(i)) \in Seq(Records) /\ Len(Append(s, record(i))) = (i - 1) + 1
            /\ Append(s, record(i))[(i - 1) + 1] = record(i)
            /\ \A k \in 1 .. (i - 1) : Append(s, record(i))[k] = s[k]
        BY <2>1, <2>3
      <3>3. (i - 1) + 1 = i
        BY <2>1
      <3>. QED
        BY <2>2, <3>1, <3>2, <3>3
    <2>6. Append(s, record(i)) = upTo(i)
      BY <2>1, <2>2, <2>5, SameList
    <2>. QED
      BY <2>4, <2>6 DEF s
  <1>6. upTo(0) = <<>>
    OBVIOUS
  <1>. HIDE DEF upTo
  <1>7. Runs(F)
    <2>1. \A i \in 1 .. n : i - 1 \in 0 .. n /\ i \in 0 .. n
      BY <1>1
    <2>2. \A i \in 0 .. n : i = 0 \/ i \in 1 .. n
      BY <1>1
    <2>3. \A i \in 0 .. n : F[i] = upTo(i)
      OBVIOUS
    <2>4. \A i \in 0 .. n : upTo(i) = IF i = 0 THEN <<>> ELSE Structure!Registered(F[i - 1], items[i])
      <3>. HIDE DEF F
      <3>. QED
        BY <1>5, <1>6, <2>1, <2>2, <2>3
    <2>. QED
      BY <2>4
  <1>8. Runs(h)
    <2>. HIDE DEF Runs, F
    <2>. QED
      BY <1>7 DEF h
  <1>9. h[0] = <<>> /\ \A i \in 1 .. n : h[i] = Structure!Registered(h[i - 1], items[i])
    <2>1. 0 \in 0 .. n /\ \A i \in 1 .. n : i \in 0 .. n /\ i # 0
      BY <1>1
    <2>. QED
      BY <1>8, <2>1
  <1>10. h[n] = upTo(n)
    <2>. DEFINE T == {i \in 0 .. n : h[i] = upTo(i)}
    <2>1. 0 \in T
      BY <1>1, <1>6, <1>9
    <2>2. ASSUME NEW i \in 1 .. n, i - 1 \in T PROVE i \in T
      <3>1. i \in 0 .. n /\ h[i - 1] = upTo(i - 1)
        BY <1>1, <2>2
      <3>. QED
        BY <1>5, <1>9, <3>1
    <2>3. 0 .. n \subseteq T
      <3>. HIDE DEF T
      <3>. QED
        BY <1>1, <2>1, <2>2, BoundedInduction
    <2>. QED
      BY <1>1, <2>3
  <1>11. n \in 0 .. n
    BY <1>1
  <1>12. \A i \in 1 .. n : upTo(n)[i] = record(i)
    BY DEF upTo
  <1>. QED
    BY <1>2, <1>4, <1>10, <1>11, <1>12 DEF e, n

LEMMA ItemsAre ==
  ASSUME NEW kind \in {"figure", "table", "equation", "reference"}, NEW artifacts \in Seq(Entry)
  PROVE  LET s == Structure!Items(kind, artifacts)
         IN  /\ s \in Seq(Things) /\ Len(s) = Len(artifacts) /\ Len(s) \in Nat
             /\ \A i \in 1 .. Len(artifacts) :
                  /\ s[i].kind = kind /\ s[i].evidence = None
                  /\ s[i].text = artifacts[i].text /\ s[i].page = artifacts[i].page
  <1>. DEFINE n == Len(artifacts)
              s == Structure!Items(kind, artifacts)
              item(i) == Structure!Item(kind, None, artifacts[i])
  <1>1. n \in Nat /\ DOMAIN artifacts = 1 .. n /\ \A i \in 1 .. n : artifacts[i] \in Entry
    OBVIOUS
  <1>2. s = [i \in 1 .. n |-> item(i)]
    BY <1>1, Zenon DEF Structure!Items
  <1>3. \A i \in 1 .. n : /\ item(i).kind = kind /\ item(i).evidence = None
                          /\ item(i).text = artifacts[i].text /\ item(i).page = artifacts[i].page
    BY DEF Structure!Item
  <1>4. \A i \in 1 .. n : item(i) \in Things
    BY <1>1 DEF Structure!Item, Entry, Things
  <1>. HIDE DEF n, s, item
  <1>5. s \in Seq(Things) /\ Len(s) = n /\ \A i \in 1 .. n : s[i] = item(i)
    BY <1>1, <1>2, <1>4
  <1>. QED
    BY <1>1, <1>3, <1>5 DEF s, n

LEMMA ReferencesAre ==
  ASSUME NEW sections \in Seq(Opening)
  PROVE  Structure!References(sections) \in Seq(Entry)
  <1>. DEFINE n == Len(sections)
              from == {i \in DOMAIN sections : \E j \in 1 .. i : sections[j].title = "references"}
              entries(i) == [k \in DOMAIN sections[i].paragraphs |->
                               [sections[i].paragraphs[k] EXCEPT !.page = None]]
              lists == [i \in DOMAIN sections |-> IF i \in from THEN entries(i) ELSE <<>>]
  <1>1. n \in Nat /\ DOMAIN sections = 1 .. n /\ \A i \in 1 .. n : sections[i] \in Opening
    OBVIOUS
  <1>2. Structure!References(sections) = Joined(lists)
    BY StructureFilters, Zenon DEF Structure!References
  <1>3. ASSUME NEW i \in 1 .. n PROVE entries(i) \in Seq(Entry)
    <2>. DEFINE paragraphs == sections[i].paragraphs
                entry(k) == [paragraphs[k] EXCEPT !.page = None]
    <2>1. paragraphs \in Seq(Structure!Paragraph)
      BY <1>1 DEF Opening
    <2>. HIDE DEF paragraphs
    <2>2. /\ Len(paragraphs) \in Nat /\ DOMAIN paragraphs = 1 .. Len(paragraphs)
          /\ \A k \in 1 .. Len(paragraphs) : paragraphs[k] \in Structure!Paragraph
      BY <2>1
    <2>3. \A t \in Seq(Plain) : t \in Seq(Structure!Lines)
      BY DEF Plain
    <2>4. \A k \in 1 .. Len(paragraphs) : entry(k) \in Entry
      BY <2>2, <2>3 DEF Structure!Paragraph, Plain, Entry
    <2>. HIDE DEF entry
    <2>5. [k \in 1 .. Len(paragraphs) |-> entry(k)] \in Seq(Entry)
      BY <2>2, <2>4
    <2>. QED
      BY <2>2, <2>5 DEF entry, paragraphs
  <1>. HIDE DEF n, entries, from
  <1>4. lists \in Seq(Seq(Entry))
    <2>1. \A i \in 1 .. n : (IF i \in from THEN entries(i) ELSE <<>>) \in Seq(Entry)
      BY <1>3
    <2>. QED
      BY <1>1, <2>1
  <1>. HIDE DEF lists
  <1>. QED
    BY <1>2, <1>4, JoinedIs

\* Things say of every paragraph where it is, what it says and its page.
Tells(things, sections) ==
  \A section, text, page :
    (\E i \in 1 .. Len(things) : /\ things[i].section = section /\ things[i].text = text
                                 /\ things[i].page = page)
      <=> \E i \in 1 .. Len(sections) : \E k \in 1 .. Len(sections[i].paragraphs) :
            /\ i = section /\ sections[i].paragraphs[k].text = text
            /\ sections[i].paragraphs[k].page = page

LEMMA NumberedIs ==
  ASSUME NEW sections \in Seq(Opening)
  PROVE  LET all == Structure!Numbered(sections)
         IN  /\ all \in Seq(Things) /\ Len(all) \in Nat
             /\ \A i \in 1 .. Len(all) : all[i].kind = "paragraph" /\ all[i].evidence = i
             /\ Tells(all, sections)
  <1>. DEFINE n == Len(sections)
              item(i, k) == Structure!Item("paragraph", i, sections[i].paragraphs[k])
              lists == [i \in DOMAIN sections |->
                          [k \in DOMAIN sections[i].paragraphs |-> item(i, k)]]
              all == Joined(lists)
              numbered == Structure!Numbered(sections)
  <1>1. n \in Nat /\ DOMAIN sections = 1 .. n /\ \A i \in 1 .. n : sections[i] \in Opening
    OBVIOUS
  <1>2. numbered = [m \in DOMAIN all |-> [all[m] EXCEPT !.evidence = m]]
    <2>1. PICK a : a = Structure!Joined(lists)
      OBVIOUS
    <2>2. numbered = [m \in DOMAIN a |-> [a[m] EXCEPT !.evidence = m]]
      BY <2>1, Zenon DEF Structure!Numbered
    <2>3. a = all
      BY <2>1, StructureFilters, Zenon
    <2>. HIDE DEF all, numbered
    <2>. QED
      BY <2>2, <2>3
  <1>3. \A i \in 1 .. n : /\ sections[i].paragraphs \in Seq(Structure!Paragraph)
                          /\ DOMAIN sections[i].paragraphs = 1 .. Len(sections[i].paragraphs)
                          /\ Len(sections[i].paragraphs) \in Nat
    <2>1. \A i \in 1 .. n : sections[i].paragraphs \in Seq(Structure!Paragraph)
      BY <1>1 DEF Opening
    <2>. QED
      BY <2>1
  <1>4. \A i \in 1 .. n : \A k \in 1 .. Len(sections[i].paragraphs) :
          /\ item(i, k) \in Things /\ item(i, k).kind = "paragraph" /\ item(i, k).section = i
          /\ item(i, k).text = sections[i].paragraphs[k].text
          /\ item(i, k).page = sections[i].paragraphs[k].page
    <2>. SUFFICES ASSUME NEW i \in 1 .. n, NEW k \in 1 .. Len(sections[i].paragraphs)
                  PROVE  /\ item(i, k) \in Things /\ item(i, k).kind = "paragraph" /\ item(i, k).section = i
                         /\ item(i, k).text = sections[i].paragraphs[k].text
                         /\ item(i, k).page = sections[i].paragraphs[k].page
      OBVIOUS
    <2>. DEFINE p == sections[i].paragraphs[k]
    <2>1. p \in Structure!Paragraph /\ i \in Nat
      BY <1>1, <1>3
    <2>2. \A t \in Seq(Plain) : t \in Seq(Structure!Lines)
      BY DEF Plain
    <2>3. p.text \in Seq(Structure!Lines) /\ p.page \in Nat
      BY <2>1, <2>2 DEF Structure!Paragraph, Plain
    <2>. HIDE DEF p
    <2>4. /\ Structure!Item("paragraph", i, p) \in Things
          /\ Structure!Item("paragraph", i, p).kind = "paragraph"
          /\ Structure!Item("paragraph", i, p).section = i
          /\ Structure!Item("paragraph", i, p).text = p.text
          /\ Structure!Item("paragraph", i, p).page = p.page
      BY <2>1, <2>3 DEF Structure!Item, Things
    <2>. QED
      BY <2>4 DEF p
  <1>. HIDE DEF item, n
  <1>. DEFINE list(i) == [k \in 1 .. Len(sections[i].paragraphs) |-> item(i, k)]
  <1>5. /\ lists \in Seq(Seq(Things)) /\ Len(lists) = n
        /\ \A i \in 1 .. n : lists[i] = list(i)
        /\ \A i \in 1 .. n : \A x : x \in Range(list(i)) <=>
             \E k \in 1 .. Len(sections[i].paragraphs) : x = item(i, k)
    <2>1. \A i \in 1 .. n : list(i) \in Seq(Things)
      BY <1>3, <1>4
    <2>2. \A i \in 1 .. n : \A x : x \in Range(list(i)) <=>
             \E k \in 1 .. Len(sections[i].paragraphs) : x = item(i, k)
      BY DEF Range
    <2>3. lists = [i \in 1 .. n |-> list(i)]
      BY <1>1, <1>3
    <2>. HIDE DEF lists, list
    <2>. QED
      BY <1>1, <2>1, <2>2, <2>3
  <1>. HIDE DEF lists, list
  <1>6. all \in Seq(Things)
    BY <1>5, JoinedIs
  <1>7. \A x : x \in Range(all) <=>
          \E i \in 1 .. n : \E k \in 1 .. Len(sections[i].paragraphs) : x = item(i, k)
    <2>1. \A x : x \in Range(all) <=> \E i \in 1 .. Len(lists) : x \in Range(lists[i])
      BY <1>5, JoinedRange
    <2>. HIDE DEF all
    <2>. QED
      BY <1>5, <2>1
  <1>. HIDE DEF all, numbered
  <1>8. /\ Len(all) \in Nat /\ DOMAIN all = 1 .. Len(all)
        /\ Range(all) = {all[m] : m \in 1 .. Len(all)} /\ \A m \in 1 .. Len(all) : all[m] \in Things
    BY <1>6, Lists
  <1>9. \A m \in 1 .. Len(all) : all[m].kind = "paragraph"
    BY <1>4, <1>7, <1>8
  <1>10. /\ numbered \in Seq(Things) /\ Len(numbered) = Len(all)
         /\ \A m \in 1 .. Len(all) :
              /\ numbered[m].kind = "paragraph" /\ numbered[m].evidence = m
              /\ numbered[m].section = all[m].section /\ numbered[m].text = all[m].text
              /\ numbered[m].page = all[m].page
    <2>. DEFINE new(m) == [all[m] EXCEPT !.evidence = m]
    <2>1. \A m \in 1 .. Len(all) :
              /\ new(m).kind = "paragraph" /\ new(m).evidence = m
              /\ new(m).section = all[m].section /\ new(m).text = all[m].text
              /\ new(m).page = all[m].page /\ new(m) \in Things
      BY <1>8, <1>9, SMTT(60) DEF Things
    <2>. HIDE DEF new
    <2>2. numbered = [m \in 1 .. Len(all) |-> new(m)]
      BY <1>2, <1>8 DEF new
    <2>3. numbered \in Seq(Things) /\ Len(numbered) = Len(all)
          /\ \A m \in 1 .. Len(all) : numbered[m] = new(m)
      BY <1>8, <2>1, <2>2
    <2>. QED
      BY <2>1, <2>3
  <1>11. ASSUME NEW section, NEW text, NEW page
         PROVE  (\E i \in 1 .. Len(numbered) : /\ numbered[i].section = section
                                               /\ numbered[i].text = text /\ numbered[i].page = page)
                  <=> \E i \in 1 .. n : \E k \in 1 .. Len(sections[i].paragraphs) :
                        /\ i = section /\ sections[i].paragraphs[k].text = text
                        /\ sections[i].paragraphs[k].page = page
    <2>1. (\E i \in 1 .. Len(numbered) : /\ numbered[i].section = section
                                         /\ numbered[i].text = text /\ numbered[i].page = page)
            <=> \E x \in Range(all) : x.section = section /\ x.text = text /\ x.page = page
      BY <1>8, <1>10
    <2>2. (\E x \in Range(all) : x.section = section /\ x.text = text /\ x.page = page)
            <=> \E i \in 1 .. n : \E k \in 1 .. Len(sections[i].paragraphs) :
                  item(i, k).section = section /\ item(i, k).text = text /\ item(i, k).page = page
      BY <1>7
    <2>3. \A i \in 1 .. n : \A k \in 1 .. Len(sections[i].paragraphs) :
            item(i, k).section = section /\ item(i, k).text = text /\ item(i, k).page = page
              <=> /\ i = section /\ sections[i].paragraphs[k].text = text
                  /\ sections[i].paragraphs[k].page = page
      BY <1>4
    <2>. QED
      BY <2>1, <2>2, <2>3, Zenon
  <1>. QED
    BY <1>8, <1>10, <1>11 DEF n, numbered, Tells

\* x is what s has after its first from items.
Piece(s, from, x) ==
  /\ from \in Nat /\ from + Len(x) <= Len(s)
  /\ \A i \in 1 .. Len(x) : s[from + i] = x[i]

\* A list of two, the pieces of the first staying where they are.
Joining(X, s, a, b) ==
  /\ s \in Seq(X) /\ Len(s) = Len(a) + Len(b) /\ Len(a) \in Nat /\ Len(b) \in Nat
  /\ Piece(s, 0, a) /\ Piece(s, Len(a), b)
  /\ \A from : \A x \in Seq(X) : Piece(a, from, x) => Piece(s, from, x)

LEMMA JoinedPieces ==
  ASSUME NEW X, NEW a \in Seq(X), NEW b \in Seq(X), NEW s, s = a \o b
  PROVE  Joining(X, s, a, b)
  <1>1. /\ a \o b \in Seq(X) /\ Len(a \o b) = Len(a) + Len(b)
        /\ Len(a) \in Nat /\ Len(b) \in Nat
        /\ \A i \in 1 .. Len(a) : (a \o b)[i] = a[i]
        /\ \A i \in 1 .. Len(b) : (a \o b)[Len(a) + i] = b[i]
    BY ConcatAt
  <1>2. /\ s \in Seq(X) /\ Len(s) = Len(a) + Len(b) /\ Len(a) \in Nat /\ Len(b) \in Nat
        /\ \A i \in 1 .. Len(a) : s[i] = a[i]
        /\ \A i \in 1 .. Len(b) : s[Len(a) + i] = b[i]
    BY <1>1, Zenon
  <1>3. Piece(s, Len(a), b)
    BY <1>2 DEF Piece
  <1>4. Piece(s, 0, a)
    <2>1. \A i \in 1 .. Len(a) : 0 + i = i
      BY <1>2
    <2>. QED
      BY <1>2, <2>1 DEF Piece
  <1>5. ASSUME NEW from, NEW x \in Seq(X), Piece(a, from, x) PROVE Piece(s, from, x)
    <2>1. from \in Nat /\ from + Len(x) <= Len(a) /\ Len(x) \in Nat
          /\ \A i \in 1 .. Len(x) : a[from + i] = x[i]
      BY <1>5 DEF Piece
    <2>2. \A i \in 1 .. Len(x) : from + i \in 1 .. Len(a)
      BY <1>2, <2>1
    <2>3. \A i \in 1 .. Len(x) : s[from + i] = x[i]
      BY <1>2, <2>1, <2>2
    <2>4. from + Len(x) <= Len(s)
      BY <1>2, <2>1
    <2>. QED
      BY <2>1, <2>3, <2>4 DEF Piece
  <1>. QED
    BY <1>2, <1>3, <1>4, <1>5, Zenon DEF Joining

\* Where the items of a list come to be in a list of five.
FiveJoined(X, s, a, b, c, d, e) ==
  LET k == Len(a)
      p == k + Len(b)
      q == p + Len(c)
      r == q + Len(d)
  IN  /\ s \in Seq(X) /\ Len(s) = r + Len(e)
      /\ Piece(s, 0, a) /\ Piece(s, k, b) /\ Piece(s, p, c) /\ Piece(s, q, d) /\ Piece(s, r, e)

LEMMA FiveLists ==
  ASSUME NEW X, NEW a \in Seq(X), NEW b \in Seq(X), NEW c \in Seq(X), NEW d \in Seq(X), NEW e \in Seq(X),
         NEW s, s = a \o b \o c \o d \o e
  PROVE  FiveJoined(X, s, a, b, c, d, e)
  <1>1. PICK u : u = a \o b
    OBVIOUS
  <1>2. Joining(X, u, a, b)
    BY <1>1, JoinedPieces, Zenon
  <1>3. u \in Seq(X)
    BY <1>2 DEF Joining
  <1>4. PICK v : v = u \o c
    OBVIOUS
  <1>5. Joining(X, v, u, c)
    BY <1>3, <1>4, JoinedPieces, Zenon
  <1>6. v \in Seq(X)
    BY <1>5 DEF Joining
  <1>7. PICK w : w = v \o d
    OBVIOUS
  <1>8. Joining(X, w, v, d)
    BY <1>6, <1>7, JoinedPieces, Zenon
  <1>9. w \in Seq(X)
    BY <1>8 DEF Joining
  <1>10. s = w \o e
    BY <1>1, <1>4, <1>7
  <1>11. Joining(X, s, w, e)
    BY <1>9, <1>10, JoinedPieces, Zenon
  <1>12. Piece(s, 0, a) /\ Piece(s, Len(a), b)
    BY <1>2, <1>5, <1>8, <1>11 DEF Joining
  <1>13. Piece(s, Len(u), c)
    BY <1>5, <1>8, <1>11 DEF Joining
  <1>14. Piece(s, Len(v), d)
    BY <1>8, <1>11 DEF Joining
  <1>15. /\ s \in Seq(X) /\ Len(s) = Len(w) + Len(e) /\ Piece(s, Len(w), e)
         /\ Len(u) = Len(a) + Len(b) /\ Len(v) = Len(u) + Len(c) /\ Len(w) = Len(v) + Len(d)
    BY <1>2, <1>5, <1>8, <1>11 DEF Joining
  <1>. QED
    BY <1>12, <1>13, <1>14, <1>15, Zenon DEF FiveJoined

\* The things of one kind are those from one place to another.
Kinds(s, from, to, kind) == \A i \in 1 .. Len(s) : s[i].kind = kind <=> i \in (from + 1) .. to

AllOf(s, from, to, kind) ==
  \A i \in (from + 1) .. to : s[i].kind = kind /\ s[i].evidence = None

LEMMA PieceKind ==
  ASSUME NEW s, NEW from, NEW x \in Seq(Things), Piece(s, from, x),
         NEW kind, \A i \in 1 .. Len(x) : x[i].kind = kind /\ x[i].evidence = None
  PROVE  AllOf(s, from, from + Len(x), kind)
  <1>. SUFFICES ASSUME NEW i \in (from + 1) .. (from + Len(x))
                PROVE  s[i].kind = kind /\ s[i].evidence = None
    BY DEF AllOf
  <1>1. from \in Nat /\ Len(x) \in Nat /\ \A j \in 1 .. Len(x) : s[from + j] = x[j]
    BY DEF Piece
  <1>2. i - from \in 1 .. Len(x) /\ from + (i - from) = i
    BY <1>1
  <1>. QED
    BY <1>1, <1>2

\* The records of one kind where they are one piece.
KindPlaced(records, kind, p, q) ==
  /\ p \in Nat /\ q \in Nat /\ p + q <= Len(records)
  /\ \A i \in 1 .. Len(records) : records[i].of.kind = kind <=> i \in (p + 1) .. (p + q)

LEMMA PieceOfKind ==
  ASSUME NEW records \in Seq(Records), NEW kind, NEW p, NEW q, KindPlaced(records, kind, p, q)
  PROVE  Structure!OfKind(records, kind) = Part(records, p, q)
  <1>1. PICK S : S = {e \in Range(records) : e.of.kind = kind}
    OBVIOUS
  <1>2. Structure!OfKind(records, kind) = Among(records, S)
    BY <1>1, StructureFilters DEF Structure!OfKind, Structure!Those
  <1>3. \A i \in 1 .. Len(records) : records[i] \in Range(records)
    BY Lists
  <1>4. \A i \in 1 .. Len(records) : records[i] \in S <=> records[i].of.kind = kind
    BY <1>1, <1>3
  <1>5. Together(records, S, p, q)
    BY <1>4 DEF Together, KindPlaced
  <1>6. Among(records, S) = Part(records, p, q)
    BY <1>5, AmongPiece, Zenon
  <1>. QED
    BY <1>2, <1>6

\* Records of things, each at its place.
Told(records, things) ==
  /\ records \in Seq(Records) /\ Len(records) = Len(things) /\ Len(things) \in Nat
  /\ \A i \in 1 .. Len(things) : records[i].id = i /\ records[i].of = things[i]

LEMMA PieceCovers ==
  ASSUME NEW records, NEW things, Told(records, things), NEW from,
         NEW kind \in {"figure", "table", "equation", "reference"}, NEW artifacts \in Seq(Entry),
         Piece(things, from, Structure!Items(kind, artifacts)),
         Kinds(things, from, from + Len(artifacts), kind)
  PROVE  Structure!Covers(Structure!OfKind(records, kind), artifacts)
  <1>. DEFINE q == Len(artifacts)
              items == Structure!Items(kind, artifacts)
  <1>1. q \in Nat /\ DOMAIN artifacts = 1 .. q
    OBVIOUS
  <1>2. Len(items) = q /\ \A i \in 1 .. q : /\ items[i].text = artifacts[i].text
                                           /\ items[i].page = artifacts[i].page
    BY ItemsAre
  <1>. HIDE DEF q, items
  <1>3. /\ from \in Nat /\ from + q <= Len(records) /\ Len(records) = Len(things)
        /\ \A i \in 1 .. q : things[from + i] = items[i]
    BY <1>2 DEF Piece, Told, items
  <1>4. /\ records \in Seq(Records) /\ Len(records) \in Nat
        /\ \A i \in 1 .. Len(records) : records[i].of = things[i]
    BY DEF Told
  <1>5. \A i \in 1 .. Len(records) : records[i].of.kind = kind <=> i \in (from + 1) .. (from + q)
    BY <1>3, <1>4 DEF Kinds, q
  <1>6. KindPlaced(records, kind, from, q)
    BY <1>1, <1>3, <1>5 DEF KindPlaced
  <1>7. PICK s : s = Part(records, from, q)
    OBVIOUS
  <1>12. Structure!OfKind(records, kind) = s
    BY <1>4, <1>6, <1>7, PieceOfKind, Zenon
  <1>8. Len(s) = q /\ \A i \in 1 .. q : s[i] = records[from + i]
    BY <1>1, <1>7 DEF Part
  <1>9. \A i \in 1 .. q : from + i \in 1 .. Len(records)
    BY <1>1, <1>3, <1>4
  <1>10. \A i \in 1 .. q : s[i].of.text = artifacts[i].text /\ s[i].of.page = artifacts[i].page
    BY <1>2, <1>3, <1>4, <1>8, <1>9, ZenonT(60)
  <1>11. Structure!Covers(s, artifacts)
    BY <1>1, <1>8, <1>10 DEF Structure!Covers, q
  <1>. QED
    BY <1>11, <1>12

ParagraphsCovered(records, sections) ==
  {<<e.of.section, e.of.text, e.of.page>> : e \in Structure!Range(Structure!OfKind(records, "paragraph"))}
    = UNION {{<<i, p.text, p.page>> : p \in Structure!Range(sections[i].paragraphs)} :
               i \in DOMAIN sections}

LEMMA ParagraphsTold ==
  ASSUME NEW sections \in Seq(Opening), NEW records, NEW things, Told(records, things),
         NEW a, Tells(a, sections), Len(a) \in Nat, Piece(things, 0, a),
         Kinds(things, 0, Len(a), "paragraph")
  PROVE  ParagraphsCovered(records, sections)
  <1>1. PICK k : k = Len(a)
    OBVIOUS
  <1>2. PICK s : s = Structure!OfKind(records, "paragraph")
    OBVIOUS
  <1>3. /\ k \in Nat /\ k <= Len(records) /\ records \in Seq(Records)
        /\ \A i \in 1 .. k : records[i].of = a[i]
        /\ \A i \in 1 .. Len(records) : records[i].of.kind = "paragraph" <=> i \in 1 .. k
    <2>1. \A i \in 1 .. k : 0 + i = i
      BY <1>1
    <2>2. 0 + k = k /\ (0 + 1) .. k = 1 .. k
      BY <1>1
    <2>3. /\ records \in Seq(Records) /\ Len(records) = Len(things) /\ Len(things) \in Nat
          /\ \A i \in 1 .. Len(things) : records[i].of = things[i]
      BY DEF Told
    <2>4. k <= Len(things) /\ \A i \in 1 .. k : things[i] = a[i]
      BY <1>1, <2>1, <2>2 DEF Piece
    <2>5. \A i \in 1 .. Len(things) : things[i].kind = "paragraph" <=> i \in 1 .. k
      BY <1>1, <2>2 DEF Kinds
    <2>6. \A i \in 1 .. k : i \in 1 .. Len(things)
      BY <1>1, <2>3, <2>4
    <2>. QED
      BY <1>1, <2>3, <2>4, <2>5, <2>6
  <1>4. s = [i \in 1 .. k |-> records[0 + i]]
    <2>1. KindPlaced(records, "paragraph", 0, k)
      BY <1>3 DEF KindPlaced
    <2>2. Structure!OfKind(records, "paragraph") = Part(records, 0, k)
      BY <1>3, <2>1, PieceOfKind, Zenon
    <2>. QED
      BY <1>2, <2>2 DEF Part
  <1>5. \A x : x \in Structure!Range(s) <=> \E i \in 1 .. k : x = records[i]
    <2>1. \A i \in 1 .. k : 0 + i = i
      BY <1>3
    <2>2. s = [i \in 1 .. k |-> records[i]]
      BY <1>4, <2>1
    <2>3. Structure!Range(s) = Range(s)
      BY StructureFilters
    <2>. QED
      BY <2>2, <2>3 DEF Range
  <1>. DEFINE Paragraphs(i) == sections[i].paragraphs
              L == {<<e.of.section, e.of.text, e.of.page>> : e \in Structure!Range(s)}
              R == UNION {{<<i, p.text, p.page>> : p \in Structure!Range(Paragraphs(i))} :
                            i \in DOMAIN sections}
  <1>6. \A i \in 1 .. Len(sections) :
          \A x : x \in Structure!Range(Paragraphs(i)) <=> \E m \in 1 .. Len(Paragraphs(i)) : x = Paragraphs(i)[m]
    <2>. SUFFICES ASSUME NEW i \in 1 .. Len(sections)
                  PROVE  \A x : x \in Structure!Range(Paragraphs(i))
                                  <=> \E m \in 1 .. Len(Paragraphs(i)) : x = Paragraphs(i)[m]
      OBVIOUS
    <2>1. sections[i] \in Opening
      OBVIOUS
    <2>2. Paragraphs(i) \in Seq(Structure!Paragraph)
      BY <2>1 DEF Opening
    <2>3. Structure!Range(Paragraphs(i)) = Range(Paragraphs(i))
      BY StructureFilters
    <2>. HIDE DEF Paragraphs
    <2>4. DOMAIN Paragraphs(i) = 1 .. Len(Paragraphs(i))
      BY <2>2
    <2>. QED
      BY <2>3, <2>4 DEF Range
  <1>7. DOMAIN sections = 1 .. Len(sections)
    OBVIOUS
  <1>. DEFINE Stated(m, section, text, page) ==
                \E i \in 1 .. m : a[i].section = section /\ a[i].text = text /\ a[i].page = page
              Written(section, text, page) ==
                \E i \in 1 .. Len(sections) : \E m \in 1 .. Len(Paragraphs(i)) :
                  /\ i = section /\ Paragraphs(i)[m].text = text /\ Paragraphs(i)[m].page = page
  <1>8. \A section, text, page : Stated(k, section, text, page) <=> Written(section, text, page)
    <2>1. \A section, text, page : Stated(Len(a), section, text, page) <=> Written(section, text, page)
      BY DEF Tells
    <2>. HIDE DEF Stated, Written
    <2>. QED
      BY <1>1, <2>1
  <1>. HIDE DEF Paragraphs
  <1>9. ASSUME NEW t, t \in L PROVE t \in R
    <2>1. PICK e \in Structure!Range(s) : t = <<e.of.section, e.of.text, e.of.page>>
      BY <1>9
    <2>. HIDE DEF L
    <2>2. PICK i \in 1 .. k : e = records[i]
      BY <1>5, <2>1
    <2>3. PICK section, text, page :
            /\ section = a[i].section /\ text = a[i].text /\ page = a[i].page
            /\ t = <<section, text, page>>
      BY <1>3, <2>1, <2>2
    <2>4. \E j \in 1 .. Len(sections) : \E m \in 1 .. Len(Paragraphs(j)) :
            j = section /\ Paragraphs(j)[m].text = text /\ Paragraphs(j)[m].page = page
      <3>1. \E l \in 1 .. k : a[l].section = section /\ a[l].text = text /\ a[l].page = page
        BY <2>3
      <3>2. Stated(k, section, text, page)
        BY <3>1, Zenon
      <3>3. Written(section, text, page)
        <4>. HIDE DEF Stated, Written
        <4>. QED
          BY <1>8, <3>2
      <3>. QED
        BY <3>3, Zenon
    <2>9. PICK j \in 1 .. Len(sections) : \E m \in 1 .. Len(Paragraphs(j)) :
            j = section /\ Paragraphs(j)[m].text = text /\ Paragraphs(j)[m].page = page
      BY <2>4
    <2>5. PICK m \in 1 .. Len(Paragraphs(j)) :
            j = section /\ Paragraphs(j)[m].text = text /\ Paragraphs(j)[m].page = page
      BY <2>9
    <2>6. PICK p : p = Paragraphs(j)[m]
      OBVIOUS
    <2>7. p \in Structure!Range(Paragraphs(j)) /\ j \in DOMAIN sections
      BY <1>6, <1>7, <2>6
    <2>8. t = <<j, p.text, p.page>>
      BY <2>3, <2>5, <2>6
    <2>. QED
      BY <2>7, <2>8
  <1>10. ASSUME NEW t, t \in R PROVE t \in L
    <2>8. PICK j \in DOMAIN sections : t \in {<<j, p.text, p.page>> : p \in Structure!Range(Paragraphs(j))}
      BY <1>10
    <2>1. PICK p \in Structure!Range(Paragraphs(j)) : t = <<j, p.text, p.page>>
      BY <2>8
    <2>. HIDE DEF R
    <2>2. PICK m \in 1 .. Len(Paragraphs(j)) : p = Paragraphs(j)[m]
      BY <1>6, <1>7, <2>1
    <2>3. PICK text, page : text = p.text /\ page = p.page /\ t = <<j, text, page>>
      BY <2>1
    <2>4. PICK i \in 1 .. k : a[i].section = j /\ a[i].text = text /\ a[i].page = page
      <3>1. \E l \in 1 .. Len(sections) : \E h \in 1 .. Len(Paragraphs(l)) :
              l = j /\ Paragraphs(l)[h].text = text /\ Paragraphs(l)[h].page = page
        BY <1>7, <2>2, <2>3
      <3>2. Written(j, text, page)
        BY <3>1, Zenon
      <3>3. Stated(k, j, text, page)
        <4>. HIDE DEF Stated, Written
        <4>. QED
          BY <1>8, <3>2
      <3>. QED
        BY <3>3, Zenon
    <2>5. PICK e : e = records[i]
      OBVIOUS
    <2>6. e \in Structure!Range(s) /\ e.of = a[i]
      BY <1>3, <1>5, <2>5
    <2>7. t = <<e.of.section, e.of.text, e.of.page>>
      BY <2>3, <2>4, <2>6
    <2>. QED
      BY <2>6, <2>7
  <1>11. L = R
    <2>. HIDE DEF L, R
    <2>. QED
      BY <1>9, <1>10
  <1>. QED
    BY <1>2, <1>11 DEF Paragraphs, ParagraphsCovered

LEMMA EvidenceKept ==
  ASSUME NEW parsed, parsed.sections \in Seq(Opening),
         parsed.figures \in Seq(Entry), parsed.tables \in Seq(Entry),
         parsed.equations \in Seq(Entry), parsed.references \in Seq(Entry)
  PROVE  Structure!EvidenceIsWhole(parsed)
  <1>. DEFINE a == Structure!Numbered(parsed.sections)
              b == Structure!Items("figure", parsed.figures)
              c == Structure!Items("table", parsed.tables)
              d == Structure!Items("equation", parsed.equations)
              e == Structure!Items("reference", parsed.references)
  <1>1. /\ a \in Seq(Things) /\ Len(a) \in Nat /\ Tells(a, parsed.sections)
        /\ \A i \in 1 .. Len(a) : a[i].kind = "paragraph" /\ a[i].evidence = i
    BY NumberedIs
  <1>2. /\ b \in Seq(Things) /\ Len(b) = Len(parsed.figures) /\ Len(b) \in Nat
        /\ \A i \in 1 .. Len(b) : b[i].kind = "figure" /\ b[i].evidence = None
    BY ItemsAre
  <1>3. /\ c \in Seq(Things) /\ Len(c) = Len(parsed.tables) /\ Len(c) \in Nat
        /\ \A i \in 1 .. Len(c) : c[i].kind = "table" /\ c[i].evidence = None
    BY ItemsAre
  <1>4. /\ d \in Seq(Things) /\ Len(d) = Len(parsed.equations) /\ Len(d) \in Nat
        /\ \A i \in 1 .. Len(d) : d[i].kind = "equation" /\ d[i].evidence = None
    BY ItemsAre
  <1>5. /\ e \in Seq(Things) /\ Len(e) = Len(parsed.references) /\ Len(e) \in Nat
        /\ \A i \in 1 .. Len(e) : e[i].kind = "reference" /\ e[i].evidence = None
    BY ItemsAre
  <1>6. PICK things : things = a \o b \o c \o d \o e
    OBVIOUS
  <1>7. PICK k, p, q, r, n :
          k = Len(a) /\ p = k + Len(b) /\ q = p + Len(c) /\ r = q + Len(d) /\ n = r + Len(e)
    OBVIOUS
  <1>8. /\ things \in Seq(Things) /\ Len(things) = n
        /\ Piece(things, 0, a) /\ Piece(things, k, b) /\ Piece(things, p, c)
        /\ Piece(things, q, d) /\ Piece(things, r, e)
    <2>1. a \in Seq(Things) /\ b \in Seq(Things) /\ c \in Seq(Things) /\ d \in Seq(Things)
          /\ e \in Seq(Things)
      BY <1>1, <1>2, <1>3, <1>4, <1>5
    <2>. HIDE DEF a, b, c, d, e
    <2>2. FiveJoined(Things, things, a, b, c, d, e)
      BY <1>6, <2>1, FiveLists, Zenon
    <2>3. /\ things \in Seq(Things) /\ Len(things) = (((Len(a) + Len(b)) + Len(c)) + Len(d)) + Len(e)
          /\ Piece(things, 0, a) /\ Piece(things, Len(a), b) /\ Piece(things, Len(a) + Len(b), c)
          /\ Piece(things, (Len(a) + Len(b)) + Len(c), d)
          /\ Piece(things, ((Len(a) + Len(b)) + Len(c)) + Len(d), e)
      BY <2>2, Zenon DEF FiveJoined
    <2>4. /\ p = Len(a) + Len(b) /\ q = (Len(a) + Len(b)) + Len(c)
          /\ r = ((Len(a) + Len(b)) + Len(c)) + Len(d)
          /\ n = (((Len(a) + Len(b)) + Len(c)) + Len(d)) + Len(e)
      BY <1>7, Zenon
    <2>. QED
      BY <1>7, <2>3, <2>4, Zenon
  <1>. HIDE DEF a, b, c, d, e
  <1>9. /\ k \in Nat /\ p \in Nat /\ q \in Nat /\ r \in Nat /\ n \in Nat
        /\ k <= p /\ p <= q /\ q <= r /\ r <= n
    <2>1. Len(a) \in Nat /\ Len(b) \in Nat /\ Len(c) \in Nat /\ Len(d) \in Nat /\ Len(e) \in Nat
      BY <1>1, <1>2, <1>3, <1>4, <1>5
    <2>2. k \in Nat
      BY <1>7, <2>1
    <2>3. p \in Nat /\ k <= p
      BY <1>7, <2>1, <2>2, SMTT(60)
    <2>4. q \in Nat /\ p <= q
      BY <1>7, <2>1, <2>3, SMTT(60)
    <2>5. r \in Nat /\ q <= r
      BY <1>7, <2>1, <2>4, SMTT(60)
    <2>6. n \in Nat /\ r <= n
      <3>1. n = r + Len(e) /\ Len(e) \in Nat /\ r \in Nat
        BY <1>7, <2>1, <2>5, Zenon
      <3>2. PICK l : l = Len(e)
        OBVIOUS
      <3>3. n = r + l /\ l \in Nat
        BY <3>1, <3>2
      <3>. QED
        BY <3>1, <3>3
    <2>. QED
      BY <2>2, <2>3, <2>4, <2>5, <2>6
  <1>10. \A i \in 1 .. k : things[i].kind = "paragraph" /\ things[i].evidence = i
    <2>1. \A i \in 1 .. k : 0 + i = i
      BY <1>9
    <2>2. \A i \in 1 .. k : things[0 + i] = a[i]
      BY <1>7, <1>8 DEF Piece
    <2>. QED
      BY <1>1, <1>7, <2>1, <2>2
  <1>11. \A i \in (k + 1) .. p : things[i].kind = "figure" /\ things[i].evidence = None
    <2>1. AllOf(things, k, k + Len(b), "figure")
      BY <1>2, <1>8, PieceKind, Zenon
    <2>. QED
      BY <1>7, <2>1 DEF AllOf
  <1>12. \A i \in (p + 1) .. q : things[i].kind = "table" /\ things[i].evidence = None
    <2>1. AllOf(things, p, p + Len(c), "table")
      BY <1>3, <1>8, PieceKind, Zenon
    <2>. QED
      BY <1>7, <2>1 DEF AllOf
  <1>13. \A i \in (q + 1) .. r : things[i].kind = "equation" /\ things[i].evidence = None
    <2>1. AllOf(things, q, q + Len(d), "equation")
      BY <1>4, <1>8, PieceKind, Zenon
    <2>. QED
      BY <1>7, <2>1 DEF AllOf
  <1>14. \A i \in (r + 1) .. n : things[i].kind = "reference" /\ things[i].evidence = None
    <2>1. AllOf(things, r, r + Len(e), "reference")
      BY <1>5, <1>8, PieceKind, Zenon
    <2>. QED
      BY <1>7, <2>1 DEF AllOf
  <1>15. \A i \in 1 .. n : \/ i \in 1 .. k \/ i \in (k + 1) .. p \/ i \in (p + 1) .. q
                           \/ i \in (q + 1) .. r \/ i \in (r + 1) .. n
    BY <1>9
  <1>16. \A i \in 1 .. Len(things) : things[i].evidence = None \/ things[i].evidence = i
    BY <1>8, <1>10, <1>11, <1>12, <1>13, <1>14, <1>15
  <1>17. /\ Kinds(things, 0, k, "paragraph") /\ Kinds(things, k, p, "figure")
         /\ Kinds(things, p, q, "table") /\ Kinds(things, q, r, "equation")
         /\ Kinds(things, r, n, "reference")
    <2>1. ASSUME NEW i \in 1 .. n
          PROVE  /\ i \in 1 .. k => ~(i \in (k + 1) .. p) /\ ~(i \in (p + 1) .. q)
                                    /\ ~(i \in (q + 1) .. r) /\ ~(i \in (r + 1) .. n)
                 /\ i \in (k + 1) .. p => ~(i \in (p + 1) .. q) /\ ~(i \in (q + 1) .. r)
                                            /\ ~(i \in (r + 1) .. n)
                 /\ i \in (p + 1) .. q => ~(i \in (q + 1) .. r) /\ ~(i \in (r + 1) .. n)
                 /\ i \in (q + 1) .. r => ~(i \in (r + 1) .. n)
      BY <1>9
    <2>2. (0 + 1) .. k = 1 .. k
      BY <1>9
    <2>3. ASSUME NEW i \in 1 .. n
          PROVE  /\ things[i].kind = "paragraph" <=> i \in 1 .. k
                 /\ things[i].kind = "figure" <=> i \in (k + 1) .. p
                 /\ things[i].kind = "table" <=> i \in (p + 1) .. q
                 /\ things[i].kind = "equation" <=> i \in (q + 1) .. r
                 /\ things[i].kind = "reference" <=> i \in (r + 1) .. n
      <3>1. CASE i \in 1 .. k
        BY <1>10, <2>1, <3>1
      <3>2. CASE i \in (k + 1) .. p
        BY <1>11, <2>1, <3>2
      <3>3. CASE i \in (p + 1) .. q
        BY <1>12, <2>1, <3>3
      <3>4. CASE i \in (q + 1) .. r
        BY <1>13, <2>1, <3>4
      <3>5. CASE i \in (r + 1) .. n
        BY <1>14, <2>1, <3>5
      <3>. QED
        BY <1>15, <3>1, <3>2, <3>3, <3>4, <3>5
    <2>. QED
      BY <1>8, <2>2, <2>3 DEF Kinds
  <1>18. PICK records : records = Structure!AllRegistered(things)
    OBVIOUS
  <1>19. /\ records \in Seq(Records) /\ Len(records) = Len(things)
         /\ \A i \in 1 .. Len(things) : records[i] = [id |-> i, of |-> things[i]]
    BY <1>8, <1>16, <1>18, RegisteredInOrder
  <1>20. Told(records, things)
    <2>1. Len(things) \in Nat
      BY <1>8, <1>9
    <2>2. \A i \in 1 .. Len(things) : records[i].id = i /\ records[i].of = things[i]
      <3>. SUFFICES ASSUME NEW i \in 1 .. Len(things)
                    PROVE  records[i].id = i /\ records[i].of = things[i]
        OBVIOUS
      <3>1. PICK t : t = things[i]
        OBVIOUS
      <3>2. records[i] = [id |-> i, of |-> t]
        BY <1>19, <3>1, Zenon
      <3>. QED
        BY <3>1, <3>2
    <2>. QED
      BY <1>19, <2>1, <2>2 DEF Told
  <1>21. Structure!Evidence(parsed) = records
    BY <1>6, <1>18 DEF Structure!Evidence, a, b, c, d, e
  <1>22. Structure!IsInjective([i \in DOMAIN records |-> records[i].id])
    <2>1. DOMAIN records = 1 .. Len(things)
      BY <1>19
    <2>2. IsInjective([i \in DOMAIN records |-> records[i].id])
      BY <1>20, <2>1 DEF Told, IsInjective
    <2>. QED
      BY <2>2, StructureFilters, Zenon
  <1>23. Structure!Covers(Structure!OfKind(records, "figure"), parsed.figures)
    <2>1. Kinds(things, k, k + Len(parsed.figures), "figure")
      BY <1>2, <1>7, <1>17
    <2>. QED
      BY <1>8, <1>20, <2>1, PieceCovers DEF b
  <1>24. Structure!Covers(Structure!OfKind(records, "table"), parsed.tables)
    <2>1. Kinds(things, p, p + Len(parsed.tables), "table")
      BY <1>3, <1>7, <1>17
    <2>. QED
      BY <1>8, <1>20, <2>1, PieceCovers DEF c
  <1>25. Structure!Covers(Structure!OfKind(records, "equation"), parsed.equations)
    <2>1. Kinds(things, q, q + Len(parsed.equations), "equation")
      BY <1>4, <1>7, <1>17
    <2>. QED
      BY <1>8, <1>20, <2>1, PieceCovers DEF d
  <1>26. Structure!Covers(Structure!OfKind(records, "reference"), parsed.references)
    <2>1. Kinds(things, r, r + Len(parsed.references), "reference")
      BY <1>5, <1>7, <1>17
    <2>. QED
      BY <1>8, <1>20, <2>1, PieceCovers DEF e
  <1>27. ParagraphsCovered(records, parsed.sections)
    <2>1. Kinds(things, 0, Len(a), "paragraph") /\ Piece(things, 0, a)
      BY <1>7, <1>8, <1>17
    <2>. QED
      BY <1>1, <1>20, <2>1, ParagraphsTold, Zenon
  <1>. QED
    BY <1>21, <1>22, <1>23, <1>24, <1>25, <1>26, <1>27, Zenon DEF Structure!EvidenceIsWhole, ParagraphsCovered

\* What a document promises.
LEMMA DocumentsAreTraceable ==
  ASSUME NEW pages \in Seq(Structure!Pages), NEW limits \in Structure!Limits
  PROVE  Structure!DocumentIsTraceable(pages, limits)
  <1>1. PICK parsed : parsed = Structure!Parsed(pages, limits)
    OBVIOUS
  <1>2. PICK read, text, images : Parse(pages, limits, parsed, read, text, images)
    BY <1>1, ParseIs
  <1>3. Structure!LimitsHold(pages, limits, parsed)
    BY <1>2, LimitsKept
  <1>4. ASSUME parsed.error = None
        PROVE  /\ Structure!TextIsKept(pages, parsed) /\ Structure!PagesAgree(pages, parsed)
               /\ Structure!ParentsNest(parsed) /\ Structure!EvidenceIsWhole(parsed)
    <2>1. Structure!TextIsKept(pages, parsed) /\ Structure!PagesAgree(pages, parsed)
      BY <1>2, <1>4, LinesKept, PagesFollow
    <2>2. read.error = None /\ read \in Reading
      BY <1>2, <1>4 DEF Parse, PageFits
    <2>3. parsed.sections \in Seq(Opening)
      <3>1. PICK d : Rest(parsed.sections, read.sections, d)
        BY <1>2, <2>2, ParseKeeps
      <3>. QED
        BY <3>1 DEF Rest
    <2>4. /\ parsed.figures \in Seq(Entry) /\ parsed.tables \in Seq(Entry)
          /\ parsed.equations \in Seq(Entry)
      <3>1. \A s \in Seq(Structure!Artifact) : s \in Seq(Entry)
        <4>1. \A x \in Structure!Artifact : x \in Entry
          BY DEF Structure!Artifact, Entry
        <4>. QED
          BY <4>1
      <3>2. /\ read.figures \in Seq(Structure!Artifact) /\ read.tables \in Seq(Structure!Artifact)
            /\ read.equations \in Seq(Structure!Artifact)
        BY <2>2 DEF Reading
      <3>. QED
        BY <1>2, <3>1, <3>2 DEF Parse
    <2>5. parsed.references \in Seq(Entry)
      BY <1>2, <2>3, ReferencesAre DEF Parse
    <2>. QED
      BY <2>1, <2>3, <2>4, <2>5, ParentsAreNearest, EvidenceKept
  <1>. QED
    BY <1>1, <1>3, <1>4, Zenon DEF Structure!DocumentIsTraceable

\* A parsed paper keeps every line of its source once and in order, under the
\* right section and page and with evidence of its own, and is refused only past
\* a limit or without text: for every document of pages, blocks and lines and for
\* every setting of the limits.
THEOREM DocumentSafe ==
  RulesSpec => []DocumentIsTraceable
  <1>. DEFINE Given == Is("document") => input.of \in Pdfs
  <1>1. Init => Given
    BY DEF Init, Is
  <1>2. Given /\ [Next]_input => Given'
    BY DEF Next, Is
  <1>3. Given => DocumentIsTraceable
    <2>. SUFFICES ASSUME input.of \in Pdfs
                  PROVE  Structure!DocumentIsTraceable(input.of.pages, input.of.limits)
      BY DEF DocumentIsTraceable
    <2>1. input.of.pages \in Seq(Structure!Pages) /\ input.of.limits \in Structure!Limits
      BY DocumentAssumption
    <2>. QED
      BY <2>1, DocumentsAreTraceable
  <1>. HIDE DEF Given
  <1>. QED
    BY <1>1, <1>2, <1>3, PTL DEF RulesSpec

===============================================================================
