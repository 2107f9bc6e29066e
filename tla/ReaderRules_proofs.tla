-------------------------- MODULE ReaderRules_proofs --------------------------
(***************************************************************************)
(* What the rules promise, for every input of the kind the code meets.     *)
(* A behaviour keeps its one input (Next leaves it), so each invariant is  *)
(* a theorem about the operators of a module, found by induction over a    *)
(* sequence the module works through; ReaderRules names what is assumed of *)
(* the inputs.                                                             *)
(***************************************************************************)
EXTENDS ReaderRules, Filters, FiniteSetTheorems, SequenceTheorems, WellFoundedInduction, TLAPS

---------------------------------------------------------------------------
(* Induction over the natural numbers, for a set instead of an operator.   *)

\* A set of natural numbers has a least one.
LEMMA LeastNumber ==
  ASSUME NEW S \in SUBSET Nat, S # {}
  PROVE  \E m \in S : \A k \in S : m <= k
  <1>. DEFINE R == OpToRel(<, Nat)
  <1>1. IsWellFoundedOn(R, Nat)
    BY NatLessThanWellFounded
  <1>2. \A x, y \in Nat : x < y => <<x, y>> \in R
    BY DEF OpToRel
  <1>. HIDE DEF R
  <1>3. PICK m \in S : \A k \in S : ~ (<<k, m>> \in R)
    BY <1>1, WFMin
  <1>4. ASSUME NEW k \in S PROVE m <= k
    <2>1. ~ (k < m)
      BY <1>2, <1>3
    <2>. QED
      BY <2>1
  <1>. QED
    BY <1>4

\* A set with 0 and every successor of its numbers has all of them.
LEMMA SetInduction ==
  ASSUME NEW S, 0 \in S, \A n \in Nat : n \in S => n + 1 \in S
  PROVE  Nat \subseteq S
  <1>. SUFFICES ASSUME NEW a \in Nat, a \notin S PROVE FALSE
    OBVIOUS
  <1>1. PICK m \in {n \in Nat : n \notin S} : \A k \in {n \in Nat : n \notin S} : m <= k
    BY LeastNumber
  <1>2. m - 1 \in Nat /\ m - 1 \in S
    BY <1>1
  <1>. QED
    BY <1>1, <1>2

\* The same for the numbers up to a bound.
LEMMA BoundedInduction ==
  ASSUME NEW n \in Nat, NEW S, 0 \in S, \A i \in 1 .. n : i - 1 \in S => i \in S
  PROVE  0 .. n \subseteq S
  <1>. DEFINE T == {i \in Nat : i <= n => i \in S}
  <1>1. 0 \in T
    OBVIOUS
  <1>2. ASSUME NEW i \in Nat, i \in T PROVE i + 1 \in T
    <2>1. i + 1 <= n => i + 1 \in 1 .. n /\ (i + 1) - 1 = i
      OBVIOUS
    <2>. QED
      BY <1>2, <2>1
  <1>3. Nat \subseteq T
    <2>. HIDE DEF T
    <2>. QED
      BY <1>1, <1>2, SetInduction
  <1>. QED
    BY <1>3

---------------------------------------------------------------------------
(* Requests: what the limiter has counted, for one key. *)

\* The requests up to i that were counted for a key; the answers are those of
\* the whole sequence.
Counts(answers, requests, k, i) == {j \in 1 .. i : answers[j] # "limited" /\ Key(requests[j]) = k}

Since(C, at, from) == {j \in C : at[j] >= from}
Spanned(C, at, from) == {j \in C : at[j] \in from .. (from + Window - 1)}

\* Those less than a window's length before a moment.
Lately(C, at, now) == {j \in C : at[j] < now /\ now < at[j] + Window}

\* The last window in which requests C were counted opened at from: the first
\* of it opened it, and those before it would not fill a window of their own.
LastWindow(C, at, from) ==
  /\ from \in Nat
  /\ \E j \in C : at[j] = from
  /\ \A j \in C : at[j] < from + Window
  /\ Cardinality(Since(C, at, from)) <= Limit
  /\ Cardinality(Lately(C, at, from)) < Limit

\* Such a set has no more requests than numbers.
LEMMA CountsAreFinite ==
  ASSUME NEW n \in Nat, NEW C \in SUBSET (1 .. n)
  PROVE  /\ IsFiniteSet(C) /\ Cardinality(C) \in Nat
         /\ \A D \in SUBSET C : IsFiniteSet(D) /\ Cardinality(D) \in Nat /\ Cardinality(D) <= Cardinality(C)
  <1>1. IsFiniteSet(1 .. n)
    BY FS_Interval
  <1>2. IsFiniteSet(C)
    BY <1>1, FS_Subset
  <1>. QED
    BY <1>2, FS_Subset, FS_CardinalityType

\* A request that falls into the last window is one more of it.
LEMMA SameWindow ==
  ASSUME NEW n \in Nat, NEW C \in SUBSET (1 .. n), NEW i \in 1 .. n, i \notin C,
         NEW at \in [1 .. n -> Nat],
         NEW from, LastWindow(C, at, from),
         at[i] >= from, at[i] < from + Window,
         Cardinality(Since(C, at, from)) < Limit
  PROVE  /\ LastWindow(C \cup {i}, at, from)
         /\ Cardinality(Since(C \cup {i}, at, from)) = Cardinality(Since(C, at, from)) + 1
  <1>1. /\ Since(C \cup {i}, at, from) = Since(C, at, from) \cup {i}
        /\ i \notin Since(C, at, from)
        /\ Since(C, at, from) \in SUBSET (1 .. n)
    BY DEF Since
  <1>2. Lately(C \cup {i}, at, from) = Lately(C, at, from)
    BY DEF Lately, LastWindow
  <1>3. Cardinality(Since(C \cup {i}, at, from)) = Cardinality(Since(C, at, from)) + 1
    BY <1>1, CountsAreFinite, FS_AddElement
  <1>4. Cardinality(Since(C, at, from)) \in Nat /\ Limit \in Nat
    BY <1>1, CountsAreFinite, LimitAssumption
  <1>5. Cardinality(Since(C \cup {i}, at, from)) <= Limit
    BY <1>3, <1>4
  <1>. QED
    BY <1>2, <1>3, <1>5 DEF LastWindow

\* One that does not opens a window; what was counted less than a window's
\* length before lacks the request that opened the last one.
LEMMA NewWindow ==
  ASSUME NEW n \in Nat, NEW C \in SUBSET (1 .. n), NEW i \in 1 .. n, i \notin C,
         NEW at \in [1 .. n -> Nat],
         C = {} \/ \E from : LastWindow(C, at, from) /\ from + Window <= at[i]
  PROVE  /\ LastWindow(C \cup {i}, at, at[i])
         /\ Cardinality(Since(C \cup {i}, at, at[i])) = 1
  <1>. DEFINE now == at[i]
  <1>0. /\ now \in Nat /\ Window \in Nat \ {0} /\ Limit \in Nat \ {0}
        /\ \A j \in C : at[j] \in Nat
    BY LimitAssumption
  <1>. HIDE DEF now
  <1>1. \A j \in C : at[j] < now
    <2>1. ASSUME NEW from, LastWindow(C, at, from), from + Window <= now, NEW j \in C
          PROVE  at[j] < now
      <3>1. from \in Nat /\ at[j] < from + Window
        BY <2>1 DEF LastWindow
      <3>. QED
        BY <1>0, <2>1, <3>1
    <2>. QED
      BY <2>1 DEF now
  <1>2. Since(C \cup {i}, at, now) = {i}
    <2>1. at[i] = now
      BY DEF now
    <2>2. \A j \in C \cup {i} : at[j] >= now <=> j = i
      BY <1>0, <1>1, <2>1
    <2>. QED
      BY <2>2 DEF Since
  <1>3. Cardinality(Since(C \cup {i}, at, now)) = 1
    BY <1>2, FS_Singleton, Zenon
  <1>4. Lately(C \cup {i}, at, now) = Lately(C, at, now)
    BY <1>0 DEF Lately, now
  <1>5. Cardinality(Lately(C, at, now)) < Limit
    <2>1. CASE C = {}
      <3>1. Lately(C, at, now) = {}
        BY <2>1 DEF Lately
      <3>. QED
        BY <1>0, <3>1, FS_EmptySet
    <2>2. ASSUME NEW from, LastWindow(C, at, from), from + Window <= now
          PROVE  Cardinality(Lately(C, at, now)) < Limit
      <3>0. from \in Nat /\ \A j \in C : at[j] < from + Window
        BY <2>2 DEF LastWindow
      <3>1. PICK j \in C : at[j] = from
        BY <2>2 DEF LastWindow
      <3>2. j \in Since(C, at, from) /\ Since(C, at, from) \in SUBSET (1 .. n)
        <4>1. from >= from
          BY <3>0
        <4>. QED
          BY <3>1, <4>1 DEF Since
      <3>3. Lately(C, at, now) \subseteq Since(C, at, from) \ {j}
        <4>1. ASSUME NEW m \in C, now < at[m] + Window PROVE at[m] >= from /\ m # j
          BY <1>0, <2>2, <3>0, <3>1, <4>1
        <4>. QED
          BY <4>1 DEF Lately, Since
      <3>4. Cardinality(Since(C, at, from) \ {j}) = Cardinality(Since(C, at, from)) - 1
        BY <3>2, CountsAreFinite, FS_RemoveElement
      <3>5. /\ Cardinality(Since(C, at, from)) \in Nat
            /\ Cardinality(Since(C, at, from)) <= Limit
        BY <2>2, <3>2, CountsAreFinite DEF LastWindow
      <3>6. /\ Since(C, at, from) \ {j} \in SUBSET (1 .. n)
            /\ Lately(C, at, now) \in SUBSET (Since(C, at, from) \ {j})
        BY <3>2, <3>3
      <3>7. /\ Cardinality(Lately(C, at, now)) \in Nat
            /\ Cardinality(Lately(C, at, now)) <= Cardinality(Since(C, at, from) \ {j})
        BY <3>6, CountsAreFinite
      <3>. QED
        BY <1>0, <3>4, <3>5, <3>7
    <2>. QED
      BY <2>1, <2>2 DEF now
  <1>6. \A j \in C \cup {i} : at[j] < now + Window
    BY <1>0, <1>1 DEF now
  <1>7. LastWindow(C \cup {i}, at, now)
    <2>1. \E j \in C \cup {i} : at[j] = now
      BY DEF now
    <2>2. Cardinality(Since(C \cup {i}, at, now)) <= Limit
      BY <1>0, <1>3
    <2>. QED
      BY <1>0, <1>4, <1>5, <1>6, <2>1, <2>2 DEF LastWindow
  <1>. QED
    BY <1>2, <1>3, <1>7 DEF now

\* Fewer than twice the limit are counted in a span of a window's length that
\* ends in the last window.
LEMMA SpanIsBounded ==
  ASSUME NEW n \in Nat, NEW C \in SUBSET (1 .. n),
         NEW at \in [1 .. n -> Nat],
         NEW from, LastWindow(C, at, from),
         NEW start \in Nat, from <= start + Window - 1
  PROVE  Cardinality(Spanned(C, at, start)) < 2 * Limit
  <1>. DEFINE late == Since(C, at, from)
              early == Lately(C, at, from)
              span == Spanned(C, at, start)
  <1>0. /\ Window \in Nat \ {0} /\ Limit \in Nat \ {0} /\ from \in Nat
        /\ late \in SUBSET (1 .. n) /\ early \in SUBSET (1 .. n) /\ span \in SUBSET (1 .. n)
    BY LimitAssumption DEF LastWindow, Since, Lately, Spanned
  <1>1. span \subseteq late \cup early
    BY <1>0 DEF Spanned, Since, Lately, LastWindow
  <1>2. /\ IsFiniteSet(late) /\ IsFiniteSet(early)
        /\ Cardinality(late) \in Nat /\ Cardinality(early) \in Nat
        /\ Cardinality(late) <= Limit /\ Cardinality(early) < Limit
    BY <1>0, CountsAreFinite DEF LastWindow
  <1>3. late \cap early = {}
    BY <1>0 DEF Since, Lately
  <1>4. Cardinality(late \cup early) = Cardinality(late) + Cardinality(early)
    <2>1. Cardinality(late \cup early) = Cardinality(late) + Cardinality(early) - Cardinality(late \cap early)
      BY <1>2, FS_Union
    <2>2. Cardinality(late \cap early) = 0
      BY <1>3, FS_EmptySet
    <2>. HIDE DEF late, early
    <2>. QED
      BY <1>2, <2>1, <2>2
  <1>5. late \cup early \in SUBSET (1 .. n) /\ span \in SUBSET (late \cup early)
    BY <1>0, <1>1
  <1>6. Cardinality(span) \in Nat /\ Cardinality(span) <= Cardinality(late \cup early)
    BY <1>5, CountsAreFinite
  <1>. QED
    BY <1>0, <1>2, <1>4, <1>6

---------------------------------------------------------------------------
(* Requests: the windows over a sequence of requests. *)

Times(requests) == [i \in DOMAIN requests |-> requests[i].at]

\* What a request is told, and the windows it leaves.
IsLimited(app, r) == app.limited /\ Bucket(r) # Nobody
Said(app, windows, r) ==
  IF IsLimited(app, r) /\ Current(windows, r).count >= Limit THEN "limited" ELSE Gated(app, r)
Left(app, windows, r) ==
  IF IsLimited(app, r) /\ ~(Current(windows, r).count >= Limit) THEN Counted(windows, r) ELSE windows

\* The history is the run of the handler over the requests.
LEMMA HistoryRuns ==
  ASSUME NEW app, NEW requests, Len(requests) \in Nat
  PROVE  /\ History(app, requests)[0] = [windows |-> <<>>, answers |-> <<>>]
         /\ \A i \in 1 .. Len(requests) :
              History(app, requests)[i] = Handle(app, History(app, requests)[i - 1], requests[i])
  <1>. DEFINE start == [windows |-> <<>>, answers |-> <<>>]
              Runs(h, m) == h = [i \in 0 .. m |-> IF i = 0 THEN start ELSE Handle(app, h[i - 1], requests[i])]
              T == {m \in Nat : \E h : Runs(h, m)}
  <1>1. 0 \in T
    <2>1. Runs([i \in 0 .. 0 |-> start], 0)
      OBVIOUS
    <2>. QED
      BY <2>1
  <1>2. ASSUME NEW m \in Nat, m \in T PROVE m + 1 \in T
    <2>1. PICK h : Runs(h, m)
      BY <1>2
    <2>. DEFINE g == [i \in 0 .. (m + 1) |-> IF i <= m THEN h[i] ELSE Handle(app, h[m], requests[m + 1])]
    <2>2. ASSUME NEW i \in 0 .. (m + 1)
          PROVE  g[i] = IF i = 0 THEN start ELSE Handle(app, g[i - 1], requests[i])
      <3>1. CASE i = 0
        BY <2>1, <3>1
      <3>2. CASE i \in 1 .. m
        <4>1. g[i] = h[i] /\ g[i - 1] = h[i - 1] /\ i \in 0 .. m
          BY <3>2
        <4>. HIDE DEF g
        <4>. QED
          BY <2>1, <3>2, <4>1
      <3>3. CASE i = m + 1
        BY <3>3
      <3>. QED
        BY <3>1, <3>2, <3>3
    <2>3. Runs(g, m + 1)
      <3>1. g = [i \in 0 .. (m + 1) |-> g[i]]
        OBVIOUS
      <3>. HIDE DEF g
      <3>. QED
        BY <2>2, <3>1
    <2>4. \E f : Runs(f, m + 1)
      <3>. HIDE DEF g, Runs
      <3>. QED
        BY <2>3
    <2>. HIDE DEF Runs, g
    <2>. QED
      BY <2>4
  <1>3. \E h : Runs(h, Len(requests))
    <2>1. Nat \subseteq T
      <3>. HIDE DEF T
      <3>. QED
        BY <1>1, <1>2, SetInduction
    <2>. QED
      BY <2>1
  <1>4. History(app, requests) = CHOOSE h : Runs(h, Len(requests))
    BY DEF History
  <1>5. Runs(History(app, requests), Len(requests))
    <2>. HIDE DEF Runs
    <2>. QED
      BY <1>3, <1>4
  <1>. QED
    BY <1>5

\* The handler, without its answers so far.
LEMMA HandleSays ==
  ASSUME NEW app, NEW windows, NEW answers, NEW r
  PROVE  Handle(app, [windows |-> windows, answers |-> answers], r) =
           [windows |-> Left(app, windows, r), answers |-> Append(answers, Said(app, windows, r))]
  BY DEF Handle, IsLimited, Said, Left

\* Each request adds one answer, which stays.
LEMMA AnswersStay ==
  ASSUME NEW app, NEW requests, Len(requests) \in Nat
  PROVE  LET h == History(app, requests) IN
         /\ h[0].windows = <<>>
         /\ Len(Answers(app, requests)) = Len(requests)
         /\ \A i \in 1 .. Len(requests) :
              /\ h[i].windows = Left(app, h[i - 1].windows, requests[i])
              /\ Answers(app, requests)[i] = Said(app, h[i - 1].windows, requests[i])
  <1>. DEFINE n == Len(requests)
              h == History(app, requests)
              Says == {Said(app, h[i - 1].windows, requests[i]) : i \in 1 .. n}
              Good(i) == /\ h[i] = [windows |-> h[i].windows, answers |-> h[i].answers]
                         /\ h[i].answers \in Seq(Says) /\ Len(h[i].answers) = i
                         /\ \A j \in 1 .. i : h[i].answers[j] = Said(app, h[j - 1].windows, requests[j])
              T == {i \in 0 .. n : Good(i)}
  <1>0. /\ n \in Nat
        /\ h[0] = [windows |-> <<>>, answers |-> <<>>]
        /\ \A i \in 1 .. n : h[i] = Handle(app, h[i - 1], requests[i])
    BY HistoryRuns
  <1>. HIDE DEF h
  <1>1. 0 \in T
    <2>1. h[0].windows = <<>> /\ h[0].answers = <<>>
      BY <1>0
    <2>2. <<>> \in Seq(Says) /\ Len(<<>>) = 0
      OBVIOUS
    <2>3. h[0].answers \in Seq(Says) /\ Len(h[0].answers) = 0
      <3>. HIDE DEF Says
      <3>. QED
        BY <2>1, <2>2
    <2>4. h[0] = [windows |-> h[0].windows, answers |-> h[0].answers]
      BY <1>0, <2>1
    <2>5. 0 \in 0 .. n /\ 1 .. 0 = {}
      BY <1>0
    <2>. HIDE DEF Says, n
    <2>. QED
      BY <2>3, <2>4, <2>5
  <1>2. ASSUME NEW i \in 1 .. n, i - 1 \in T PROVE i \in T
    <2>. DEFINE said == Said(app, h[i - 1].windows, requests[i])
                old == h[i - 1].answers
    <2>1. /\ h[i - 1] = [windows |-> h[i - 1].windows, answers |-> old]
          /\ old \in Seq(Says) /\ Len(old) = i - 1
          /\ \A j \in 1 .. (i - 1) : old[j] = Said(app, h[j - 1].windows, requests[j])
      BY <1>2
    <2>2. h[i] = [windows |-> Left(app, h[i - 1].windows, requests[i]), answers |-> Append(old, said)]
      <3>1. h[i] = Handle(app, h[i - 1], requests[i])
        BY <1>0
      <3>2. h[i] = Handle(app, [windows |-> h[i - 1].windows, answers |-> old], requests[i])
        <4>. HIDE DEF old, said, Says
        <4>. QED
          BY <2>1, <3>1, Zenon
      <3>3. Handle(app, [windows |-> h[i - 1].windows, answers |-> old], requests[i])
              = [windows |-> Left(app, h[i - 1].windows, requests[i]), answers |-> Append(old, said)]
        BY HandleSays
      <3>. HIDE DEF old, said
      <3>. QED
        BY <3>2, <3>3
    <2>3. said \in Says
      OBVIOUS
    <2>. HIDE DEF said, old, Says
    <2>4. h[i].answers = Append(old, said) /\ h[i].windows = Left(app, h[i - 1].windows, requests[i])
      BY <2>2
    <2>5. /\ Append(old, said) \in Seq(Says) /\ Len(Append(old, said)) = i
          /\ \A j \in 1 .. (i - 1) : Append(old, said)[j] = old[j]
          /\ Append(old, said)[i] = said
      BY <2>1, <2>3
    <2>6. ASSUME NEW j \in 1 .. i
          PROVE  Append(old, said)[j] = Said(app, h[j - 1].windows, requests[j])
      <3>1. CASE j = i
        BY <2>5, <3>1 DEF said
      <3>2. CASE j # i
        BY <2>1, <2>5, <3>2
      <3>. QED
        BY <3>1, <3>2
    <2>7. h[i] = [windows |-> h[i].windows, answers |-> h[i].answers]
      BY <2>2, <2>4
    <2>8. i \in 0 .. n
      BY <1>0
    <2>9. /\ h[i].answers \in Seq(Says) /\ Len(h[i].answers) = i
          /\ \A j \in 1 .. i : h[i].answers[j] = Said(app, h[j - 1].windows, requests[j])
      BY <2>4, <2>5, <2>6
    <2>. HIDE DEF n
    <2>. QED
      BY <2>7, <2>8, <2>9
  <1>3. 0 .. n \subseteq T
    <2>. HIDE DEF T, n
    <2>. QED
      BY <1>0, <1>1, <1>2, BoundedInduction
  <1>4. n \in T
    <2>1. n \in 0 .. n
      BY <1>0
    <2>. HIDE DEF T, n
    <2>. QED
      BY <1>3, <2>1
  <1>5. \A i \in 1 .. n : h[i].windows = Left(app, h[i - 1].windows, requests[i])
    <2>1. ASSUME NEW i \in 1 .. n PROVE h[i].windows = Left(app, h[i - 1].windows, requests[i])
      <3>0. i - 1 \in 0 .. n
        BY <1>0
      <3>1. i - 1 \in T
        <4>. HIDE DEF T, n
        <4>. QED
          BY <1>3, <3>0
      <3>2. h[i - 1] = [windows |-> h[i - 1].windows, answers |-> h[i - 1].answers]
        BY <3>1
      <3>3. h[i] = [windows |-> Left(app, h[i - 1].windows, requests[i]),
                    answers |-> Append(h[i - 1].answers, Said(app, h[i - 1].windows, requests[i]))]
        <4>1. h[i] = Handle(app, h[i - 1], requests[i])
          BY <1>0
        <4>2. h[i] = Handle(app, [windows |-> h[i - 1].windows, answers |-> h[i - 1].answers], requests[i])
          BY <3>2, <4>1, Zenon
        <4>. QED
          BY <4>2, HandleSays
      <3>. QED
        BY <3>3
    <2>. QED
      BY <2>1
  <1>. QED
    BY <1>0, <1>4, <1>5 DEF Answers, h

\* Counting a request counts it in its window.
LEMMA CountedWindows ==
  ASSUME NEW windows, NEW r, NEW from \in Nat, NEW count \in Nat,
         Current(windows, r) = [start |-> from, count |-> count], r.at - from < Window
  PROVE  /\ Key(r) \in DOMAIN Counted(windows, r)
         /\ Counted(windows, r)[Key(r)] = [start |-> from, count |-> count + 1]
  <1>. DEFINE w == [start |-> from, count |-> count]
              all == [k \in DOMAIN windows \cup {Key(r)} |->
                        IF k = Key(r) THEN [start |-> from, count |-> count + 1] ELSE windows[k]]
  <1>1. Counted(windows, r) = Pruned(all, r.at)
    <2>1. [w EXCEPT !.count = @ + 1] = [start |-> from, count |-> count + 1]
      OBVIOUS
    <2>. QED
      BY <2>1 DEF Counted
  <1>2. Key(r) \in DOMAIN all /\ all[Key(r)] = [start |-> from, count |-> count + 1]
    OBVIOUS
  <1>. HIDE DEF all
  <1>3. r.at - all[Key(r)].start < Window
    BY <1>2
  <1>4. CASE Pruned(all, r.at) = all
    BY <1>1, <1>2, <1>4
  <1>5. CASE Pruned(all, r.at) = [k \in {k \in DOMAIN all : r.at - all[k].start < Window} |-> all[k]]
    BY <1>1, <1>2, <1>3, <1>5
  <1>. QED
    BY <1>4, <1>5 DEF Pruned

\* What a key's window says of the requests C counted for it, at a moment: it
\* is the last one and counts its requests; without one, nothing was counted
\* or the last one has expired.
Windowed(C, at, windows, k, now) ==
  \/ C = {} /\ k \notin DOMAIN windows
  \/ \E from : /\ LastWindow(C, at, from) /\ from <= now
               /\ IF k \in DOMAIN windows
                    THEN windows[k] = [start |-> from, count |-> Cardinality(Since(C, at, from))]
                    ELSE from + Window <= now

\* Counting a request leaves the windows of other keys, unless they expired.
LEMMA OtherWindows ==
  ASSUME NEW windows, NEW r, NEW k, k # Key(r)
  PROVE  /\ k \in DOMAIN Counted(windows, r) =>
              k \in DOMAIN windows /\ Counted(windows, r)[k] = windows[k]
         /\ k \in DOMAIN windows /\ k \notin DOMAIN Counted(windows, r) =>
              ~ (r.at - windows[k].start < Window)
  <1>. DEFINE all == [x \in DOMAIN windows \cup {Key(r)} |->
                        IF x = Key(r) THEN [Current(windows, r) EXCEPT !.count = @ + 1] ELSE windows[x]]
  <1>1. Counted(windows, r) = Pruned(all, r.at)
    BY DEF Counted
  <1>2. DOMAIN all = DOMAIN windows \cup {Key(r)} /\ (k \in DOMAIN windows => all[k] = windows[k])
    OBVIOUS
  <1>. HIDE DEF all
  <1>3. CASE Pruned(all, r.at) = all
    BY <1>1, <1>2, <1>3
  <1>4. CASE Pruned(all, r.at) = [x \in {x \in DOMAIN all : r.at - all[x].start < Window} |-> all[x]]
    BY <1>1, <1>2, <1>4
  <1>. QED
    BY <1>3, <1>4 DEF Pruned

\* Time and the requests of other keys keep it true.
LEMMA StaysWindowed ==
  ASSUME NEW C, NEW at, NEW windows, NEW k, NEW before \in Nat, NEW now \in Nat, before <= now,
         Windowed(C, at, windows, k, before)
  PROVE  Windowed(C, at, windows, k, now)
  <1>1. CASE C = {} /\ k \notin DOMAIN windows
    BY <1>1 DEF Windowed
  <1>2. ASSUME NEW from, LastWindow(C, at, from), from <= before,
               IF k \in DOMAIN windows
                 THEN windows[k] = [start |-> from, count |-> Cardinality(Since(C, at, from))]
                 ELSE from + Window <= before
        PROVE  Windowed(C, at, windows, k, now)
    <2>1. from \in Nat /\ Window \in Nat
      BY <1>2, LimitAssumption DEF LastWindow
    <2>2. from <= now /\ (k \notin DOMAIN windows => from + Window <= now)
      BY <1>2, <2>1
    <2>. QED
      BY <1>2, <2>2 DEF Windowed
  <1>. QED
    BY <1>1, <1>2 DEF Windowed

LEMMA OthersCounted ==
  ASSUME NEW C, NEW at, NEW windows, NEW k, NEW r, k # Key(r), r.at \in Nat,
         Windowed(C, at, windows, k, r.at)
  PROVE  Windowed(C, at, Counted(windows, r), k, r.at)
  <1>. DEFINE new == Counted(windows, r)
  <1>0. /\ k \in DOMAIN new => k \in DOMAIN windows /\ new[k] = windows[k]
        /\ k \in DOMAIN windows /\ k \notin DOMAIN new => ~ (r.at - windows[k].start < Window)
    BY OtherWindows
  <1>. HIDE DEF new
  <1>1. CASE C = {} /\ k \notin DOMAIN windows
    <2>1. Windowed(C, at, new, k, r.at)
      BY <1>0, <1>1 DEF Windowed
    <2>. QED
      BY <2>1 DEF new
  <1>2. ASSUME NEW from, LastWindow(C, at, from), from <= r.at,
               IF k \in DOMAIN windows
                 THEN windows[k] = [start |-> from, count |-> Cardinality(Since(C, at, from))]
                 ELSE from + Window <= r.at
        PROVE  Windowed(C, at, Counted(windows, r), k, r.at)
    <2>1. from \in Nat /\ Window \in Nat
      BY <1>2, LimitAssumption DEF LastWindow
    <2>2. k \in DOMAIN new =>
            new[k] = [start |-> from, count |-> Cardinality(Since(C, at, from))]
      BY <1>0, <1>2
    <2>3. k \in DOMAIN windows => windows[k].start = from
      BY <1>2
    <2>4. k \notin DOMAIN new => from + Window <= r.at
      BY <1>0, <1>2, <2>1, <2>3
    <2>5. Windowed(C, at, new, k, r.at)
      BY <1>2, <2>2, <2>4 DEF Windowed
    <2>. QED
      BY <2>5 DEF new
  <1>. QED
    BY <1>1, <1>2 DEF Windowed

LEMMA CountedIsWindowed ==
  ASSUME NEW D, NEW at, NEW windows, NEW r, NEW from \in Nat, NEW now, from <= now, NEW count \in Nat,
         Current(windows, r) = [start |-> from, count |-> count], r.at - from < Window,
         LastWindow(D, at, from), Cardinality(Since(D, at, from)) = count + 1
  PROVE  Windowed(D, at, Counted(windows, r), Key(r), now)
  <1>1. /\ Key(r) \in DOMAIN Counted(windows, r)
        /\ Counted(windows, r)[Key(r)] = [start |-> from, count |-> count + 1]
    BY CountedWindows, ZenonT(60)
  <1>2. Counted(windows, r)[Key(r)] = [start |-> from, count |-> Cardinality(Since(D, at, from))]
    BY <1>1, Zenon
  <1>. QED
    BY <1>1, <1>2 DEF Windowed

\* A request that is counted is one more of the last window, or opens one.
LEMMA OneCounted ==
  ASSUME NEW n \in Nat, NEW C \in SUBSET (1 .. n), NEW i \in 1 .. n, i \notin C,
         NEW at \in [1 .. n -> Nat], NEW windows, NEW r, r.at = at[i],
         Windowed(C, at, windows, Key(r), at[i]),
         ~ (Current(windows, r).count >= Limit)
  PROVE  /\ Windowed(C \cup {i}, at, Counted(windows, r), Key(r), at[i])
         /\ \E from : LastWindow(C \cup {i}, at, from) /\ from <= at[i]
  <1>. DEFINE k == Key(r)
              now == at[i]
              D == C \cup {i}
              new == Counted(windows, r)
  <1>0. now \in Nat /\ Window \in Nat \ {0} /\ Limit \in Nat \ {0} /\ r.at = now
    BY LimitAssumption
  <1>1. ASSUME NEW from \in Nat, from <= now, NEW count \in Nat,
               Current(windows, r) = [start |-> from, count |-> count], r.at - from < Window,
               LastWindow(D, at, from), Cardinality(Since(D, at, from)) = count + 1
        PROVE  Windowed(D, at, new, k, now) /\ \E f : LastWindow(D, at, f) /\ f <= now
    BY <1>1, CountedIsWindowed
  <1>2. CASE k \in DOMAIN windows /\ r.at - windows[k].start < Window
    <2>1. C # {} \/ k \in DOMAIN windows
      BY <1>2
    <2>2. PICK from : /\ LastWindow(C, at, from) /\ from <= now
                      /\ windows[k] = [start |-> from, count |-> Cardinality(Since(C, at, from))]
      BY <1>2 DEF Windowed
    <2>3. Current(windows, r) = [start |-> from, count |-> Cardinality(Since(C, at, from))]
      BY <1>2, <2>2 DEF Current
    <2>4. from \in Nat /\ now - from < Window
      BY <1>0, <1>2, <2>2 DEF LastWindow
    <2>5. Cardinality(Since(C, at, from)) \in Nat
      <3>1. Since(C, at, from) \in SUBSET (1 .. n)
        BY DEF Since
      <3>. QED
        BY <3>1, CountsAreFinite
    <2>6. Cardinality(Since(C, at, from)) < Limit
      <3>1. Current(windows, r).count = Cardinality(Since(C, at, from))
        BY <2>3
      <3>. QED
        BY <1>0, <2>5, <3>1
    <2>7. at[i] >= from /\ at[i] < from + Window
      BY <1>0, <2>2, <2>4
    <2>8. LastWindow(D, at, from) /\ Cardinality(Since(D, at, from)) = Cardinality(Since(C, at, from)) + 1
      BY <2>2, <2>6, <2>7, SameWindow
    <2>9. r.at - from < Window
      BY <1>0, <2>4
    <2>10. Windowed(D, at, new, k, now) /\ \E f : LastWindow(D, at, f) /\ f <= now
      <3>. HIDE DEF D, k, now, new
      <3>. QED
        BY <1>1, <2>2, <2>3, <2>4, <2>5, <2>8, <2>9
    <2>. QED
      BY <2>10
  <1>3. CASE ~ (k \in DOMAIN windows /\ r.at - windows[k].start < Window)
    <2>1. Current(windows, r) = [start |-> now, count |-> 0]
      BY <1>0, <1>3 DEF Current
    <2>2. C = {} \/ \E from : LastWindow(C, at, from) /\ from + Window <= at[i]
      <3>1. ASSUME NEW from, LastWindow(C, at, from), from <= now,
                   IF k \in DOMAIN windows
                     THEN windows[k] = [start |-> from, count |-> Cardinality(Since(C, at, from))]
                     ELSE from + Window <= now
            PROVE  from + Window <= now
        <4>1. from \in Nat
          BY <3>1 DEF LastWindow
        <4>2. k \in DOMAIN windows => windows[k].start = from
          BY <3>1
        <4>. QED
          BY <1>0, <1>3, <3>1, <4>1, <4>2
      <3>. QED
        BY <3>1 DEF Windowed
    <2>3. LastWindow(D, at, now) /\ Cardinality(Since(D, at, now)) = 1
      BY <2>2, NewWindow
    <2>4. now <= now /\ r.at - now < Window /\ Cardinality(Since(D, at, now)) = 0 + 1
      BY <1>0, <2>3
    <2>10. Windowed(D, at, new, k, now) /\ \E f : LastWindow(D, at, f) /\ f <= now
      <3>. HIDE DEF D, k, now, new
      <3>. QED
        BY <1>0, <1>1, <2>1, <2>3, <2>4
    <2>. QED
      BY <2>10
  <1>. QED
    BY <1>2, <1>3

\* What the order of the requests gives.
LEMMA OrderedTimes ==
  ASSUME NEW requests, InOrder(requests)
  PROVE  /\ Len(requests) \in Nat /\ DOMAIN requests = 1 .. Len(requests)
         /\ Times(requests) \in [1 .. Len(requests) -> Nat]
         /\ \A i \in 1 .. Len(requests) : Times(requests)[i] = requests[i].at
         /\ \A i, j \in 1 .. Len(requests) : i <= j => Times(requests)[i] <= Times(requests)[j]
  <1>1. Len(requests) \in Nat /\ DOMAIN requests = 1 .. Len(requests)
    BY DEF InOrder
  <1>2. /\ Times(requests) \in [1 .. Len(requests) -> Nat]
        /\ \A i \in 1 .. Len(requests) : Times(requests)[i] = requests[i].at
    BY <1>1 DEF InOrder, Times
  <1>3. ASSUME NEW i \in 1 .. Len(requests), NEW j \in 1 .. Len(requests), i <= j
        PROVE  Times(requests)[i] <= Times(requests)[j]
    <2>1. CASE i = j
      BY <1>2, <2>1
    <2>2. CASE i # j
      <3>1. i < j
        BY <1>1, <1>3, <2>2
      <3>2. requests[i].at <= requests[j].at
        BY <1>1, <3>1 DEF InOrder
      <3>. QED
        BY <1>2, <3>2
    <2>. QED
      BY <2>1, <2>2
  <1>. QED
    BY <1>1, <1>2, <1>3

\* The requests counted up to i are those up to i - 1, and i unless it was
\* refused or is of another key.
LEMMA CountsGrow ==
  ASSUME NEW answers, NEW requests, NEW k, NEW n \in Nat, NEW i \in 1 .. n
  PROVE  /\ Counts(answers, requests, k, i - 1) \in SUBSET (1 .. n)
         /\ i \notin Counts(answers, requests, k, i - 1)
         /\ Counts(answers, requests, k, i) =
              IF answers[i] # "limited" /\ Key(requests[i]) = k
                THEN Counts(answers, requests, k, i - 1) \cup {i}
                ELSE Counts(answers, requests, k, i - 1)
  BY DEF Counts

\* Only the limiter says that a request is limited.
LEMMA SaidLimited ==
  ASSUME NEW app, NEW windows, NEW r
  PROVE  /\ Said(app, windows, r) = "limited" <=> IsLimited(app, r) /\ Current(windows, r).count >= Limit
         /\ Said(app, windows, r) # "limited" => Said(app, windows, r) = Gated(app, r)
  BY DEF Said, Gated

\* Time since the last request, or since the beginning.
Clock(requests, i) == IF i = 0 THEN 0 ELSE Times(requests)[i]

\* The windows of a key and what was counted for it agree after every request,
\* and fewer than twice the limit were counted in any span.
LEMMA WindowsHold ==
  ASSUME NEW app, app.limited, NEW requests, InOrder(requests), NEW k, k[1] # Nobody
  PROVE  \A i \in 0 .. Len(requests) :
           LET C == Counts(Answers(app, requests), requests, k, i) IN
           /\ Windowed(C, Times(requests), History(app, requests)[i].windows, k, Clock(requests, i))
           /\ \A start \in Nat : Cardinality(Spanned(C, Times(requests), start)) < 2 * Limit
  <1>. DEFINE n == Len(requests)
              at == Times(requests)
              answers == Answers(app, requests)
              W(i) == History(app, requests)[i].windows
              C(i) == Counts(answers, requests, k, i)
              Few(D) == \A start \in Nat : Cardinality(Spanned(D, at, start)) < 2 * Limit
              Good(i) == Windowed(C(i), at, W(i), k, Clock(requests, i)) /\ Few(C(i))
              T == {i \in 0 .. n : Good(i)}
  <1>1. /\ n \in Nat /\ at \in [1 .. n -> Nat]
        /\ \A i \in 1 .. n : at[i] = requests[i].at
        /\ \A i, j \in 1 .. n : i <= j => at[i] <= at[j]
    BY OrderedTimes
  <1>2. /\ W(0) = <<>>
        /\ \A i \in 1 .. n : /\ W(i) = Left(app, W(i - 1), requests[i])
                             /\ answers[i] = Said(app, W(i - 1), requests[i])
    BY <1>1, AnswersStay
  <1>. HIDE DEF n, at, answers, W
  <1>3. 0 \in T
    <2>1. C(0) = {}
      BY DEF Counts
    <2>2. Windowed(C(0), at, W(0), k, Clock(requests, 0))
      <3>1. k \notin DOMAIN W(0)
        BY <1>2
      <3>. QED
        BY <2>1, <3>1 DEF Windowed
    <2>3. Few(C(0))
      <3>1. ASSUME NEW start \in Nat PROVE Spanned(C(0), at, start) = {}
        BY <2>1 DEF Spanned
      <3>2. 0 < 2 * Limit
        BY LimitAssumption
      <3>. QED
        BY <3>1, <3>2, FS_EmptySet
    <2>4. 0 \in 0 .. n
      BY <1>1
    <2>. HIDE DEF Few, C
    <2>. QED
      BY <2>2, <2>3, <2>4
  <1>4. ASSUME NEW i \in 1 .. n, i - 1 \in T PROVE i \in T
    <2>. DEFINE r == requests[i]
                now == at[i]
                D == C(i - 1)
    <2>1. /\ D \in SUBSET (1 .. n) /\ i \notin D
          /\ C(i) = IF answers[i] # "limited" /\ Key(r) = k THEN D \cup {i} ELSE D
      <3>1. /\ Counts(answers, requests, k, i - 1) \in SUBSET (1 .. n)
            /\ i \notin Counts(answers, requests, k, i - 1)
            /\ Counts(answers, requests, k, i) =
                 IF answers[i] # "limited" /\ Key(requests[i]) = k
                   THEN Counts(answers, requests, k, i - 1) \cup {i}
                   ELSE Counts(answers, requests, k, i - 1)
        <4>1. n \in Nat /\ i \in 1 .. n
          BY <1>1
        <4>. HIDE DEF Few, C, D, r, now, T, Good
        <4>. QED
          BY ONLY <4>1, CountsGrow
      <3>. QED
        BY <3>1, Zenon
    <2>2. now \in Nat /\ r.at = now /\ Clock(requests, i) = now /\ i \in 0 .. n
      BY <1>1 DEF Clock, at
    <2>3. Clock(requests, i - 1) \in Nat /\ Clock(requests, i - 1) <= now
      <3>1. CASE i = 1
        BY <2>2, <3>1 DEF Clock
      <3>2. CASE i # 1
        <4>1. i - 1 \in 1 .. n /\ i - 1 <= i
          BY <1>1, <3>2
        <4>2. Clock(requests, i - 1) = at[i - 1]
          BY <3>2, <4>1 DEF Clock, at
        <4>. QED
          BY <1>1, <4>1, <4>2
      <3>. QED
        BY <3>1, <3>2
    <2>4. Windowed(D, at, W(i - 1), k, Clock(requests, i - 1)) /\ Few(D)
      <3>. HIDE DEF Few, C, n
      <3>. QED
        BY <1>4
    <2>5. W(i) = Left(app, W(i - 1), r) /\ answers[i] = Said(app, W(i - 1), r)
      BY <1>2
    <2>. HIDE DEF Few, C, D, now, r, n
    <2>6. Windowed(D, at, W(i - 1), k, now)
      BY <2>2, <2>3, <2>4, StaysWindowed
    <2>7. Windowed(C(i), at, W(i), k, now) /\ Few(C(i))
      <3>1. CASE Key(r) # k
        <4>1. Windowed(D, at, Counted(W(i - 1), r), k, now)
          BY <2>2, <2>6, <3>1, OthersCounted
        <4>2. W(i) = W(i - 1) \/ W(i) = Counted(W(i - 1), r)
          BY <2>5 DEF Left
        <4>3. C(i) = D
          BY <2>1, <3>1
        <4>. QED
          BY <2>4, <2>6, <4>1, <4>2, <4>3
      <3>2. CASE Key(r) = k /\ Current(W(i - 1), r).count >= Limit
        <4>1. IsLimited(app, r)
          BY <3>2 DEF IsLimited, Key
        <4>2. W(i) = W(i - 1) /\ answers[i] = "limited"
          BY <2>5, <3>2, <4>1, SaidLimited DEF Left
        <4>3. C(i) = D
          BY <2>1, <4>2
        <4>. QED
          BY <2>4, <2>6, <4>2, <4>3
      <3>3. CASE Key(r) = k /\ ~ (Current(W(i - 1), r).count >= Limit)
        <4>1. IsLimited(app, r)
          BY <3>3 DEF IsLimited, Key
        <4>2. W(i) = Counted(W(i - 1), r) /\ answers[i] # "limited"
          BY <2>5, <3>3, <4>1, SaidLimited DEF Left
        <4>3. C(i) = D \cup {i}
          BY <2>1, <3>3, <4>2
        <4>4. /\ Windowed(D \cup {i}, at, Counted(W(i - 1), r), k, now)
              /\ \E from : LastWindow(D \cup {i}, at, from) /\ from <= now
          <5>1. Windowed(D, at, W(i - 1), Key(r), at[i]) /\ r.at = at[i]
            BY <2>2, <2>6, <3>3 DEF now
          <5>2. /\ Windowed(D \cup {i}, at, Counted(W(i - 1), r), Key(r), at[i])
                /\ \E from : LastWindow(D \cup {i}, at, from) /\ from <= at[i]
            BY <1>1, <2>1, <3>3, <5>1, OneCounted, ZenonT(60)
          <5>. QED
            BY <3>3, <5>2 DEF now
        <4>5. PICK from : LastWindow(D \cup {i}, at, from) /\ from <= now
          BY <4>4
        <4>6. Few(C(i))
          <5>1. ASSUME NEW start \in Nat
                PROVE  Cardinality(Spanned(D \cup {i}, at, start)) < 2 * Limit
            <6>1. from \in Nat /\ Window \in Nat \ {0}
              BY <4>5, LimitAssumption DEF LastWindow
            <6>2. CASE from <= start + Window - 1
              <7>1. D \cup {i} \in SUBSET (1 .. n)
                BY <2>1
              <7>. QED
                BY <1>1, <4>5, <6>2, <7>1, SpanIsBounded
            <6>3. CASE ~ (from <= start + Window - 1)
              <7>1. Spanned(D \cup {i}, at, start) = Spanned(D, at, start)
                <8>1. at[i] \notin start .. (start + Window - 1)
                  BY <2>2, <4>5, <6>1, <6>3 DEF now
                <8>. QED
                  BY <8>1 DEF Spanned
              <7>2. Cardinality(Spanned(D, at, start)) < 2 * Limit
                BY <2>4 DEF Few
              <7>. QED
                BY <7>1, <7>2
            <6>. QED
              BY <6>2, <6>3
          <5>2. Few(D \cup {i})
            BY <5>1 DEF Few
          <5>. QED
            BY <4>3, <5>2
        <4>. QED
          BY <4>2, <4>3, <4>4, <4>6
      <3>. QED
        BY <3>1, <3>2, <3>3
    <2>. QED
      BY <2>2, <2>7
  <1>5. 0 .. n \subseteq T
    <2>. HIDE DEF T
    <2>. QED
      BY <1>1, <1>3, <1>4, BoundedInduction
  <1>6. \A i \in 0 .. n : Good(i)
    <2>. HIDE DEF Good
    <2>. QED
      BY <1>5
  <1>. QED
    BY <1>6 DEF n, at, answers, W

\* Whoever is refused used the limit up in the window before.
LEMMA RefusedUsedUp ==
  ASSUME NEW C, NEW at, NEW windows, NEW r, r.at \in Nat,
         Windowed(C, at, windows, Key(r), r.at), Current(windows, r).count >= Limit
  PROVE  \E from \in 0 .. r.at : r.at - from < Window /\ Cardinality(Since(C, at, from)) >= Limit
  <1>0. Limit \in Nat \ {0} /\ Window \in Nat
    BY LimitAssumption
  <1>1. /\ Key(r) \in DOMAIN windows /\ r.at - windows[Key(r)].start < Window
        /\ Current(windows, r) = windows[Key(r)]
    <2>1. CASE Current(windows, r) = [start |-> r.at, count |-> 0]
      <3>1. Current(windows, r).count = 0
        BY <2>1
      <3>. QED
        BY <1>0, <3>1
    <2>. QED
      BY <2>1 DEF Current
  <1>2. PICK from : /\ LastWindow(C, at, from) /\ from <= r.at
                    /\ windows[Key(r)] = [start |-> from, count |-> Cardinality(Since(C, at, from))]
    BY <1>1 DEF Windowed
  <1>3. windows[Key(r)].start = from /\ windows[Key(r)].count = Cardinality(Since(C, at, from))
    BY <1>2
  <1>4. from \in 0 .. r.at
    BY <1>2 DEF LastWindow
  <1>5. r.at - from < Window /\ Cardinality(Since(C, at, from)) >= Limit
    BY <1>1, <1>3, Zenon
  <1>. QED
    BY <1>4, <1>5

\* With the state before it, a request answered alone.
LEMMA AnsweredAlone ==
  ASSUME NEW app, NEW r
  PROVE  Answers(app, <<r>>)[1] = Gated(app, r)
  <1>1. Len(<<r>>) = 1 /\ <<r>>[1] = r
    OBVIOUS
  <1>2. Answers(app, <<r>>)[1] = Said(app, <<>>, r)
    <2>1. 1 \in 1 .. Len(<<r>>) /\ Len(<<r>>) \in Nat /\ 1 - 1 = 0
      BY <1>1
    <2>2. /\ History(app, <<r>>)[0].windows = <<>>
          /\ \A i \in 1 .. Len(<<r>>) :
               Answers(app, <<r>>)[i] = Said(app, History(app, <<r>>)[i - 1].windows, <<r>>[i])
      BY <2>1, AnswersStay
    <2>3. Answers(app, <<r>>)[1] = Said(app, History(app, <<r>>)[1 - 1].windows, <<r>>[1])
      BY <2>1, <2>2
    <2>. QED
      BY <1>1, <2>1, <2>2, <2>3
  <1>3. Current(<<>>, r) = [start |-> r.at, count |-> 0]
    <2>1. Key(r) \notin DOMAIN <<>>
      OBVIOUS
    <2>. QED
      BY <2>1 DEF Current
  <1>4. ~ (Current(<<>>, r).count >= Limit)
    <2>1. Current(<<>>, r).count = 0
      BY <1>3
    <2>. QED
      BY <2>1, LimitAssumption
  <1>. QED
    BY <1>2, <1>4, SaidLimited

\* The limiter keeps its promise on every sequence of requests.
LEMMA RateHolds ==
  ASSUME NEW app, app.limited \in BOOLEAN, NEW requests, InOrder(requests)
  PROVE  RateIsBounded(app, requests)
  <1>. DEFINE n == Len(requests)
              at == Times(requests)
              answers == Answers(app, requests)
              W(i) == History(app, requests)[i].windows
              C(k, i) == Counts(answers, requests, k, i)
              Sent(from, to) == {i \in DOMAIN requests : requests[i].at \in from .. to}
              Routed(i, j) == /\ answers[j] = "routed" /\ requests[j].client = requests[i].client
                              /\ Bucket(requests[j]) = Bucket(requests[i])
              Spent(i, j) == answers[j] # "limited" /\ Key(requests[j]) = Key(requests[i])
  <1>1. /\ n \in Nat /\ DOMAIN requests = 1 .. n /\ at \in [1 .. n -> Nat]
        /\ \A i \in 1 .. n : at[i] = requests[i].at
        /\ \A i, j \in 1 .. n : i <= j => at[i] <= at[j]
    BY OrderedTimes
  <1>2. \A i \in 1 .. n : answers[i] = Said(app, W(i - 1), requests[i])
    BY <1>1, AnswersStay
  <1>3. ASSUME app.limited, NEW k, k[1] # Nobody
        PROVE  \A i \in 0 .. n : /\ Windowed(C(k, i), at, W(i), k, Clock(requests, i))
                                 /\ \A start \in Nat : Cardinality(Spanned(C(k, i), at, start)) < 2 * Limit
    BY <1>3, WindowsHold
  <1>4. Window \in Nat \ {0} /\ Limit \in Nat \ {0}
    BY LimitAssumption
  <1>. HIDE DEF n, at, answers, W
  <1>5. ASSUME NEW i \in 1 .. n, app.limited, Bucket(requests[i]) # Nobody
        PROVE  Cardinality({j \in Sent(requests[i].at, requests[i].at + Window - 1) : Routed(i, j)}) < 2 * Limit
    <2>. DEFINE k == Key(requests[i])
                passed == {j \in Sent(requests[i].at, requests[i].at + Window - 1) : Routed(i, j)}
                span == Spanned(C(k, n), at, at[i])
    <2>1. k[1] # Nobody /\ n \in 0 .. n /\ at[i] \in Nat
      BY <1>1, <1>5 DEF Key
    <2>2. Cardinality(span) < 2 * Limit
      <3>. HIDE DEF C, k
      <3>. QED
        BY <1>3, <1>5, <2>1
    <2>3. passed \subseteq span
      <3>1. ASSUME NEW j \in passed PROVE j \in span
        <4>1. j \in 1 .. n /\ requests[j].at \in at[i] .. (at[i] + Window - 1) /\ Routed(i, j)
          BY <1>1
        <4>2. Key(requests[j]) = k /\ answers[j] # "limited"
          BY <4>1 DEF Key, ClientKey
        <4>3. at[j] = requests[j].at
          BY <1>1, <4>1
        <4>. QED
          BY <4>1, <4>2, <4>3 DEF Spanned, Counts
      <3>. QED
        BY <3>1
    <2>4. span \in SUBSET (1 .. n)
      BY DEF Spanned, Counts
    <2>5. /\ Cardinality(passed) \in Nat /\ Cardinality(span) \in Nat
          /\ Cardinality(passed) <= Cardinality(span)
      <3>. HIDE DEF passed, span, n
      <3>. QED
        BY <1>1, <2>3, <2>4, CountsAreFinite
    <2>6. Cardinality(passed) < 2 * Limit
      <3>. HIDE DEF passed, span
      <3>. QED
        BY <1>4, <2>2, <2>5
    <2>. QED
      BY <2>6
  <1>6. ASSUME NEW i \in 1 .. n, answers[i] = "limited"
        PROVE  \E from \in 0 .. requests[i].at :
                 /\ requests[i].at - from < Window
                 /\ Cardinality({j \in Sent(from, requests[i].at) : Spent(i, j)}) >= Limit
    <2>. DEFINE r == requests[i]
                k == Key(r)
                D == C(k, i - 1)
                spent(from) == {j \in Sent(from, r.at) : Spent(i, j)}
    <2>1. IsLimited(app, r) /\ Current(W(i - 1), r).count >= Limit
      BY <1>2, <1>6, SaidLimited
    <2>2. /\ app.limited /\ k[1] # Nobody /\ r.at \in Nat /\ r.at = at[i]
          /\ i - 1 \in 0 .. n
      BY <1>1, <2>1 DEF IsLimited, Key
    <2>3. Clock(requests, i - 1) \in Nat /\ Clock(requests, i - 1) <= r.at
      <3>1. CASE i = 1
        BY <2>2, <3>1 DEF Clock
      <3>2. CASE i # 1
        <4>1. i - 1 \in 1 .. n /\ i - 1 <= i
          BY <1>1, <3>2
        <4>2. Clock(requests, i - 1) = at[i - 1]
          BY <3>2, <4>1 DEF Clock, at
        <4>. QED
          BY <1>1, <2>2, <4>1, <4>2
      <3>. QED
        BY <3>1, <3>2
    <2>4. Windowed(D, at, W(i - 1), k, Clock(requests, i - 1))
      <3>. HIDE DEF C, k
      <3>. QED
        BY <1>3, <2>2
    <2>5. Windowed(D, at, W(i - 1), k, r.at)
      <3>. HIDE DEF D, k, r
      <3>. QED
        BY <2>2, <2>3, <2>4, StaysWindowed
    <2>6. PICK from \in 0 .. r.at : r.at - from < Window /\ Cardinality(Since(D, at, from)) >= Limit
      <3>. HIDE DEF D, r
      <3>. QED
        BY <2>1, <2>2, <2>5, RefusedUsedUp DEF k
    <2>7. Since(D, at, from) \subseteq spent(from)
      <3>1. ASSUME NEW j \in Since(D, at, from) PROVE j \in spent(from)
        <4>1. /\ j \in 1 .. (i - 1) /\ at[j] >= from
              /\ answers[j] # "limited" /\ Key(requests[j]) = k
          BY DEF Since, Counts
        <4>2. j \in 1 .. n /\ j <= i
          BY <1>1, <4>1
        <4>3. at[j] = requests[j].at /\ at[j] \in Nat /\ at[j] <= r.at
          BY <1>1, <2>2, <4>2
        <4>4. requests[j].at \in from .. r.at
          <5>. HIDE DEF r
          <5>. QED
            BY <2>2, <2>6, <4>1, <4>3
        <4>. QED
          BY <1>1, <4>1, <4>2, <4>4
      <3>. QED
        BY <3>1
    <2>8. spent(from) \in SUBSET (1 .. n)
      BY <1>1
    <2>9. /\ Cardinality(spent(from)) \in Nat /\ Cardinality(Since(D, at, from)) \in Nat
          /\ Cardinality(Since(D, at, from)) <= Cardinality(spent(from))
      <3>. HIDE DEF spent, D, n
      <3>. QED
        BY <1>1, <2>7, <2>8, CountsAreFinite
    <2>10. Cardinality(spent(from)) >= Limit
      <3>. HIDE DEF spent, D
      <3>. QED
        BY <1>4, <2>6, <2>9
    <2>11. \E f \in 0 .. r.at : r.at - f < Window /\ Cardinality(spent(f)) >= Limit
      <3>. HIDE DEF spent, D, r
      <3>. QED
        BY <2>6, <2>10
    <2>. QED
      BY <2>11
  <1>7. ASSUME NEW i \in 1 .. n, answers[i] # "limited"
        PROVE  answers[i] = Answers(app, <<requests[i]>>)[1]
    BY <1>2, <1>7, SaidLimited, AnsweredAlone
  <1>8. ASSUME NEW i \in 1 .. n, ~app.limited \/ Bucket(requests[i]) = Nobody
        PROVE  answers[i] # "limited"
    BY <1>2, <1>8, SaidLimited DEF IsLimited
  <1>. QED
    BY <1>1, <1>5, <1>6, <1>7, <1>8, ZenonT(60) DEF RateIsBounded, answers

\* The input is one that Init picked, and stays.
LEMMA TrafficInput ==
  RulesSpec => [](Is("traffic") => input.of \in Traffic)
  <1>1. Init => (Is("traffic") => input.of \in Traffic)
    BY DEF Init, Is
  <1>2. (Is("traffic") => input.of \in Traffic) /\ [Next]_input
          => (Is("traffic") => input.of \in Traffic)'
    BY DEF Next, Is
  <1>. QED
    BY <1>1, <1>2, PTL DEF RulesSpec

\* ReaderRules!TrafficIsBounded for every sequence of requests, every limit
\* and every window (core/hardening.py).
THEOREM TrafficHolds ==
  RulesSpec => []TrafficIsBounded
  <1>1. (Is("traffic") => input.of \in Traffic) => TrafficIsBounded
    BY TrafficAssumption, RateHolds DEF TrafficIsBounded
  <1>. QED
    BY <1>1, TrafficInput, PTL

---------------------------------------------------------------------------
(* Intake: the bytes of a body. *)

\* The running total grows with every chunk.
LEMMA ReceivedRuns ==
  ASSUME NEW chunks \in Seq(Nat \ {0})
  PROVE  LET total == Intake!Received(chunks) IN
         /\ total[0] = 0
         /\ \A i \in 1 .. Len(chunks) : total[i] = total[i - 1] + chunks[i]
  <1>. DEFINE Runs(h, m) == h = [i \in 0 .. m |-> IF i = 0 THEN 0 ELSE h[i - 1] + chunks[i]]
              T == {m \in Nat : \E h : Runs(h, m)}
  <1>1. 0 \in T
    <2>1. Runs([i \in 0 .. 0 |-> 0], 0)
      OBVIOUS
    <2>. QED
      BY <2>1
  <1>2. ASSUME NEW m \in Nat, m \in T PROVE m + 1 \in T
    <2>1. PICK h : Runs(h, m)
      BY <1>2
    <2>. DEFINE g == [i \in 0 .. (m + 1) |-> IF i <= m THEN h[i] ELSE h[m] + chunks[m + 1]]
    <2>2. ASSUME NEW i \in 0 .. (m + 1)
          PROVE  g[i] = IF i = 0 THEN 0 ELSE g[i - 1] + chunks[i]
      <3>1. CASE i = 0
        BY <2>1, <3>1
      <3>2. CASE i \in 1 .. m
        <4>1. g[i] = h[i] /\ g[i - 1] = h[i - 1] /\ i \in 0 .. m
          BY <3>2
        <4>. HIDE DEF g
        <4>. QED
          BY <2>1, <3>2, <4>1
      <3>3. CASE i = m + 1
        <4>1. g[i] = h[m] + chunks[m + 1] /\ g[m] = h[m] /\ i # 0 /\ i - 1 = m
          BY <3>3
        <4>. HIDE DEF g
        <4>. QED
          BY <3>3, <4>1
      <3>. QED
        BY <3>1, <3>2, <3>3
    <2>3. Runs(g, m + 1)
      <3>1. g = [i \in 0 .. (m + 1) |-> g[i]]
        OBVIOUS
      <3>. HIDE DEF g
      <3>. QED
        BY <2>2, <3>1
    <2>4. \E f : Runs(f, m + 1)
      <3>. HIDE DEF g, Runs
      <3>. QED
        BY <2>3
    <2>. HIDE DEF Runs, g
    <2>. QED
      BY <2>4
  <1>3. \E h : Runs(h, Len(chunks))
    <2>1. Nat \subseteq T
      <3>. HIDE DEF T
      <3>. QED
        BY <1>1, <1>2, SetInduction
    <2>. QED
      BY <2>1
  <1>4. Intake!Received(chunks) = CHOOSE h : Runs(h, Len(chunks))
    BY DEF Intake!Received
  <1>5. Runs(Intake!Received(chunks), Len(chunks))
    <2>. HIDE DEF Runs
    <2>. QED
      BY <1>3, <1>4
  <1>. DEFINE total == Intake!Received(chunks)
  <1>. HIDE DEF total
  <1>6. total = [i \in 0 .. Len(chunks) |-> IF i = 0 THEN 0 ELSE total[i - 1] + chunks[i]]
    BY <1>5 DEF total
  <1>7. total[0] = 0
    BY <1>6
  <1>8. ASSUME NEW i \in 1 .. Len(chunks) PROVE total[i] = total[i - 1] + chunks[i]
    BY <1>6, SMTT(60)
  <1>. QED
    BY <1>7, <1>8 DEF total

\* So no part of a body is longer than the whole, and a body with a chunk has
\* a byte.
LEMMA ReceivedGrows ==
  ASSUME NEW chunks \in Seq(Nat \ {0})
  PROVE  /\ Intake!Bytes(chunks) \in Nat
         /\ \A i \in 0 .. Len(chunks) : Intake!Received(chunks)[i] \in i .. Intake!Bytes(chunks)
  <1>. DEFINE n == Len(chunks)
              total == Intake!Received(chunks)
              T == {i \in 0 .. n : total[i] \in Nat /\ total[i] >= i}
              U == {i \in 0 .. n : total[n - i] <= total[n]}
  <1>0. /\ n \in Nat /\ \A i \in 1 .. n : chunks[i] \in Nat \ {0}
        /\ total[0] = 0 /\ \A i \in 1 .. n : total[i] = total[i - 1] + chunks[i]
    BY ReceivedRuns
  <1>. HIDE DEF total, n
  <1>1. 0 \in T
    BY <1>0
  <1>2. ASSUME NEW i \in 1 .. n, i - 1 \in T PROVE i \in T
    BY <1>0, <1>2
  <1>3. 0 .. n \subseteq T
    <2>. HIDE DEF T
    <2>. QED
      BY <1>0, <1>1, <1>2, BoundedInduction
  <1>4. 0 \in U
    <2>1. n - 0 = n /\ total[n] <= total[n] /\ 0 \in 0 .. n
      BY <1>0, <1>3
    <2>. QED
      BY <2>1
  <1>5. ASSUME NEW i \in 1 .. n, i - 1 \in U PROVE i \in U
    <2>1. total[n - (i - 1)] = total[n - i] + chunks[n - i + 1] /\ chunks[n - i + 1] \in Nat
      <3>1. n - i + 1 \in 1 .. n /\ (n - i + 1) - 1 = n - i /\ n - (i - 1) = n - i + 1
        BY <1>0
      <3>. QED
        BY <1>0, <3>1
    <2>2. total[n - i] \in Nat /\ total[n] \in Nat /\ total[n - (i - 1)] <= total[n]
      BY <1>0, <1>3, <1>5
    <2>3. total[n - i] <= total[n]
      BY <2>1, <2>2
    <2>. QED
      BY <1>0, <2>3
  <1>6. 0 .. n \subseteq U
    <2>. HIDE DEF U
    <2>. QED
      BY <1>0, <1>4, <1>5, BoundedInduction
  <1>7. ASSUME NEW i \in 0 .. n PROVE total[i] \in Nat /\ total[i] >= i /\ total[i] <= total[n]
    <2>1. n - i \in 0 .. n /\ n - (n - i) = i
      BY <1>0
    <2>2. n - i \in U /\ i \in T
      <3>. HIDE DEF T, U
      <3>. QED
        BY <1>3, <1>6, <2>1
    <2>. QED
      BY <2>1, <2>2
  <1>8. Intake!Bytes(chunks) = total[n] /\ n \in 0 .. n
    BY <1>0 DEF Intake!Bytes, total, n
  <1>. QED
    BY <1>0, <1>7, <1>8 DEF total, n

---------------------------------------------------------------------------
(* Intake: what the classifier reads. *)

\* A reading that names a paper names one the input names.
Readings(t) ==
  {c \in [type: {"BLANK", "BIBTEX", "RIS", "ARXIV_ID", "DOI", "PMCID", "PMID", "INVALID",
                 "SCHOLARLY_URL", "CITATION_TEXT"},
          names: {None, t.arxiv, Intake!Doi(t), t.pmc, t.pmid, t.url.names}] :
     /\ c.type = "ARXIV_ID" => <<"arxiv", c.names>> \in Intake!Names(t)
     /\ c.type = "DOI" => t.doi # None /\ c.names = Intake!Doi(t)}

\* A bare arXiv id is read before anything else.
LEMMA ReadingsAreReadings ==
  ASSUME NEW t
  PROVE  /\ Intake!Classify(t) \in Readings(t)
         /\ ~t.blank /\ t.record \notin {"bibtex", "ris"} /\ t.arxiv # None
              => Intake!Classify(t) = [type |-> "ARXIV_ID", names |-> t.arxiv]
  <1>. DEFINE R == Readings(t)
              Seqs == Seq(R)
  <1>1. ASSUME NEW applies, NEW type, NEW names, applies => [type |-> type, names |-> names] \in R
        PROVE  Intake!Reading(applies, type, names) \in Seqs
    BY <1>1 DEF Intake!Reading
  <1>2. /\ [type |-> "BLANK", names |-> None] \in R
        /\ [type |-> "BIBTEX", names |-> None] \in R
        /\ [type |-> "RIS", names |-> None] \in R
        /\ [type |-> "INVALID", names |-> None] \in R
        /\ [type |-> "SCHOLARLY_URL", names |-> None] \in R
        /\ [type |-> "CITATION_TEXT", names |-> None] \in R
        /\ [type |-> "PMCID", names |-> t.pmc] \in R
        /\ [type |-> "PMID", names |-> t.pmid] \in R
        /\ t.arxiv # None => [type |-> "ARXIV_ID", names |-> t.arxiv] \in R
        /\ t.doi # None => [type |-> "DOI", names |-> Intake!Doi(t)] \in R
    BY DEF Readings, Intake!Names
  <1>3. t.url # None /\ t.url.host \in DOMAIN Intake!Hosts /\ t.url.names # None
          => [type |-> Intake!Hosts[t.url.host], names |-> t.url.names] \in R
    BY DEF Readings, Intake!Names, Intake!Hosts
  <1>. HIDE DEF R
  <1>4. Intake!UrlReadings(t) \in Seqs
    <2>1. /\ Intake!Reading(t.url.host = "arxiv", "INVALID", None) \in Seqs
          /\ Intake!Reading(TRUE, "SCHOLARLY_URL", None) \in Seqs
          /\ t.url # None => Intake!Reading(t.url.host \in DOMAIN Intake!Hosts /\ t.url.names # None,
                                            Intake!Hosts[t.url.host], t.url.names) \in Seqs
      BY <1>1, <1>2, <1>3
    <2>2. <<>> \in Seqs
      OBVIOUS
    <2>3. \A a, b, c \in Seqs : a \o b \o c \in Seqs
      OBVIOUS
    <2>. HIDE DEF Seqs
    <2>. QED
      BY <2>1, <2>2, <2>3 DEF Intake!UrlReadings
  <1>. DEFINE r1 == Intake!Reading(t.blank, "BLANK", None)
              r2 == Intake!Reading(t.record = "bibtex", "BIBTEX", None)
              r3 == Intake!Reading(t.record = "ris", "RIS", None)
              r4 == Intake!Reading(t.arxiv # None, "ARXIV_ID", t.arxiv)
              r5 == IF t.doi = None THEN <<>> ELSE Intake!Reading(t.says, "DOI", Intake!Doi(t))
              r6 == Intake!Reading(t.pmc # None, "PMCID", t.pmc)
              r7 == Intake!Reading(t.pmid # None, "PMID", t.pmid)
              r8 == Intake!UrlReadings(t)
              r9 == Intake!Reading(TRUE, "CITATION_TEXT", None)
  <1>5. /\ r1 \in Seqs /\ r2 \in Seqs /\ r3 \in Seqs /\ r4 \in Seqs
        /\ r6 \in Seqs /\ r7 \in Seqs /\ r9 \in Seqs
    BY <1>1, <1>2
  <1>6. r5 \in Seqs
    <2>1. CASE t.doi = None
      BY <2>1
    <2>2. CASE t.doi # None
      BY <1>1, <1>2, <2>2
    <2>. QED
      BY <2>1, <2>2
  <1>7. Len(r9) = 1
    BY DEF Intake!Reading
  <1>8. Intake!Classify(t) = Head(r1 \o r2 \o r3 \o r4 \o r5 \o r6 \o r7 \o r8 \o r9)
    BY DEF Intake!Classify
  <1>11. ~t.blank /\ t.record \notin {"bibtex", "ris"} /\ t.arxiv # None
           => r1 = <<>> /\ r2 = <<>> /\ r3 = <<>> /\ r4 = <<[type |-> "ARXIV_ID", names |-> t.arxiv]>>
    BY DEF Intake!Reading
  <1>. HIDE DEF r1, r2, r3, r4, r5, r6, r7, r8, r9
  <1>9. r1 \o r2 \o r3 \o r4 \o r5 \o r6 \o r7 \o r8 \in Seqs
    <2>1. \A a, b \in Seqs : a \o b \in Seqs
      OBVIOUS
    <2>. HIDE DEF Seqs
    <2>. QED
      BY <1>4, <1>5, <1>6, <2>1 DEF r8
  <1>10. ASSUME NEW s \in Seqs PROVE Head(s \o r9) \in R
    <2>1. \A b, c \in Seqs : b \o c \in Seqs /\ Len(b \o c) = Len(b) + Len(c) /\ Len(b) \in Nat
      OBVIOUS
    <2>2. s \o r9 \in Seqs /\ Len(s \o r9) = Len(s) + 1 /\ Len(s) \in Nat
      <3>. HIDE DEF Seqs
      <3>. QED
        BY <1>5, <1>7, <2>1
    <2>3. Len(s \o r9) # 0
      BY <2>2
    <2>4. \A b \in Seqs : Len(b) # 0 => Head(b) \in R
      OBVIOUS
    <2>. HIDE DEF Seqs
    <2>. QED
      BY <2>2, <2>3, <2>4
  <1>12. ASSUME ~t.blank, t.record \notin {"bibtex", "ris"}, t.arxiv # None
         PROVE  Intake!Classify(t) = [type |-> "ARXIV_ID", names |-> t.arxiv]
    <2>. DEFINE a == [type |-> "ARXIV_ID", names |-> t.arxiv]
    <2>1. a \in R
      BY <1>2, <1>12
    <2>2. r1 \o r2 \o r3 \o r4 = <<a>>
      <3>1. r1 = <<>> /\ r2 = <<>> /\ r3 = <<>> /\ r4 = <<a>>
        BY <1>11, <1>12
      <3>2. <<>> \o <<>> = <<>> /\ <<>> \o <<a>> = <<a>>
        OBVIOUS
      <3>. HIDE DEF a
      <3>. QED
        BY <3>1, <3>2, Zenon
    <2>. HIDE DEF a
    <2>3. <<a>> \in Seqs /\ Len(<<a>>) = 1 /\ Head(<<a>>) = a
      BY <2>1
    <2>4. \A b, c \in Seqs : Len(b) > 0 => /\ b \o c \in Seqs /\ Len(b \o c) > 0
                                           /\ Head(b \o c) = Head(b)
      OBVIOUS
    <2>5. Head(<<a>> \o r5 \o r6 \o r7 \o r8 \o r9) = a
      <3>1. r8 \in Seqs
        BY <1>4 DEF r8
      <3>2. Len(<<a>>) > 0
        BY <2>3
      <3>. DEFINE b5 == <<a>> \o r5
                  b6 == b5 \o r6
                  b7 == b6 \o r7
                  b8 == b7 \o r8
      <3>. HIDE DEF Seqs
      <3>3. b5 \in Seqs /\ Len(b5) > 0 /\ Head(b5) = a
        BY <1>6, <2>3, <2>4, <3>2
      <3>. HIDE DEF b5
      <3>4. b6 \in Seqs /\ Len(b6) > 0 /\ Head(b6) = a
        BY <1>5, <2>4, <3>3
      <3>. HIDE DEF b6
      <3>5. b7 \in Seqs /\ Len(b7) > 0 /\ Head(b7) = a
        BY <1>5, <2>4, <3>4
      <3>. HIDE DEF b7
      <3>6. b8 \in Seqs /\ Len(b8) > 0 /\ Head(b8) = a
        BY <2>4, <3>1, <3>5
      <3>. HIDE DEF b8
      <3>7. Head(b8 \o r9) = a
        BY <1>5, <2>4, <3>6
      <3>. QED
        BY <3>7 DEF b5, b6, b7, b8
    <2>6. Intake!Classify(t) = a
      BY <1>8, <2>2, <2>5
    <2>. QED
      BY <2>6 DEF a
  <1>. QED
    BY <1>8, <1>9, <1>10, <1>12 DEF R

---------------------------------------------------------------------------
(* Intake: which paper is taken in. *)

IsInput(t, world) ==
  /\ t.doi # None => t.doi \in [id: {t.doi.id}, tail: {"none", "stop", "bracket"}]
  /\ world.answer.chunks \in Seq(Nat \ {0})

\* A download that is accepted is a PDF within the limit, and one that is
\* sound is accepted.
LEMMA DownloadIsSound ==
  ASSUME NEW a, a.chunks \in Seq(Nat \ {0})
  PROVE  LET bytes == Intake!Bytes(a.chunks) IN
         /\ Intake!Streamed(a) = 200 => a.pdf /\ bytes \in 1 .. MaxBytes
         /\ Intake!Fetched(a) = 200 => a.pdf /\ bytes \in 1 .. MaxBytes
         /\ a.ok /\ a.trusted /\ a.pdf /\ ~a.html /\ a.chunks # <<>> /\ bytes <= MaxBytes
              => /\ Intake!Fetched(a) = 200
                 /\ a.declared \in {None, bytes} => Intake!Streamed(a) = 200
  <1>. DEFINE n == Len(a.chunks)
              total == Intake!Received(a.chunks)
              bytes == Intake!Bytes(a.chunks)
  <1>1. /\ bytes \in Nat /\ bytes = total[n]
        /\ \A i \in 0 .. n : total[i] \in i .. bytes
    BY ReceivedGrows DEF Intake!Bytes
  <1>2. n \in Nat /\ DOMAIN a.chunks = 1 .. n /\ (a.chunks = <<>> <=> n = 0) /\ MaxBytes \in Nat
    BY IntakeAssumption
  <1>. HIDE DEF n, total, bytes
  <1>3. n # 0 => bytes >= 1
    BY <1>1, <1>2
  <1>4. bytes <= MaxBytes => \A i \in 1 .. n : ~ (total[i] > MaxBytes)
    <2>1. ASSUME NEW i \in 1 .. n, bytes <= MaxBytes PROVE ~ (total[i] > MaxBytes)
      <3>1. i \in 0 .. n
        BY <1>2
      <3>2. total[i] \in Nat /\ total[i] <= bytes
        BY <1>1, <1>2, <3>1
      <3>. QED
        BY <1>1, <1>2, <2>1, <3>2
    <2>. QED
      BY <2>1
  <1>5. n # 0 /\ (\A i \in 1 .. n : ~ (total[i] > MaxBytes)) => bytes <= MaxBytes
    <2>1. n # 0 => n \in 1 .. n
      BY <1>2
    <2>. QED
      BY <1>1, <1>2, <2>1
  <1>6. Intake!Streamed(a) = 200 => a.pdf /\ bytes \in 1 .. MaxBytes
    <2>1. Intake!Streamed(a) = 200 =>
            a.pdf /\ a.chunks # <<>> /\ \A i \in DOMAIN a.chunks : ~ (total[i] > MaxBytes)
      BY DEF Intake!Streamed, total
    <2>. QED
      BY <1>1, <1>2, <1>3, <1>5, <2>1, SMTT(60)
  <1>7. Intake!Fetched(a) = 200 => a.pdf /\ bytes \in 1 .. MaxBytes
    <2>1. Intake!Fetched(a) = 200 => a.pdf /\ a.chunks # <<>> /\ ~ (bytes > MaxBytes)
      BY DEF Intake!Fetched, bytes
    <2>. QED
      BY <1>1, <1>2, <1>3, <2>1
  <1>8. ASSUME a.ok, a.trusted, a.pdf, ~a.html, a.chunks # <<>>, bytes <= MaxBytes
        PROVE  /\ Intake!Fetched(a) = 200
               /\ a.declared \in {None, bytes} => Intake!Streamed(a) = 200
    <2>1. ~ (bytes > MaxBytes) /\ \A i \in DOMAIN a.chunks : ~ (total[i] > MaxBytes)
      BY <1>1, <1>2, <1>4, <1>8
    <2>2. Intake!Fetched(a) = 200
      BY <1>8, <2>1 DEF Intake!Fetched, bytes
    <2>3. ASSUME a.declared \in {None, bytes} PROVE Intake!Streamed(a) = 200
      <3>1. ~ (a.declared # None /\ a.declared > MaxBytes)
        BY <2>1, <2>3
      <3>. QED
        BY <1>8, <2>1, <3>1 DEF Intake!Streamed, total
    <2>. QED
      BY <2>2, <2>3
  <1>. QED
    BY <1>6, <1>7, <1>8 DEF bytes

\* The DOI of an input names its paper once what follows it is cut off.
LEMMA DoiIsNamed ==
  ASSUME NEW t, t.doi # None, t.doi \in [id: {t.doi.id}, tail: {"none", "stop", "bracket"}]
  PROVE  LET d == Intake!Doi(t) IN
         /\ d.id = t.doi.id
         /\ d.tail = "none" => <<"doi", d>> \in Intake!Names(t)
         /\ t.doi.tail # "bracket" => d.tail = "none"
  <1>1. t.doi = [id |-> t.doi.id, tail |-> t.doi.tail] /\ t.doi.tail \in {"none", "stop", "bracket"}
    OBVIOUS
  <1>2. CASE t.doi.tail = "stop"
    <2>1. Intake!Doi(t) = [id |-> t.doi.id, tail |-> "none"]
      BY <1>1, <1>2 DEF Intake!Doi
    <2>. QED
      BY <1>2, <2>1 DEF Intake!Names
  <1>3. CASE t.doi.tail # "stop"
    <2>1. Intake!Doi(t) = t.doi
      BY <1>3 DEF Intake!Doi
    <2>2. t.doi.tail = "none" => t.doi = [id |-> t.doi.id, tail |-> "none"]
      BY <1>1
    <2>3. t.doi.tail = "none" => <<"doi", t.doi>> \in Intake!Names(t)
      BY <2>2 DEF Intake!Names
    <2>. QED
      BY <1>1, <1>3, <2>1, <2>3
  <1>. QED
    BY <1>2, <1>3

\* A paper that resolves with an address to fetch it from is one the input
\* names and its registry confirms.
LEMMA ResolvedIsNamed ==
  ASSUME NEW t, NEW world, IsInput(t, world),
         Intake!Resolve(t, world).status = 200, Intake!Resolve(t, world).pdf # None
  PROVE  LET p == Intake!Resolve(t, world) IN
         /\ p.identity \in Intake!Names(t) /\ Intake!IsConfirmed(p.identity, world)
         /\ p.confidence >= 90
  <1>. DEFINE c == Intake!Classify(t)
              p == Intake!Resolve(t, world)
  <1>1. c \in Readings(t)
    BY ReadingsAreReadings
  <1>. HIDE DEF c
  <1>2. CASE c.type \in {"BLANK", "INVALID"}
    <2>1. p = Intake!Refused(422)
      BY <1>2 DEF Intake!Resolve, Intake!Verbatim, c
    <2>. QED
      BY <2>1 DEF Intake!Refused
  <1>3. CASE c.type = "ARXIV_ID"
    <2>1. p = Intake!FetchMetadata(c.names, world)
      BY <1>3 DEF Intake!Resolve, Intake!Verbatim, c
    <2>2. /\ "arxiv" \in world.up /\ c.names \in world.arxiv
          /\ p = [status |-> 200, identity |-> <<"arxiv", c.names>>, pdf |-> "arxiv", confidence |-> 100]
      BY <2>1 DEF Intake!FetchMetadata, Intake!Refused, Intake!Resolved
    <2>3. <<"arxiv", c.names>> \in Intake!Names(t)
      BY <1>1, <1>3 DEF Readings
    <2>4. Intake!IsConfirmed(<<"arxiv", c.names>>, world)
      BY <2>2 DEF Intake!IsConfirmed
    <2>5. p.identity = <<"arxiv", c.names>> /\ p.confidence = 100
      BY <2>2
    <2>. HIDE DEF p
    <2>6. p.identity \in Intake!Names(t) /\ Intake!IsConfirmed(p.identity, world) /\ p.confidence >= 90
      BY <2>3, <2>4, <2>5
    <2>. QED
      BY <2>6 DEF p
  <1>4. ASSUME t.doi # None, p = Intake!Crossref(Intake!Doi(t), world)
        PROVE  /\ p.identity \in Intake!Names(t) /\ Intake!IsConfirmed(p.identity, world)
               /\ p.confidence >= 90
    <2>. DEFINE d == Intake!Doi(t)
    <2>1. /\ "crossref" \in world.up /\ d.tail = "none" /\ d.id \in DOMAIN world.crossref
          /\ p = [status |-> 200, identity |-> <<"doi", d>>, pdf |-> world.crossref[d.id], confidence |-> 98]
      BY <1>4 DEF Intake!Crossref, Intake!Refused, Intake!Resolved
    <2>2. <<"doi", d>> \in Intake!Names(t)
      BY <1>4, <2>1, DoiIsNamed DEF IsInput
    <2>. HIDE DEF d, p
    <2>3. Intake!IsConfirmed(<<"doi", d>>, world)
      BY <2>1 DEF Intake!IsConfirmed
    <2>4. p.identity = <<"doi", d>> /\ p.confidence = 98
      BY <2>1
    <2>. QED
      BY <2>2, <2>3, <2>4
  <1>5. CASE c.type = "DOI"
    <2>1. t.doi # None /\ c.names = Intake!Doi(t)
      BY <1>1, <1>5 DEF Readings
    <2>2. p = Intake!Crossref(c.names, world)
      BY <1>5 DEF Intake!Resolve, Intake!Verbatim, c
    <2>. QED
      BY <1>4, <2>1, <2>2
  <1>6. CASE c.type \in Intake!Verbatim /\ t.doi # None
    <2>1. p = Intake!Crossref(Intake!Doi(t), world)
      BY <1>6 DEF Intake!Resolve, Intake!Verbatim, c
    <2>. QED
      BY <1>4, <1>6, <2>1
  <1>7. CASE c.type \in {"PMID", "PMCID"}
    <2>1. p = Intake!Ncbi(c.type, c.names, world)
      BY <1>7 DEF Intake!Resolve, Intake!Verbatim, c
    <2>. QED
      BY <2>1 DEF Intake!Ncbi, Intake!Refused, Intake!Resolved
  <1>8. CASE c.type \in Intake!Verbatim /\ t.doi = None
    <2>1. p \in {Intake!Resolved(<<"url", t>>, None, 20), Intake!ResolveText(t, world), Intake!ResolveRecord(t)}
      BY <1>8 DEF Intake!Resolve, Intake!Verbatim, c
    <2>. QED
      BY <2>1 DEF Intake!ResolveText, Intake!ResolveRecord, Intake!Refused, Intake!Resolved
  <1>. QED
    BY <1>1, <1>2, <1>3, <1>5, <1>6, <1>7, <1>8 DEF Readings, Intake!Verbatim

\* The intake keeps its promise on every input.
LEMMA IntakeHolds ==
  ASSUME NEW t, NEW world, IsInput(t, world)
  PROVE  Intake!IntakeIsSure(t, world)
  <1>. DEFINE c == Intake!Classify(t)
              p == Intake!Resolve(t, world)
              a == world.answer
              fetched == IF c.type = "ARXIV_ID" THEN Intake!Streamed(a) ELSE Intake!Fetched(a)
              taken == Intake!Ingest(t, world)
              bytes == Intake!Bytes(a.chunks)
              sound == a.ok /\ a.trusted /\ a.pdf /\ ~a.html /\ a.chunks # <<>> /\ bytes <= MaxBytes
  <1>1. taken = IF p.status # 200 THEN p
                ELSE IF p.pdf = None THEN Intake!Refused(IF c.type = "SCHOLARLY_URL" THEN 422 ELSE 409)
                ELSE IF c.type # "ARXIV_ID" /\ p.pdf # "public" THEN Intake!Refused(502)
                ELSE IF fetched # 200 THEN Intake!Refused(fetched)
                ELSE Intake!Admitted(p.identity)
    BY DEF Intake!Ingest
  <1>2. a.chunks \in Seq(Nat \ {0})
    BY DEF IsInput
  <1>. HIDE DEF taken, p, c
  <1>3. ASSUME taken.status = 200
        PROVE  /\ taken.identity \in Intake!Names(t)
               /\ Intake!IsConfirmed(taken.identity, world)
               /\ taken.identity = p.identity
               /\ p.confidence >= 90
               /\ a.pdf /\ bytes \in 1 .. MaxBytes
    <2>1. /\ p.status = 200 /\ p.pdf # None /\ fetched = 200
          /\ taken = Intake!Admitted(p.identity)
      <3>. HIDE DEF fetched
      <3>. QED
        BY <1>1, <1>3 DEF Intake!Refused
    <2>2. taken.identity = p.identity
      BY <2>1 DEF Intake!Admitted
    <2>3. p.identity \in Intake!Names(t) /\ Intake!IsConfirmed(p.identity, world) /\ p.confidence >= 90
      BY <2>1, ResolvedIsNamed DEF p
    <2>4. a.pdf /\ bytes \in 1 .. MaxBytes
      BY <1>2, <2>1, DownloadIsSound
    <2>. QED
      BY <2>2, <2>3, <2>4
  <1>4. ASSUME ~t.blank, t.record = None, sound, a.declared \in {None, bytes}, t.arxiv # None,
               Intake!IsConfirmed(<<"arxiv", t.arxiv>>, world)
        PROVE  taken.status = 200
    <2>1. c.type = "ARXIV_ID" /\ c.names = t.arxiv
      <3>1. None \notin {"bibtex", "ris"}
        BY IntakeAssumption
      <3>2. c = [type |-> "ARXIV_ID", names |-> t.arxiv]
        BY <1>4, <3>1, ReadingsAreReadings DEF c
      <3>. QED
        BY <3>2
    <2>2. "arxiv" \in world.up /\ t.arxiv \in world.arxiv
      BY <1>4 DEF Intake!IsConfirmed
    <2>3. p = Intake!FetchMetadata(t.arxiv, world)
      BY <2>1 DEF Intake!Resolve, Intake!Verbatim, p, c
    <2>4. p.status = 200 /\ p.pdf = "arxiv"
      BY <2>2, <2>3 DEF Intake!FetchMetadata, Intake!Resolved
    <2>5. p.pdf # None
      BY <2>4, IntakeAssumption
    <2>6. Intake!Streamed(a) = 200
      BY <1>2, <1>4, DownloadIsSound
    <2>. QED
      BY <1>1, <2>1, <2>4, <2>5, <2>6 DEF Intake!Admitted
  <1>5. ASSUME ~t.blank, sound, c.type \in {"DOI"} \cup Intake!Verbatim, t.doi # None,
               t.doi.tail # "bracket", Intake!IsConfirmed(<<"doi", Intake!Doi(t)>>, world),
               world.crossref[t.doi.id] = "public"
        PROVE  taken.status = 200
    <2>. DEFINE d == Intake!Doi(t)
    <2>1. p = Intake!Crossref(d, world)
      <3>1. CASE c.type = "DOI"
        <4>1. c.names = d
          BY <3>1, ReadingsAreReadings DEF Readings, c
        <4>. QED
          BY <3>1, <4>1 DEF Intake!Resolve, Intake!Verbatim, p, c
      <3>2. CASE c.type \in Intake!Verbatim
        BY <1>5, <3>2 DEF Intake!Resolve, Intake!Verbatim, p, c
      <3>. QED
        BY <1>5, <3>1, <3>2
    <2>2. d.tail = "none" /\ d.id = t.doi.id
      BY <1>5, DoiIsNamed DEF IsInput
    <2>. HIDE DEF d
    <2>3. "crossref" \in world.up /\ d.id \in DOMAIN world.crossref
      BY <1>5 DEF Intake!IsConfirmed, d
    <2>4. p.status = 200 /\ p.pdf = "public"
      BY <1>5, <2>1, <2>2, <2>3 DEF Intake!Crossref, Intake!Resolved
    <2>5. p.pdf # None
      BY <2>4, IntakeAssumption
    <2>6. Intake!Fetched(a) = 200
      BY <1>2, <1>5, DownloadIsSound
    <2>7. c.type # "ARXIV_ID"
      BY <1>5 DEF Intake!Verbatim
    <2>. QED
      BY <1>1, <2>4, <2>5, <2>6, <2>7 DEF Intake!Admitted
  <1>. QED
    BY <1>3, <1>4, <1>5 DEF Intake!IntakeIsSure, taken, p, c

\* ReaderRules!IntakeIsSure for every input, every state of the services and
\* every download (ingestion/resolver.py, arxiv/client.py, service.py).
THEOREM IntakeSafe ==
  RulesSpec => []IntakeIsSure
  <1>1. Init => (Is("intake") => input.of \in Inputs)
    BY DEF Init, Is
  <1>2. (Is("intake") => input.of \in Inputs) /\ [Next]_input => (Is("intake") => input.of \in Inputs)'
    BY DEF Next, Is
  <1>3. (Is("intake") => input.of \in Inputs) => IntakeIsSure
    <2>1. ASSUME input.of \in Inputs PROVE IsInput(input.of.text, input.of.world)
      BY <2>1, IntakeAssumption DEF IsInput
    <2>. QED
      BY <2>1, IntakeHolds DEF IntakeIsSure
  <1>. QED
    BY <1>1, <1>2, <1>3, PTL DEF RulesSpec

\* A module that is instantiated counts as this one does.
LEMMA CountsAlike ==
  ASSUME NEW S
  PROVE  Users!Cardinality(S) = Cardinality(S)
  BY DEF Users!Cardinality, Cardinality

---------------------------------------------------------------------------
(* Accounts: what a request does to the state. *)

IsState(s) ==
  s = [users |-> s.users, sessions |-> s.sessions, configs |-> s.configs, calls |-> s.calls,
       answers |-> s.answers]

Joins == {"register", "login"}

\* What request r, answered a, does to users and sessions.
SessionStep(app, s, r, t, a) ==
  LET user == r.email.names
      token == Users!PresentedToken(r)
  IN /\ r.act \in Joins =>
          \/ a.token = None /\ t.users = s.users /\ t.sessions = s.sessions
          \/ /\ a.token = Len(s.sessions) + 1
             /\ t.sessions = Append(s.sessions, [user |-> user, expires |-> r.at + Ttl, revoked |-> FALSE])
             /\ r.act = "login" => t.users = s.users
             /\ r.act = "register" =>
                  /\ user \notin DOMAIN s.users
                  /\ t.users = [u \in DOMAIN s.users \cup {user} |->
                                  IF u = user THEN [hash |-> r.password] ELSE s.users[u]]
     /\ r.act = "login" =>
          (a.token # None <=> user \in DOMAIN s.users /\ s.users[user].hash = r.password)
     /\ r.act = "logout" =>
          t.sessions = IF token \in DOMAIN s.sessions
                         THEN [s.sessions EXCEPT ![token].revoked = TRUE] ELSE s.sessions
     /\ r.act \notin Joins => t.users = s.users /\ a.token = None
     /\ r.act \notin Joins \cup {"logout"} => t.sessions = s.sessions
     /\ r.act \notin Joins \cup {"tested"} => a.user = Users!CurrentUser(app, s, r)

\* What it does to provider configurations and the tests of them.
ConfigStep(s, r, t, a) ==
  /\ r.act = "save" =>
       t.configs = IF a.says = "ok" THEN Users!SaveConfig(s, r, a.user) ELSE s.configs
  /\ r.act = "delete" =>
       \/ t.configs = s.configs
       \/ t.configs = [c \in DOMAIN s.configs \ {r.config} |-> s.configs[c]]
  /\ r.act = "test" =>
       IF a.says = "testing"
         THEN /\ r.config \in DOMAIN s.configs
              /\ t.calls = Users!Put(s.calls, r.call, [config |-> r.config, owner |-> a.user])
         ELSE t.calls = s.calls
  /\ r.act = "tested" =>
       IF r.call \in DOMAIN s.calls
         THEN LET call == s.calls[r.call]
              IN /\ t.configs = IF Users!Owned(s, call.config, call.owner)
                                  THEN [s.configs EXCEPT ![call.config].status = a.says] ELSE s.configs
                 /\ t.calls = [c \in DOMAIN s.calls \ {r.call} |-> s.calls[c]]
         ELSE t.configs = s.configs /\ t.calls = s.calls
  /\ r.act \notin {"save", "delete", "tested"} => t.configs = s.configs
  /\ r.act \notin {"test", "tested"} => t.calls = s.calls

\* A component set anew.
LEMMA StateExcepts ==
  ASSUME NEW s, IsState(s), NEW x
  PROVE  /\ [s EXCEPT !.sessions = x] =
              [users |-> s.users, sessions |-> x, configs |-> s.configs, calls |-> s.calls,
               answers |-> s.answers]
         /\ [s EXCEPT !.configs = x] =
              [users |-> s.users, sessions |-> s.sessions, configs |-> x, calls |-> s.calls,
               answers |-> s.answers]
         /\ [s EXCEPT !.calls = x] =
              [users |-> s.users, sessions |-> s.sessions, configs |-> s.configs, calls |-> x,
               answers |-> s.answers]
  BY DEF IsState

LEMMA StateExceptsTwo ==
  ASSUME NEW s, IsState(s), NEW x, NEW y
  PROVE  [s EXCEPT !.configs = x, !.calls = y] =
           [users |-> s.users, sessions |-> s.sessions, configs |-> x, calls |-> y, answers |-> s.answers]
  <1>. DEFINE v == [users |-> s.users, sessions |-> s.sessions, configs |-> x, calls |-> s.calls,
                    answers |-> s.answers]
  <1>1. [s EXCEPT !.configs = x] = v
    BY StateExcepts
  <1>2. IsState(v) /\ v.users = s.users /\ v.sessions = s.sessions /\ v.configs = x /\ v.answers = s.answers
    BY DEF IsState
  <1>3. [[s EXCEPT !.configs = x] EXCEPT !.calls = y] = [s EXCEPT !.configs = x, !.calls = y]
    OBVIOUS
  <1>. HIDE DEF v
  <1>4. [v EXCEPT !.calls = y] =
          [users |-> v.users, sessions |-> v.sessions, configs |-> v.configs, calls |-> y, answers |-> v.answers]
    BY <1>2, StateExcepts
  <1>. QED
    BY <1>1, <1>2, <1>3, <1>4

\* An answer is one more of the answers, and nothing else.
LEMMA AnswerDoes ==
  ASSUME NEW s, IsState(s), NEW says, NEW user, NEW token
  PROVE  Users!Answer(s, says, user, token) =
           [users |-> s.users, sessions |-> s.sessions, configs |-> s.configs, calls |-> s.calls,
            answers |-> Append(s.answers, [says |-> says, user |-> user, token |-> token])]
  <1>. DEFINE x == Append(s.answers, [says |-> says, user |-> user, token |-> token])
  <1>1. Users!Answer(s, says, user, token) = [s EXCEPT !.answers = x]
    BY DEF Users!Answer
  <1>. HIDE DEF x
  <1>2. [s EXCEPT !.answers = x] =
          [users |-> s.users, sessions |-> s.sessions, configs |-> s.configs, calls |-> s.calls, answers |-> x]
    BY DEF IsState
  <1>. QED
    BY <1>1, <1>2 DEF x

\* The effects of a request, and the answer it adds.
Does(app, s, r, t, a) ==
  /\ IsState(t) /\ t.answers = Append(s.answers, a)
  /\ SessionStep(app, s, r, t, a) /\ ConfigStep(s, r, t, a)

LEMMA AnswerOnly ==
  ASSUME NEW app, NEW s, IsState(s), NEW r, r.act \in Users!Acts, NEW says, NEW user,
         r.act # "logout", r.act = "login" => ~ (r.email.names \in DOMAIN s.users
                                                 /\ s.users[r.email.names].hash = r.password),
         r.act \notin Joins \cup {"tested"} => user = Users!CurrentUser(app, s, r),
         r.act = "save" => says # "ok",
         r.act = "test" => says # "testing",
         r.act = "tested" => r.call \notin DOMAIN s.calls
  PROVE  \E a : Does(app, s, r, Users!Answer(s, says, user, None), a)
  <1>. DEFINE a == [says |-> says, user |-> user, token |-> None]
              t == [users |-> s.users, sessions |-> s.sessions, configs |-> s.configs, calls |-> s.calls,
                    answers |-> Append(s.answers, a)]
  <1>1. Users!Answer(s, says, user, None) = t
    BY AnswerDoes
  <1>2. a.says = says /\ a.user = user /\ a.token = None
    OBVIOUS
  <1>3. /\ t.users = s.users /\ t.sessions = s.sessions /\ t.configs = s.configs /\ t.calls = s.calls
        /\ t.answers = Append(s.answers, a)
    OBVIOUS
  <1>4. IsState(t)
    BY DEF IsState
  <1>. HIDE DEF a, t
  <1>5. SessionStep(app, s, r, t, a)
    BY <1>2, <1>3 DEF SessionStep, Joins
  <1>6. ConfigStep(s, r, t, a)
    BY <1>2, <1>3 DEF ConfigStep
  <1>7. Does(app, s, r, t, a)
    BY <1>3, <1>4, <1>5, <1>6 DEF Does
  <1>. QED
    BY <1>1, <1>7

\* Whoever joins gets a session of his own.
LEMMA JoinDoes ==
  ASSUME NEW app, NEW s, IsState(s), Len(s.sessions) \in Nat, NEW r, r.act \in Joins
  PROVE  \E a : Does(app, s, r, Users!Serve(app, s, r), a)
  <1>. DEFINE user == r.email.names
              session == [user |-> user, expires |-> r.at + Ttl, revoked |-> FALSE]
              token == Len(s.sessions) + 1
              a == [says |-> "ok", user |-> user, token |-> token]
  <1>0. token # None
    BY UsersAssumption
  <1>1. ASSUME NEW users, IsState(users), users.sessions = s.sessions
        PROVE  Users!IssueSession(users, user, r.at) =
                 [users |-> users.users, sessions |-> Append(s.sessions, session), configs |-> users.configs,
                  calls |-> users.calls, answers |-> Append(users.answers, a)]
    <2>. DEFINE u == [users EXCEPT !.sessions = Append(@, session)]
    <2>1. u = [users |-> users.users, sessions |-> Append(s.sessions, session), configs |-> users.configs,
               calls |-> users.calls, answers |-> users.answers]
      <3>. DEFINE x == Append(users.sessions, session)
      <3>1. u = [users EXCEPT !.sessions = x]
        OBVIOUS
      <3>2. x = Append(s.sessions, session)
        BY <1>1
      <3>. HIDE DEF u, x, session
      <3>3. u = [users |-> users.users, sessions |-> x, configs |-> users.configs,
                 calls |-> users.calls, answers |-> users.answers]
        BY <1>1, <3>1, StateExcepts
      <3>. QED
        BY <3>2, <3>3, Zenon
    <2>2. IsState(u)
      BY <2>1 DEF IsState
    <2>3. Users!IssueSession(users, user, r.at) = Users!Answer(u, "ok", user, token)
      BY <1>1 DEF Users!IssueSession
    <2>4. Users!Answer(u, "ok", user, token) =
            [users |-> u.users, sessions |-> u.sessions, configs |-> u.configs, calls |-> u.calls,
             answers |-> Append(u.answers, a)]
      <3>. HIDE DEF u
      <3>. QED
        BY <2>2, AnswerDoes
    <2>5. /\ u.users = users.users /\ u.sessions = Append(s.sessions, session) /\ u.configs = users.configs
          /\ u.calls = users.calls /\ u.answers = users.answers
      BY <2>1
    <2>. HIDE DEF u, a, session
    <2>. QED
      BY <2>3, <2>4, <2>5
  <1>2. CASE r.act = "register"
    <2>1. CASE user \notin Addresses
      <3>1. Users!Serve(app, s, r) = Users!Answer(s, "invalid", None, None)
        BY <1>2, <2>1 DEF Users!Serve, Users!Register, Users!NormalizeEmail
      <3>2. \E b : Does(app, s, r, Users!Answer(s, "invalid", None, None), b)
        <4>. HIDE DEF a, session, token
        <4>1. /\ r.act \in Users!Acts /\ r.act # "logout"
              /\ r.act = "login" => ~ (r.email.names \in DOMAIN s.users
                                       /\ s.users[r.email.names].hash = r.password)
              /\ r.act \in Joins
              /\ r.act # "save" /\ r.act # "test" /\ r.act # "tested"
          BY <1>2 DEF Users!Acts, Joins, user
        <4>. HIDE DEF user
        <4>. QED
          BY <4>1, AnswerOnly
      <3>. HIDE DEF a, session, token
      <3>. QED
        BY <3>1, <3>2
    <2>2. CASE user \in Addresses /\ user \in DOMAIN s.users
      <3>1. Users!Serve(app, s, r) = Users!Answer(s, "taken", None, None)
        BY <1>2, <2>2 DEF Users!Serve, Users!Register, Users!NormalizeEmail
      <3>2. \E b : Does(app, s, r, Users!Answer(s, "taken", None, None), b)
        <4>. HIDE DEF a, session, token
        <4>1. /\ r.act \in Users!Acts /\ r.act # "logout"
              /\ r.act = "login" => ~ (r.email.names \in DOMAIN s.users
                                       /\ s.users[r.email.names].hash = r.password)
              /\ r.act \in Joins
              /\ r.act # "save" /\ r.act # "test" /\ r.act # "tested"
          BY <1>2 DEF Users!Acts, Joins, user
        <4>. HIDE DEF user
        <4>. QED
          BY <4>1, AnswerOnly
      <3>. HIDE DEF a, session, token
      <3>. QED
        BY <3>1, <3>2
    <2>3. CASE user \in Addresses /\ user \notin DOMAIN s.users
      <3>. DEFINE users == [u \in DOMAIN s.users \cup {user} |->
                             IF u = user THEN [hash |-> r.password] ELSE s.users[u]]
                  v == [s EXCEPT !.users = users]
                  t == [users |-> users, sessions |-> Append(s.sessions, session), configs |-> s.configs,
                        calls |-> s.calls, answers |-> Append(s.answers, a)]
      <3>1. Users!Serve(app, s, r) = Users!IssueSession(v, user, r.at)
        BY <1>2, <2>3 DEF Users!Serve, Users!Register, Users!NormalizeEmail, Users!PasswordHash
      <3>2. v = [users |-> users, sessions |-> s.sessions, configs |-> s.configs, calls |-> s.calls,
                 answers |-> s.answers]
        <4>. HIDE DEF users
        <4>. QED
          BY DEF IsState
      <3>3. /\ IsState(v) /\ v.sessions = s.sessions /\ v.users = users /\ v.configs = s.configs
            /\ v.calls = s.calls /\ v.answers = s.answers
        <4>. HIDE DEF users
        <4>. QED
          BY <3>2 DEF IsState
      <3>4. Users!Serve(app, s, r) = t
        <4>. HIDE DEF v, users, a, session
        <4>. QED
          BY <1>1, <3>1, <3>3
      <3>5. /\ t.users = users /\ t.sessions = Append(s.sessions, session) /\ t.configs = s.configs
            /\ t.calls = s.calls /\ t.answers = Append(s.answers, a) /\ IsState(t)
        <4>. HIDE DEF users, a, session
        <4>. QED
          BY DEF IsState
      <3>6. a.token = token
        OBVIOUS
      <3>7. SessionStep(app, s, r, t, a)
        <4>. HIDE DEF t, a
        <4>. QED
          BY <1>2, <2>3, <3>5, <3>6 DEF SessionStep, Joins
      <3>8. ConfigStep(s, r, t, a)
        <4>. HIDE DEF t, a, users, session
        <4>. QED
          BY <1>2, <3>5 DEF ConfigStep
      <3>9. Does(app, s, r, t, a)
        <4>. HIDE DEF t, a
        <4>. QED
          BY <3>5, <3>7, <3>8 DEF Does
      <3>. HIDE DEF t, a
      <3>. QED
        BY <3>4, <3>9
    <2>. QED
      BY <2>1, <2>2, <2>3
  <1>3. CASE r.act = "login"
    <2>1. CASE user \in DOMAIN s.users /\ s.users[user].hash = r.password
      <3>. DEFINE t == [users |-> s.users, sessions |-> Append(s.sessions, session), configs |-> s.configs,
                        calls |-> s.calls, answers |-> Append(s.answers, a)]
      <3>1. Users!Serve(app, s, r) = Users!IssueSession(s, user, r.at)
        BY <1>3, <2>1 DEF Users!Serve, Users!Login, Users!NormalizeEmail, Users!VerifyPassword
      <3>4. Users!Serve(app, s, r) = t
        <4>. HIDE DEF a, session
        <4>. QED
          BY <1>1, <3>1
      <3>5. /\ t.users = s.users /\ t.sessions = Append(s.sessions, session) /\ t.configs = s.configs
            /\ t.calls = s.calls /\ t.answers = Append(s.answers, a) /\ IsState(t)
        <4>. HIDE DEF a, session
        <4>. QED
          BY DEF IsState
      <3>6. a.token = token
        OBVIOUS
      <3>7. SessionStep(app, s, r, t, a)
        <4>. HIDE DEF t, a
        <4>. QED
          BY <1>0, <1>3, <2>1, <3>5, <3>6 DEF SessionStep, Joins
      <3>8. ConfigStep(s, r, t, a)
        <4>. HIDE DEF t, a, session
        <4>. QED
          BY <1>3, <3>5 DEF ConfigStep
      <3>9. Does(app, s, r, t, a)
        <4>. HIDE DEF t, a
        <4>. QED
          BY <3>5, <3>7, <3>8 DEF Does
      <3>. HIDE DEF t, a
      <3>. QED
        BY <3>4, <3>9
    <2>2. CASE ~ (user \in DOMAIN s.users /\ s.users[user].hash = r.password)
      <3>1. Users!Serve(app, s, r) = Users!Answer(s, "denied", None, None)
        BY <1>3, <2>2 DEF Users!Serve, Users!Login, Users!NormalizeEmail, Users!VerifyPassword
      <3>2. \E b : Does(app, s, r, Users!Answer(s, "denied", None, None), b)
        <4>. HIDE DEF a, session, token
        <4>1. /\ r.act \in Users!Acts /\ r.act # "logout"
              /\ r.act = "login" => ~ (r.email.names \in DOMAIN s.users
                                       /\ s.users[r.email.names].hash = r.password)
              /\ r.act \in Joins
              /\ r.act # "save" /\ r.act # "test" /\ r.act # "tested"
          BY <1>3, <2>2 DEF Users!Acts, Joins, user
        <4>. HIDE DEF user
        <4>. QED
          BY <4>1, AnswerOnly
      <3>. HIDE DEF a, session, token
      <3>. QED
        BY <3>1, <3>2
    <2>. QED
      BY <2>1, <2>2
  <1>. QED
    BY <1>2, <1>3 DEF Joins

\* An answer to a request that gives no token, after the state was changed.
LEMMA AnswerAfter ==
  ASSUME NEW app, NEW s, IsState(s), NEW r, r.act \notin Joins,
         NEW sessions, NEW configs, NEW calls, NEW says, NEW user,
         sessions = IF r.act = "logout" /\ Users!PresentedToken(r) \in DOMAIN s.sessions
                      THEN [s.sessions EXCEPT ![Users!PresentedToken(r)].revoked = TRUE] ELSE s.sessions,
         r.act # "tested" => user = Users!CurrentUser(app, s, r),
         ConfigStep(s, r, [configs |-> configs, calls |-> calls], [says |-> says, user |-> user])
  PROVE  \E a : Does(app, s, r,
                     Users!Answer([users |-> s.users, sessions |-> sessions, configs |-> configs,
                                   calls |-> calls, answers |-> s.answers], says, user, None), a)
  <1>. DEFINE a == [says |-> says, user |-> user, token |-> None]
              u == [users |-> s.users, sessions |-> sessions, configs |-> configs, calls |-> calls,
                    answers |-> s.answers]
              t == [users |-> s.users, sessions |-> sessions, configs |-> configs, calls |-> calls,
                    answers |-> Append(s.answers, a)]
  <1>1. Users!Answer(u, says, user, None) = t
    <2>1. /\ IsState(u) /\ u.users = s.users /\ u.sessions = sessions /\ u.configs = configs
          /\ u.calls = calls /\ u.answers = s.answers
      BY DEF IsState
    <2>2. Users!Answer(u, says, user, None) =
            [users |-> u.users, sessions |-> u.sessions, configs |-> u.configs, calls |-> u.calls,
             answers |-> Append(u.answers, a)]
      <3>. HIDE DEF u
      <3>. QED
        BY <2>1, AnswerDoes
    <2>. HIDE DEF u, a
    <2>. QED
      BY <2>1, <2>2
  <1>2. a.says = says /\ a.user = user /\ a.token = None
    OBVIOUS
  <1>3. /\ t.users = s.users /\ t.sessions = sessions /\ t.configs = configs /\ t.calls = calls
        /\ t.answers = Append(s.answers, a)
    OBVIOUS
  <1>4. IsState(t)
    BY DEF IsState
  <1>5. ConfigStep(s, r, t, a)
    <2>. DEFINE t0 == [configs |-> configs, calls |-> calls]
                a0 == [says |-> says, user |-> user]
    <2>1. t.configs = t0.configs /\ t.calls = t0.calls /\ a.says = a0.says /\ a.user = a0.user
      OBVIOUS
    <2>2. ConfigStep(s, r, t0, a0)
      OBVIOUS
    <2>. HIDE DEF t, a, t0, a0
    <2>. QED
      BY <2>1, <2>2, Zenon DEF ConfigStep
  <1>. HIDE DEF a, t
  <1>6. SessionStep(app, s, r, t, a)
    BY <1>2, <1>3 DEF SessionStep, Joins
  <1>7. Does(app, s, r, t, a)
    BY <1>3, <1>4, <1>5, <1>6 DEF Does
  <1>. QED
    BY <1>1, <1>7

LEMMA LogoutDoes ==
  ASSUME NEW app, NEW s, IsState(s), NEW r, r.act = "logout"
  PROVE  \E a : Does(app, s, r, Users!Serve(app, s, r), a)
  <1>. DEFINE token == Users!PresentedToken(r)
              sessions == IF r.act = "logout" /\ token \in DOMAIN s.sessions
                            THEN [s.sessions EXCEPT ![token].revoked = TRUE] ELSE s.sessions
              u == [users |-> s.users, sessions |-> sessions, configs |-> s.configs, calls |-> s.calls,
                    answers |-> s.answers]
              user == Users!CurrentUser(app, s, r)
  <1>1. Users!Serve(app, s, r) = Users!Answer(u, "ok", user, None)
    <2>1. Users!Serve(app, s, r) =
            Users!Answer(IF token \in DOMAIN s.sessions THEN [s EXCEPT !.sessions = sessions] ELSE s,
                         "ok", user, None)
      BY DEF Users!Serve, Users!Logout
    <2>. HIDE DEF token, user
    <2>2. CASE token \in DOMAIN s.sessions
      <3>. HIDE DEF sessions
      <3>1. [s EXCEPT !.sessions = sessions] = u
        BY StateExcepts
      <3>. HIDE DEF u
      <3>. QED
        BY <2>1, <2>2, <3>1
    <2>3. CASE token \notin DOMAIN s.sessions
      <3>1. sessions = s.sessions
        BY <2>3
      <3>2. s = u
        BY <3>1 DEF IsState
      <3>. HIDE DEF u
      <3>. QED
        BY <2>1, <2>3, <3>2
    <2>. QED
      BY <2>2, <2>3
  <1>2. ConfigStep(s, r, [configs |-> s.configs, calls |-> s.calls], [says |-> "ok", user |-> user])
    BY DEF ConfigStep
  <1>3. \E a : Does(app, s, r, Users!Answer(u, "ok", user, None), a)
    <2>. HIDE DEF user
    <2>. QED
      BY <1>2, AnswerAfter DEF Joins, user
  <1>. HIDE DEF u, user
  <1>. QED
    BY <1>1, <1>3

\* A request that needs a user changes his configurations and tests only.
LEMMA ProtectedDoes ==
  ASSUME NEW app, NEW s, IsState(s), NEW r, r.act \in {"me", "save", "delete", "test"}
  PROVE  \E a : Does(app, s, r, Users!Serve(app, s, r), a)
  <1>. DEFINE user == Users!CurrentUser(app, s, r)
              With(configs, calls) ==
                [users |-> s.users, sessions |-> s.sessions, configs |-> configs, calls |-> calls,
                 answers |-> s.answers]
  <1>1. Users!Serve(app, s, r) = Users!Protected(app, s, r)
    BY DEF Users!Serve
  <1>2. s = With(s.configs, s.calls)
    BY DEF IsState
  <1>3. ASSUME NEW configs, NEW calls, NEW says,
               ConfigStep(s, r, [configs |-> configs, calls |-> calls], [says |-> says, user |-> user])
        PROVE  \E a : Does(app, s, r, Users!Answer(With(configs, calls), says, user, None), a)
    BY <1>3, AnswerAfter DEF Joins
  <1>4. ASSUME NEW says, r.act = "save" => says # "ok", r.act = "test" => says # "testing"
        PROVE  \E a : Does(app, s, r, Users!Answer(s, says, user, None), a)
    <2>1. ConfigStep(s, r, [configs |-> s.configs, calls |-> s.calls], [says |-> says, user |-> user])
      <3>. HIDE DEF user
      <3>. QED
        BY <1>4 DEF ConfigStep
    <2>2. \E a : Does(app, s, r, Users!Answer(With(s.configs, s.calls), says, user, None), a)
      BY <1>3, <2>1
    <2>. HIDE DEF With, user
    <2>. QED
      BY <1>2, <2>2
  <1>. HIDE DEF With
  <1>5. CASE user = None
    <2>1. Users!Protected(app, s, r) = Users!Answer(s, "unauthenticated", user, None)
      BY <1>5 DEF Users!Protected
    <2>. HIDE DEF user
    <2>. QED
      BY <1>1, <1>4, <2>1
  <1>6. CASE user # None /\ r.act = "me"
    <2>1. Users!Protected(app, s, r) = Users!Answer(s, "ok", user, None)
      BY <1>6 DEF Users!Protected
    <2>. HIDE DEF user
    <2>. QED
      BY <1>1, <1>4, <1>6, <2>1
  <1>7. CASE user # None /\ r.act = "save"
    <2>0. Users!Protected(app, s, r) = Users!Save(s, r, user)
      BY <1>7 DEF Users!Protected
    <2>. HIDE DEF user
    <2>1. CASE r.local /\ ~r.loopback
      <3>1. Users!Save(s, r, user) = Users!Answer(s, "invalid", user, None)
        BY <2>1 DEF Users!Save
      <3>. QED
        BY <1>1, <1>4, <1>7, <2>0, <3>1
    <2>2. CASE ~ (r.local /\ ~r.loopback)
      <3>. DEFINE configs == Users!SaveConfig(s, r, user)
      <3>1. Users!Save(s, r, user) = Users!Answer([s EXCEPT !.configs = configs], "ok", user, None)
        BY <2>2 DEF Users!Save
      <3>. HIDE DEF configs
      <3>2. [s EXCEPT !.configs = configs] = With(configs, s.calls)
        BY StateExcepts DEF With
      <3>3. ConfigStep(s, r, [configs |-> configs, calls |-> s.calls], [says |-> "ok", user |-> user])
        BY <1>7 DEF ConfigStep, configs
      <3>4. \E a : Does(app, s, r, Users!Answer(With(configs, s.calls), "ok", user, None), a)
        BY <1>3, <3>3 DEF user
      <3>. QED
        BY <1>1, <2>0, <3>1, <3>2, <3>4
    <2>. QED
      BY <2>1, <2>2
  <1>8. CASE user # None /\ r.act = "delete"
    <2>0. Users!Protected(app, s, r) = Users!Delete(s, r, user)
      BY <1>8 DEF Users!Protected
    <2>. HIDE DEF user
    <2>1. CASE ~Users!Owned(s, r.config, user)
      <3>1. Users!Delete(s, r, user) = Users!Answer(s, "missing", user, None)
        BY <2>1 DEF Users!Delete
      <3>. QED
        BY <1>1, <1>4, <1>8, <2>0, <3>1
    <2>2. CASE Users!Owned(s, r.config, user)
      <3>. DEFINE configs == [c \in DOMAIN s.configs \ {r.config} |-> s.configs[c]]
      <3>1. Users!Delete(s, r, user) = Users!Answer([s EXCEPT !.configs = configs], "ok", user, None)
        BY <2>2 DEF Users!Delete
      <3>. HIDE DEF configs
      <3>2. [s EXCEPT !.configs = configs] = With(configs, s.calls)
        BY StateExcepts DEF With
      <3>3. ConfigStep(s, r, [configs |-> configs, calls |-> s.calls], [says |-> "ok", user |-> user])
        BY <1>8 DEF ConfigStep, configs
      <3>4. \E a : Does(app, s, r, Users!Answer(With(configs, s.calls), "ok", user, None), a)
        BY <1>3, <3>3 DEF user
      <3>. QED
        BY <1>1, <2>0, <3>1, <3>2, <3>4
    <2>. QED
      BY <2>1, <2>2
  <1>9. CASE user # None /\ r.act = "test"
    <2>0. Users!Protected(app, s, r) = Users!StartTest(s, r, user)
      BY <1>9 DEF Users!Protected
    <2>. HIDE DEF user
    <2>1. CASE ~Users!Owned(s, r.config, user)
      <3>1. Users!StartTest(s, r, user) = Users!Answer(s, "missing", user, None)
        BY <2>1 DEF Users!StartTest
      <3>. QED
        BY <1>1, <1>4, <1>9, <2>0, <3>1
    <2>2. CASE Users!Owned(s, r.config, user)
      <3>. DEFINE calls == Users!Put(s.calls, r.call, [config |-> r.config, owner |-> user])
      <3>1. Users!StartTest(s, r, user) = Users!Answer([s EXCEPT !.calls = calls], "testing", user, None)
        BY <2>2 DEF Users!StartTest
      <3>. HIDE DEF calls
      <3>2. [s EXCEPT !.calls = calls] = With(s.configs, calls)
        BY StateExcepts DEF With
      <3>3. ConfigStep(s, r, [configs |-> s.configs, calls |-> calls], [says |-> "testing", user |-> user])
        BY <1>9, <2>2 DEF ConfigStep, calls, Users!Owned
      <3>4. \E a : Does(app, s, r, Users!Answer(With(s.configs, calls), "testing", user, None), a)
        BY <1>3, <3>3 DEF user
      <3>. QED
        BY <1>1, <2>0, <3>1, <3>2, <3>4
    <2>. QED
      BY <2>1, <2>2
  <1>. QED
    BY <1>5, <1>6, <1>7, <1>8, <1>9

\* The end of a test closes it, and tells its configuration.
LEMMA TestedDoes ==
  ASSUME NEW app, NEW s, IsState(s), NEW r, r.act = "tested"
  PROVE  \E a : Does(app, s, r, Users!Serve(app, s, r), a)
  <1>1. Users!Serve(app, s, r) = Users!EndTest(s, r)
    BY DEF Users!Serve
  <1>2. CASE r.call \notin DOMAIN s.calls
    <2>1. Users!EndTest(s, r) = Users!Answer(s, "nothing", None, None)
      BY <1>2 DEF Users!EndTest
    <2>2. r.act \in Users!Acts
      BY DEF Users!Acts
    <2>3. \E a : Does(app, s, r, Users!Answer(s, "nothing", None, None), a)
      BY <1>2, <2>2, AnswerOnly
    <2>. QED
      BY <1>1, <2>1, <2>3
  <1>3. CASE r.call \in DOMAIN s.calls
    <2>. DEFINE call == s.calls[r.call]
                status == IF r.ok THEN "PASSED" ELSE "FAILED"
                configs == IF Users!Owned(s, call.config, call.owner)
                             THEN [s.configs EXCEPT ![call.config].status = status] ELSE s.configs
                calls == [c \in DOMAIN s.calls \ {r.call} |-> s.calls[c]]
                u == [users |-> s.users, sessions |-> s.sessions, configs |-> configs, calls |-> calls,
                      answers |-> s.answers]
    <2>1. Users!EndTest(s, r) =
            Users!Answer([s EXCEPT !.configs = configs, !.calls = calls], status, call.owner, None)
      BY <1>3 DEF Users!EndTest
    <2>2. ConfigStep(s, r, [configs |-> configs, calls |-> calls], [says |-> status, user |-> call.owner])
      <3>. HIDE DEF status, call
      <3>. QED
        BY <1>3 DEF ConfigStep, call
    <2>. HIDE DEF configs, calls, status, call
    <2>3. [s EXCEPT !.configs = configs, !.calls = calls] = u
      BY StateExceptsTwo
    <2>4. \E a : Does(app, s, r, Users!Answer(u, status, call.owner, None), a)
      BY <2>2, AnswerAfter DEF Joins
    <2>. HIDE DEF u
    <2>. QED
      BY <1>1, <2>1, <2>3, <2>4
  <1>. QED
    BY <1>2, <1>3

LEMMA ServeDoes ==
  ASSUME NEW app, NEW s, IsState(s), Len(s.sessions) \in Nat, NEW r, r.act \in Users!Acts
  PROVE  \E a : Does(app, s, r, Users!Serve(app, s, r), a)
  <1>1. \/ r.act \in Joins \/ r.act = "logout" \/ r.act = "tested"
        \/ r.act \in {"me", "save", "delete", "test"}
    BY DEF Joins, Users!Acts
  <1>. QED
    BY <1>1, JoinDoes, LogoutDoes, ProtectedDoes, TestedDoes

\* The history is the run of the routes over the requests.
LEMMA UsersRun ==
  ASSUME NEW app, NEW requests, Len(requests) \in Nat
  PROVE  /\ Users!History(app, requests)[0] = Users!NobodyYet
         /\ \A i \in 1 .. Len(requests) :
              Users!History(app, requests)[i] =
                Users!Serve(app, Users!History(app, requests)[i - 1], requests[i])
  <1>. DEFINE start == Users!NobodyYet
              Runs(h, m) == h = [i \in 0 .. m |-> IF i = 0 THEN start
                                                  ELSE Users!Serve(app, h[i - 1], requests[i])]
              T == {m \in Nat : \E h : Runs(h, m)}
  <1>. HIDE DEF start
  <1>1. 0 \in T
    <2>1. Runs([i \in 0 .. 0 |-> start], 0)
      OBVIOUS
    <2>. QED
      BY <2>1
  <1>2. ASSUME NEW m \in Nat, m \in T PROVE m + 1 \in T
    <2>1. PICK h : Runs(h, m)
      BY <1>2
    <2>. DEFINE g == [i \in 0 .. (m + 1) |-> IF i <= m THEN h[i] ELSE Users!Serve(app, h[m], requests[m + 1])]
    <2>2. ASSUME NEW i \in 0 .. (m + 1)
          PROVE  g[i] = IF i = 0 THEN start ELSE Users!Serve(app, g[i - 1], requests[i])
      <3>1. CASE i = 0
        BY <2>1, <3>1
      <3>2. CASE i \in 1 .. m
        <4>1. g[i] = h[i] /\ g[i - 1] = h[i - 1] /\ i \in 0 .. m
          BY <3>2
        <4>. HIDE DEF g
        <4>. QED
          BY <2>1, <3>2, <4>1
      <3>3. CASE i = m + 1
        BY <3>3
      <3>. QED
        BY <3>1, <3>2, <3>3
    <2>3. Runs(g, m + 1)
      <3>1. g = [i \in 0 .. (m + 1) |-> g[i]]
        OBVIOUS
      <3>. HIDE DEF g
      <3>. QED
        BY <2>2, <3>1
    <2>4. \E f : Runs(f, m + 1)
      <3>. HIDE DEF g, Runs
      <3>. QED
        BY <2>3
    <2>. HIDE DEF Runs, g
    <2>. QED
      BY <2>4
  <1>3. \E h : Runs(h, Len(requests))
    <2>1. Nat \subseteq T
      <3>. HIDE DEF T
      <3>. QED
        BY <1>1, <1>2, SetInduction
    <2>. QED
      BY <2>1
  <1>4. Users!History(app, requests) = CHOOSE h : Runs(h, Len(requests))
    BY DEF Users!History, start
  <1>5. Runs(Users!History(app, requests), Len(requests))
    <2>. HIDE DEF Runs
    <2>. QED
      BY <1>3, <1>4
  <1>. QED
    BY <1>5 DEF start

\* Every request takes its step, and its answer stays.
LEMMA UsersDo ==
  ASSUME NEW app, NEW requests, Users!AreSent(requests)
  PROVE  LET n == Len(requests)
             h == Users!History(app, requests)
             answers == h[n].answers
         IN /\ n \in Nat /\ DOMAIN requests = 1 .. n
            /\ h[0] = Users!NobodyYet
            /\ \A i \in 1 .. n : /\ SessionStep(app, h[i - 1], requests[i], h[i], answers[i])
                                 /\ ConfigStep(h[i - 1], requests[i], h[i], answers[i])
            /\ \A i \in 0 .. n : /\ h[i].sessions \in Seq([user: {requests[j].email.names : j \in 1 .. n},
                                                           expires: {requests[j].at + Ttl : j \in 1 .. n},
                                                           revoked: BOOLEAN])
                                 /\ Len(h[i].answers) = i
  <1>. DEFINE n == Len(requests)
              h == Users!History(app, requests)
              Sessions == [user: {requests[j].email.names : j \in 1 .. n},
                           expires: {requests[j].at + Ttl : j \in 1 .. n}, revoked: BOOLEAN]
              say(i) == CHOOSE a : Does(app, h[i - 1], requests[i], h[i], a)
              Says == {say(i) : i \in 1 .. n}
              Good(i) == /\ IsState(h[i]) /\ h[i].sessions \in Seq(Sessions)
                         /\ h[i].answers \in Seq(Says) /\ Len(h[i].answers) = i
                         /\ \A j \in 1 .. i : h[i].answers[j] = say(j)
                                              /\ Does(app, h[j - 1], requests[j], h[j], say(j))
              T == {i \in 0 .. n : Good(i)}
  <1>0. /\ n \in Nat /\ DOMAIN requests = 1 .. n
        /\ \A i \in 1 .. n : requests[i].act \in Users!Acts
    BY DEF Users!AreSent
  <1>1. /\ h[0] = Users!NobodyYet
        /\ \A i \in 1 .. n : h[i] = Users!Serve(app, h[i - 1], requests[i])
    BY <1>0, UsersRun
  <1>. HIDE DEF h
  <1>2. 0 \in T
    <2>1. /\ IsState(h[0]) /\ h[0].sessions = <<>> /\ h[0].answers = <<>>
      BY <1>1 DEF Users!NobodyYet, IsState
    <2>2. <<>> \in Seq(Sessions) /\ <<>> \in Seq(Says) /\ Len(<<>>) = 0 /\ 1 .. 0 = {}
      OBVIOUS
    <2>3. 0 \in 0 .. n
      BY <1>0
    <2>. HIDE DEF Sessions, Says, say, n
    <2>. QED
      BY <2>1, <2>2, <2>3
  <1>3. ASSUME NEW i \in 1 .. n, i - 1 \in T PROVE i \in T
    <2>. DEFINE s == h[i - 1]
                t == h[i]
                r == requests[i]
                a == say(i)
    <2>1. /\ IsState(s) /\ s.sessions \in Seq(Sessions) /\ s.answers \in Seq(Says) /\ Len(s.answers) = i - 1
          /\ \A j \in 1 .. (i - 1) : s.answers[j] = say(j)
                                     /\ Does(app, h[j - 1], requests[j], h[j], say(j))
      <3>. HIDE DEF Sessions, Says, say, n
      <3>. QED
        BY <1>3
    <2>2. Does(app, s, r, t, a)
      <3>1. Len(s.sessions) \in Nat
        <4>. HIDE DEF Sessions
        <4>. QED
          BY <2>1
      <3>2. t = Users!Serve(app, s, r) /\ r.act \in Users!Acts
        BY <1>0, <1>1
      <3>3. \E b : Does(app, s, r, t, b)
        <4>. HIDE DEF s, t, r, Sessions, Says, say
        <4>. QED
          BY <2>1, <3>1, <3>2, ServeDoes
      <3>. QED
        BY <3>3
    <2>3. a \in Says
      OBVIOUS
    <2>4. [user |-> r.email.names, expires |-> r.at + Ttl, revoked |-> FALSE] \in Sessions
      OBVIOUS
    <2>5. \A x \in Sessions : [x EXCEPT !.revoked = TRUE] \in Sessions
      OBVIOUS
    <2>6. i \in 0 .. n
      BY <1>0
    <2>. HIDE DEF s, t, r, a, say, Says, Sessions, n
    <2>7. t.sessions \in Seq(Sessions)
      <3>1. \/ t.sessions = s.sessions
            \/ t.sessions = Append(s.sessions, [user |-> r.email.names, expires |-> r.at + Ttl, revoked |-> FALSE])
            \/ /\ Users!PresentedToken(r) \in DOMAIN s.sessions
               /\ t.sessions = [s.sessions EXCEPT ![Users!PresentedToken(r)].revoked = TRUE]
        BY <2>2 DEF Does, SessionStep, Joins
      <3>2. ASSUME NEW k \in DOMAIN s.sessions
            PROVE  [s.sessions EXCEPT ![k].revoked = TRUE] \in Seq(Sessions)
        <4>1. s.sessions[k] \in Sessions
          BY <2>1
        <4>2. [s.sessions[k] EXCEPT !.revoked = TRUE] \in Sessions
          BY <2>5, <4>1
        <4>3. \A x \in Sessions : [s.sessions EXCEPT ![k] = x] \in Seq(Sessions)
          BY <2>1
        <4>. QED
          BY <4>2, <4>3
      <3>3. CASE t.sessions = s.sessions
        BY <2>1, <3>3
      <3>4. ASSUME NEW x \in Sessions, t.sessions = Append(s.sessions, x) PROVE t.sessions \in Seq(Sessions)
        BY <2>1, <3>4
      <3>5. CASE /\ Users!PresentedToken(r) \in DOMAIN s.sessions
                 /\ t.sessions = [s.sessions EXCEPT ![Users!PresentedToken(r)].revoked = TRUE]
        BY <3>2, <3>5
      <3>. QED
        BY <2>4, <3>1, <3>3, <3>4, <3>5
    <2>8. IsState(t) /\ t.answers = Append(s.answers, a)
      BY <2>2 DEF Does
    <2>9. /\ t.answers \in Seq(Says) /\ Len(t.answers) = i
          /\ \A j \in 1 .. (i - 1) : t.answers[j] = s.answers[j]
          /\ t.answers[i] = a
      BY <2>1, <2>3, <2>8
    <2>10. ASSUME NEW j \in 1 .. i
           PROVE  t.answers[j] = say(j) /\ Does(app, h[j - 1], requests[j], h[j], say(j))
      <3>1. CASE j = i
        BY <2>2, <2>9, <3>1 DEF a, s, t, r
      <3>2. CASE j # i
        BY <2>1, <2>9, <3>2, SMTT(60)
      <3>. QED
        BY <3>1, <3>2
    <2>. QED
      BY <2>6, <2>7, <2>8, <2>9, <2>10 DEF t
  <1>4. 0 .. n \subseteq T
    <2>. HIDE DEF T, n
    <2>. QED
      BY <1>0, <1>2, <1>3, BoundedInduction
  <1>5. \A i \in 0 .. n : Good(i)
    <2>. HIDE DEF Good
    <2>. QED
      BY <1>4
  <1>6. ASSUME NEW i \in 1 .. n
        PROVE  /\ SessionStep(app, h[i - 1], requests[i], h[i], h[n].answers[i])
               /\ ConfigStep(h[i - 1], requests[i], h[i], h[n].answers[i])
    <2>1. Good(n)
      <3>. HIDE DEF Good, n
      <3>. QED
        BY <1>0, <1>5
    <2>2. h[n].answers[i] = say(i) /\ Does(app, h[i - 1], requests[i], h[i], say(i))
      <3>. HIDE DEF say, Says, Sessions, n
      <3>. QED
        BY <2>1
    <2>. HIDE DEF say, n
    <2>. QED
      BY <2>2 DEF Does
  <1>7. \A i \in 0 .. n : h[i].sessions \in Seq(Sessions) /\ Len(h[i].answers) = i
    <2>. HIDE DEF say, Says, Sessions, n
    <2>. QED
      BY <1>5
  <1>. HIDE DEF Good, T, say, Says
  <1>. QED
    BY <1>0, <1>1, <1>6, <1>7 DEF h

---------------------------------------------------------------------------
(* Accounts: sessions. *)

\* Who was given a token, and whether it was presented to a logout since.
Ended(requests, token, from, to) ==
  \E k \in from .. to : requests[k].act = "logout" /\ Users!PresentedToken(requests[k]) = token

\* Session t is the one request j was given.
IsOf(requests, answers, i, sessions, t, j) ==
  /\ answers[j].token = t
  /\ sessions[t].user = requests[j].email.names /\ sessions[t].expires = requests[j].at + Ttl
  /\ sessions[t].revoked <=> Ended(requests, t, j + 1, i)

\* Every session was given to one request, and lives unless a logout
\* presented it since.
SessionsRight(requests, answers, i, sessions) ==
  /\ \A j \in 1 .. i : answers[j].token # None =>
       answers[j].token \in 1 .. Len(sessions) /\ requests[j].act \in Joins
  /\ \A j, k \in 1 .. i : answers[j].token # None /\ answers[j].token = answers[k].token => j = k
  /\ \A t \in 1 .. Len(sessions) : \E j \in 1 .. i : IsOf(requests, answers, i, sessions, t, j)

IsRegistered(requests, answers, j) == requests[j].act = "register" /\ answers[j].token # None

\* Users are those who registered, with the password they registered with.
UsersRight(requests, answers, i, users) ==
  /\ \A j \in 1 .. i : IsRegistered(requests, answers, j) =>
       /\ requests[j].email.names \in DOMAIN users
       /\ users[requests[j].email.names].hash = requests[j].password
  /\ \A u \in DOMAIN users : \E j \in 1 .. i :
       IsRegistered(requests, answers, j) /\ requests[j].email.names = u

LEMMA UsersStay ==
  ASSUME NEW app, NEW requests, NEW answers, NEW i \in Nat \ {0}, NEW s, NEW t,
         UsersRight(requests, answers, i - 1, s.users), Len(s.sessions) \in Nat,
         SessionStep(app, s, requests[i], t, answers[i])
  PROVE  UsersRight(requests, answers, i, t.users)
  <1>. DEFINE r == requests[i]
              a == answers[i]
              user == r.email.names
  <1>1. CASE ~IsRegistered(requests, answers, i)
    <2>1. t.users = s.users
      BY <1>1, UsersAssumption DEF SessionStep, Joins, IsRegistered
    <2>2. \A j \in 1 .. i : j = i \/ j \in 1 .. (i - 1)
      OBVIOUS
    <2>3. \A j \in 1 .. (i - 1) : j \in 1 .. i
      OBVIOUS
    <2>. QED
      BY <1>1, <2>1, <2>2, <2>3, Zenon DEF UsersRight
  <1>2. CASE IsRegistered(requests, answers, i)
    <2>1. /\ user \notin DOMAIN s.users
          /\ t.users = [u \in DOMAIN s.users \cup {user} |->
                          IF u = user THEN [hash |-> r.password] ELSE s.users[u]]
      BY <1>2 DEF SessionStep, Joins, IsRegistered
    <2>2. /\ DOMAIN t.users = DOMAIN s.users \cup {user}
          /\ t.users[user].hash = r.password
          /\ \A u \in DOMAIN s.users : u # user /\ t.users[u] = s.users[u]
      <3>. HIDE DEF user, r
      <3>. QED
        BY <2>1
    <2>3. ASSUME NEW j \in 1 .. i, IsRegistered(requests, answers, j)
          PROVE  /\ requests[j].email.names \in DOMAIN t.users
                 /\ t.users[requests[j].email.names].hash = requests[j].password
      <3>1. CASE j = i
        BY <2>2, <3>1
      <3>2. CASE j # i
        <4>1. j \in 1 .. (i - 1)
          BY <3>2
        <4>2. /\ requests[j].email.names \in DOMAIN s.users
              /\ s.users[requests[j].email.names].hash = requests[j].password
          BY <2>3, <4>1 DEF UsersRight
        <4>. HIDE DEF user, r
        <4>. QED
          BY <2>2, <4>2
      <3>. QED
        BY <3>1, <3>2
    <2>4. ASSUME NEW u \in DOMAIN t.users
          PROVE  \E j \in 1 .. i : IsRegistered(requests, answers, j) /\ requests[j].email.names = u
      <3>1. CASE u = user
        <4>1. i \in 1 .. i
          OBVIOUS
        <4>. QED
          BY <1>2, <3>1, <4>1
      <3>2. CASE u \in DOMAIN s.users
        <4>1. PICK j \in 1 .. (i - 1) : IsRegistered(requests, answers, j) /\ requests[j].email.names = u
          BY <3>2 DEF UsersRight
        <4>2. j \in 1 .. i
          OBVIOUS
        <4>. QED
          BY <4>1, <4>2
      <3>. QED
        BY <2>2, <3>1, <3>2
    <2>. QED
      BY <2>3, <2>4 DEF UsersRight
  <1>. QED
    BY <1>1, <1>2

LEMMA SessionsStay ==
  ASSUME NEW app, NEW requests, NEW answers, NEW i \in Nat \ {0}, NEW s, NEW t,
         NEW names, NEW times, s.sessions \in Seq([user: names, expires: times, revoked: BOOLEAN]),
         SessionsRight(requests, answers, i - 1, s.sessions),
         SessionStep(app, s, requests[i], t, answers[i])
  PROVE  SessionsRight(requests, answers, i, t.sessions)
  <1>. DEFINE r == requests[i]
              a == answers[i]
              S == s.sessions
              m == Len(S)
              token == Users!PresentedToken(r)
              new == [user |-> r.email.names, expires |-> r.at + Ttl, revoked |-> FALSE]
  <1>0. /\ m \in Nat /\ DOMAIN S = 1 .. m
        /\ \A x \in 1 .. m : S[x] \in [user: names, expires: times, revoked: BOOLEAN]
    <2>. DEFINE X == [user: names, expires: times, revoked: BOOLEAN]
    <2>1. S \in Seq(X)
      OBVIOUS
    <2>. HIDE DEF S, X
    <2>2. m \in Nat /\ DOMAIN S = 1 .. m /\ \A x \in 1 .. m : S[x] \in X
      BY <2>1
    <2>. QED
      BY <2>2, Zenon DEF X
  <1>1. /\ \A j \in 1 .. i : j = i \/ j \in 1 .. (i - 1)
        /\ \A j \in 1 .. (i - 1) : j \in 1 .. i
        /\ i \in 1 .. i
    OBVIOUS
  <1>2. /\ \A j \in 1 .. (i - 1) : answers[j].token # None =>
             answers[j].token \in 1 .. m /\ requests[j].act \in Joins
        /\ \A j, k \in 1 .. (i - 1) : answers[j].token # None /\ answers[j].token = answers[k].token => j = k
        /\ \A x \in 1 .. m : \E j \in 1 .. (i - 1) : IsOf(requests, answers, i - 1, S, x, j)
    BY DEF SessionsRight
  <1>3. ASSUME NEW j \in 1 .. (i - 1), NEW x
        PROVE  Ended(requests, x, j + 1, i) <=>
                 Ended(requests, x, j + 1, i - 1) \/ (r.act = "logout" /\ token = x)
    <2>1. \A k \in (j + 1) .. i : k = i \/ k \in (j + 1) .. (i - 1)
      OBVIOUS
    <2>2. i \in (j + 1) .. i /\ \A k \in (j + 1) .. (i - 1) : k \in (j + 1) .. i
      OBVIOUS
    <2>. QED
      BY <2>1, <2>2, Zenon DEF Ended
  <1>. HIDE DEF S, m, token, r, a
  <1>4. CASE a.token = None /\ r.act # "logout"
    <2>1. t.sessions = S
      BY <1>0, <1>4, UsersAssumption DEF SessionStep, Joins, S, a, r, m
    <2>2. ASSUME NEW x \in 1 .. m PROVE \E j \in 1 .. i : IsOf(requests, answers, i, S, x, j)
      <3>1. PICK j \in 1 .. (i - 1) : IsOf(requests, answers, i - 1, S, x, j)
        BY <1>2
      <3>2. IsOf(requests, answers, i, S, x, j)
        BY <1>3, <1>4, <3>1 DEF IsOf
      <3>. QED
        BY <1>1, <3>2
    <2>. QED
      BY <1>1, <1>2, <1>4, <2>1, <2>2 DEF SessionsRight, m, a
  <1>5. CASE r.act = "logout"
    <2>1. /\ a.token = None
          /\ t.sessions = IF token \in 1 .. m THEN [S EXCEPT ![token].revoked = TRUE] ELSE S
      BY <1>0, <1>5 DEF SessionStep, Joins, S, a, r, token
    <2>2. /\ Len(t.sessions) = m
          /\ \A x \in 1 .. m : /\ t.sessions[x].user = S[x].user /\ t.sessions[x].expires = S[x].expires
                               /\ t.sessions[x].revoked <=> S[x].revoked \/ token = x
      <3>1. CASE token \in 1 .. m
        <4>1. t.sessions = [S EXCEPT ![token].revoked = TRUE]
          BY <2>1, <3>1
        <4>2. S[token] \in [user: names, expires: times, revoked: BOOLEAN]
          BY <1>0, <3>1
        <4>. DEFINE y == [S[token] EXCEPT !.revoked = TRUE]
        <4>3. y.user = S[token].user /\ y.expires = S[token].expires /\ y.revoked = TRUE
          BY <4>2
        <4>4. t.sessions = [S EXCEPT ![token] = y]
          BY <4>1
        <4>. HIDE DEF y
        <4>5. Len(t.sessions) = m
          <5>1. S \in Seq([user: names, expires: times, revoked: BOOLEAN])
            BY DEF S
          <5>. QED
            BY <3>1, <4>4, <5>1 DEF m
        <4>6. t.sessions[token] = y /\ \A x \in 1 .. m : x # token => t.sessions[x] = S[x]
          BY <1>0, <3>1, <4>4
        <4>. QED
          BY <4>3, <4>5, <4>6, Zenon
      <3>2. CASE token \notin 1 .. m
        <4>1. t.sessions = S
          BY <2>1, <3>2
        <4>2. \A x \in 1 .. m : token # x
          BY <3>2
        <4>. QED
          BY <4>1, <4>2 DEF m
      <3>. QED
        BY <3>1, <3>2
    <2>3. ASSUME NEW x \in 1 .. m PROVE \E j \in 1 .. i : IsOf(requests, answers, i, t.sessions, x, j)
      <3>1. PICK j \in 1 .. (i - 1) : IsOf(requests, answers, i - 1, S, x, j)
        BY <1>2
      <3>2. IsOf(requests, answers, i, t.sessions, x, j)
        <4>1. Ended(requests, x, j + 1, i) <=> Ended(requests, x, j + 1, i - 1) \/ token = x
          BY <1>3, <1>5
        <4>. QED
          BY <2>2, <3>1, <4>1, Zenon DEF IsOf
      <3>. QED
        BY <1>1, <3>2
    <2>. QED
      BY <1>1, <1>2, <2>1, <2>2, <2>3 DEF SessionsRight, a
  <1>6. CASE a.token # None
    <2>1. a.token = m + 1 /\ t.sessions = Append(S, new) /\ r.act \in Joins
      BY <1>6 DEF SessionStep, S, a, r, m
    <2>2. /\ Len(t.sessions) = m + 1 /\ t.sessions[m + 1] = new
          /\ \A x \in 1 .. m : t.sessions[x] = S[x]
      <3>1. /\ \A y : Len(Append(S, y)) = m + 1 /\ Append(S, y)[m + 1] = y
                      /\ \A x \in 1 .. m : Append(S, y)[x] = S[x]
        BY DEF S, m
      <3>. HIDE DEF new
      <3>. QED
        BY <2>1, <3>1
    <2>3. r.act # "logout"
      BY <2>1 DEF Joins
    <2>4. \A j \in 1 .. i : answers[j].token # None =>
            answers[j].token \in 1 .. Len(t.sessions) /\ requests[j].act \in Joins
      <3>1. \A x \in 1 .. m : x \in 1 .. (m + 1)
        BY <1>0
      <3>2. m + 1 \in 1 .. (m + 1)
        BY <1>0
      <3>. QED
        BY <1>1, <1>2, <2>1, <2>2, <3>1, <3>2 DEF a, r
    <2>5. ASSUME NEW j \in 1 .. i, NEW k \in 1 .. i,
                 answers[j].token # None, answers[j].token = answers[k].token
          PROVE  j = k
      <3>1. m + 1 \notin 1 .. m
        BY <1>0
      <3>2. \A l \in 1 .. (i - 1) : answers[l].token # None => answers[l].token # m + 1
        BY <1>2, <3>1
      <3>3. answers[i].token = m + 1
        BY <2>1 DEF a
      <3>. QED
        BY <1>1, <1>2, <2>5, <3>2, <3>3
    <2>6. ASSUME NEW x \in 1 .. Len(t.sessions)
          PROVE  \E j \in 1 .. i : IsOf(requests, answers, i, t.sessions, x, j)
      <3>1. CASE x = m + 1
        <4>1. ~Ended(requests, x, i + 1, i)
          <5>1. (i + 1) .. i = {}
            OBVIOUS
          <5>. QED
            BY <5>1, Zenon DEF Ended
        <4>2. new.user = r.email.names /\ new.expires = r.at + Ttl /\ new.revoked = FALSE
          OBVIOUS
        <4>3. answers[i].token = x /\ t.sessions[x] = new
          BY <2>1, <2>2, <3>1 DEF a
        <4>. HIDE DEF new
        <4>4. IsOf(requests, answers, i, t.sessions, x, i)
          BY <4>1, <4>2, <4>3, Zenon DEF IsOf, r
        <4>. QED
          BY <1>1, <4>4
      <3>2. CASE x # m + 1
        <4>0. x \in 1 .. m
          BY <1>0, <2>2, <3>2
        <4>1. PICK j \in 1 .. (i - 1) : IsOf(requests, answers, i - 1, S, x, j)
          BY <1>2, <4>0
        <4>2. Ended(requests, x, j + 1, i) <=> Ended(requests, x, j + 1, i - 1)
          BY <1>3, <2>3
        <4>3. t.sessions[x] = S[x]
          BY <2>2, <4>0
        <4>4. IsOf(requests, answers, i, t.sessions, x, j)
          BY <4>1, <4>2, <4>3, Zenon DEF IsOf
        <4>. QED
          BY <1>1, <4>4
      <3>. QED
        BY <3>1, <3>2
    <2>. QED
      BY <2>4, <2>5, <2>6 DEF SessionsRight
  <1>. QED
    BY <1>4, <1>5, <1>6

\* Sessions and users are right after every request.
LEMMA SessionsHold ==
  ASSUME NEW app, NEW requests, Users!AreSent(requests)
  PROVE  LET h == Users!History(app, requests)
             answers == h[Len(requests)].answers
         IN \A i \in 0 .. Len(requests) :
              /\ SessionsRight(requests, answers, i, h[i].sessions)
              /\ UsersRight(requests, answers, i, h[i].users)
  <1>. DEFINE n == Len(requests)
              h == Users!History(app, requests)
              answers == h[n].answers
              names == {requests[j].email.names : j \in 1 .. n}
              times == {requests[j].at + Ttl : j \in 1 .. n}
              Good(i) == /\ SessionsRight(requests, answers, i, h[i].sessions)
                         /\ UsersRight(requests, answers, i, h[i].users)
              T == {i \in 0 .. n : Good(i)}
  <1>1. /\ n \in Nat
        /\ h[0] = Users!NobodyYet
        /\ \A i \in 1 .. n : SessionStep(app, h[i - 1], requests[i], h[i], answers[i])
        /\ \A i \in 0 .. n : h[i].sessions \in Seq([user: names, expires: times, revoked: BOOLEAN])
    BY UsersDo
  <1>. HIDE DEF n, h, answers, names, times
  <1>2. 0 \in T
    <2>1. h[0].sessions = <<>> /\ h[0].users = <<>>
      BY <1>1 DEF Users!NobodyYet
    <2>2. 1 .. 0 = {} /\ Len(<<>>) = 0 /\ DOMAIN <<>> = {}
      OBVIOUS
    <2>3. SessionsRight(requests, answers, 0, h[0].sessions) /\ UsersRight(requests, answers, 0, h[0].users)
      BY <2>1, <2>2, Zenon DEF SessionsRight, UsersRight
    <2>. QED
      BY <1>1, <2>3
  <1>3. ASSUME NEW i \in 1 .. n, i - 1 \in T PROVE i \in T
    <2>1. Good(i - 1) /\ i - 1 \in 0 .. n /\ i \in 0 .. n /\ i \in Nat \ {0}
      BY <1>1, <1>3
    <2>2. h[i - 1].sessions \in Seq([user: names, expires: times, revoked: BOOLEAN])
      BY <1>1, <2>1
    <2>3. Len(h[i - 1].sessions) \in Nat
      BY <2>2
    <2>4. SessionStep(app, h[i - 1], requests[i], h[i], answers[i])
      BY <1>1
    <2>5. SessionsRight(requests, answers, i, h[i].sessions)
      BY <2>1, <2>2, <2>4, SessionsStay
    <2>6. UsersRight(requests, answers, i, h[i].users)
      BY <2>1, <2>3, <2>4, UsersStay
    <2>. QED
      BY <2>1, <2>5, <2>6
  <1>4. 0 .. n \subseteq T
    <2>. HIDE DEF T
    <2>. QED
      BY <1>1, <1>2, <1>3, BoundedInduction
  <1>5. \A i \in 0 .. n : Good(i)
    <2>. HIDE DEF Good
    <2>. QED
      BY <1>4
  <1>. QED
    BY <1>5 DEF n, h, answers

\* A request acts for the user its session belongs to.
LEMMA UsersAreRight ==
  ASSUME NEW app, NEW requests, Users!AreSent(requests), NEW i \in DOMAIN requests
  PROVE  Users!UserIsRight(app, requests, Users!History(app, requests)[Len(requests)].answers, i)
  <1>. DEFINE n == Len(requests)
              h == Users!History(app, requests)
              answers == h[n].answers
              r == requests[i]
              s == h[i - 1]
              token == Users!PresentedToken(r)
              Given(j) ==
                /\ answers[j].token # None /\ answers[j].token = token
                /\ r.at - requests[j].at < Ttl
                /\ \A k \in (j + 1) .. (i - 1) :
                     requests[k].act = "logout" => Users!PresentedToken(requests[k]) # token
              givers == {j \in 1 .. (i - 1) : Given(j)}
              Registered(j) == /\ requests[j].act = "register" /\ answers[j].token # None
                               /\ requests[j].email.names = r.email.names
  <1>1. /\ n \in Nat /\ i \in 1 .. n /\ i - 1 \in 0 .. n
        /\ r.act \in Users!Acts /\ \A j \in 1 .. n : requests[j].at \in Nat
        /\ SessionStep(app, s, r, h[i], answers[i])
        /\ SessionsRight(requests, answers, i - 1, s.sessions)
        /\ UsersRight(requests, answers, i - 1, s.users)
        /\ Len(s.sessions) \in Nat /\ DOMAIN s.sessions = 1 .. Len(s.sessions)
    <2>1. n \in Nat /\ DOMAIN requests = 1 .. n
      BY UsersDo
    <2>2. i - 1 \in 0 .. n
      BY <2>1
    <2>3. r.act \in Users!Acts /\ \A j \in 1 .. n : requests[j].at \in Nat
      BY <2>1 DEF Users!AreSent
    <2>4. SessionStep(app, s, r, h[i], answers[i])
      BY <2>1, UsersDo
    <2>5. SessionsRight(requests, answers, i - 1, s.sessions) /\ UsersRight(requests, answers, i - 1, s.users)
      BY <2>2, SessionsHold
    <2>6. \E S : s.sessions \in Seq(S)
      BY <2>2, UsersDo
    <2>7. Len(s.sessions) \in Nat /\ DOMAIN s.sessions = 1 .. Len(s.sessions)
      <3>. HIDE DEF s
      <3>. QED
        BY <2>6
    <2>. QED
      BY <2>1, <2>2, <2>3, <2>4, <2>5, <2>7
  <1>. HIDE DEF n, h, answers, s
  <1>2. /\ \A j \in 1 .. (i - 1) : answers[j].token # None =>
             answers[j].token \in 1 .. Len(s.sessions) /\ requests[j].act \in Joins
        /\ \A j, k \in 1 .. (i - 1) : answers[j].token # None /\ answers[j].token = answers[k].token => j = k
        /\ \A t \in 1 .. Len(s.sessions) : \E j \in 1 .. (i - 1) : IsOf(requests, answers, i - 1, s.sessions, t, j)
    BY <1>1 DEF SessionsRight
  <1>3. ASSUME r.act \in Joins, answers[i].token # None, NEW j \in 1 .. (i - 1)
        PROVE  answers[j].token # answers[i].token
    <2>1. answers[i].token = Len(s.sessions) + 1
      BY <1>1, <1>3 DEF SessionStep
    <2>. QED
      BY <1>1, <1>2, <1>3, <2>1
  <1>4. ASSUME r.act = "login"
        PROVE  answers[i].token # None
                 <=> \E j \in 1 .. (i - 1) : Registered(j) /\ requests[j].password = r.password
    <2>1. answers[i].token # None
            <=> r.email.names \in DOMAIN s.users /\ s.users[r.email.names].hash = r.password
      BY <1>1, <1>4 DEF SessionStep
    <2>2. \A j \in 1 .. (i - 1) : Registered(j) =>
            r.email.names \in DOMAIN s.users /\ s.users[r.email.names].hash = requests[j].password
      BY <1>1 DEF UsersRight, IsRegistered
    <2>3. r.email.names \in DOMAIN s.users => \E j \in 1 .. (i - 1) : Registered(j)
      BY <1>1 DEF UsersRight, IsRegistered
    <2>. HIDE DEF Registered, r
    <2>. QED
      BY <2>1, <2>2, <2>3
  <1>5. \A j, k \in givers : j = k
    BY <1>2
  <1>6. Cardinality(givers) <= 1
    <2>1. CASE givers = {}
      <3>. HIDE DEF givers
      <3>1. Cardinality(givers) = 0
        BY <2>1, FS_EmptySet, Zenon
      <3>. QED
        BY <3>1
    <2>2. ASSUME NEW j \in givers PROVE Cardinality(givers) <= 1
      <3>1. givers = {j}
        BY <1>5, <2>2
      <3>2. Cardinality({j}) = 1
        BY FS_Singleton
      <3>. HIDE DEF givers
      <3>3. Cardinality(givers) = 1
        BY <3>1, <3>2, Zenon
      <3>. QED
        BY <3>3
    <2>. QED
      BY <2>1, <2>2
  <1>7. ASSUME NEW j \in 1 .. (i - 1), answers[j].token = token, token \in 1 .. Len(s.sessions),
               IsOf(requests, answers, i - 1, s.sessions, token, j)
        PROVE  Users!LiveSession(s, r) <=> Given(j)
    <2>1. token # None
      BY <1>7, UsersAssumption
    <2>2. ~s.sessions[token].revoked <=>
            \A k \in (j + 1) .. (i - 1) :
              requests[k].act = "logout" => Users!PresentedToken(requests[k]) # token
      <3>. HIDE DEF token
      <3>. QED
        BY <1>7, Zenon DEF IsOf, Ended
    <2>3. r.at < s.sessions[token].expires <=> r.at - requests[j].at < Ttl
      <3>1. s.sessions[token].expires = requests[j].at + Ttl
        BY <1>7 DEF IsOf
      <3>2. requests[j].at \in Nat /\ r.at \in Nat /\ Ttl \in Nat
        BY <1>1, UsersAssumption
      <3>. HIDE DEF token, r
      <3>. QED
        BY <3>1, <3>2
    <2>. HIDE DEF token
    <2>. QED
      BY <1>1, <1>7, <2>1, <2>2, <2>3 DEF Users!LiveSession, token
  <1>8. Users!LiveSession(s, r) => \E j \in givers : s.sessions[token].user = requests[j].email.names
    <2>1. ASSUME Users!LiveSession(s, r) PROVE \E j \in givers : s.sessions[token].user = requests[j].email.names
      <3>1. token \in 1 .. Len(s.sessions)
        BY <1>1, <2>1 DEF Users!LiveSession
      <3>2. PICK j \in 1 .. (i - 1) : IsOf(requests, answers, i - 1, s.sessions, token, j)
        BY <1>2, <3>1
      <3>3. answers[j].token = token /\ s.sessions[token].user = requests[j].email.names
        BY <3>2 DEF IsOf
      <3>4. Given(j)
        <4>. HIDE DEF Given, token
        <4>. QED
          BY <1>7, <2>1, <3>1, <3>2, <3>3
      <3>. HIDE DEF Given
      <3>. QED
        BY <3>3, <3>4
    <2>. QED
      BY <2>1
  <1>9. ASSUME NEW j \in givers
        PROVE  Users!LiveSession(s, r) /\ s.sessions[token].user = requests[j].email.names
    <2>1. j \in 1 .. (i - 1) /\ answers[j].token = token /\ token # None
      OBVIOUS
    <2>2. token \in 1 .. Len(s.sessions)
      BY <1>2, <2>1
    <2>3. PICK l \in 1 .. (i - 1) : IsOf(requests, answers, i - 1, s.sessions, token, l)
      BY <1>2, <2>2
    <2>4. l = j
      <3>1. answers[l].token = token
        BY <2>3 DEF IsOf
      <3>. QED
        BY <1>2, <2>1, <3>1
    <2>5. s.sessions[token].user = requests[j].email.names
      BY <2>3, <2>4 DEF IsOf
    <2>6. Given(j)
      OBVIOUS
    <2>7. Users!LiveSession(s, r)
      <3>. HIDE DEF Given, token, givers
      <3>. QED
        BY <1>7, <2>1, <2>2, <2>3, <2>4, <2>6
    <2>. QED
      BY <2>5, <2>7
  <1>. HIDE DEF Given, givers
  <1>10. ASSUME r.act \notin Joins, r.act # "tested"
         PROVE  \/ app.desktop /\ ~app.required /\ answers[i].user = Users!Desktop
                \/ /\ ~app.desktop \/ app.required
                   /\ \A j \in givers : answers[i].user = requests[j].email.names
                   /\ givers = {} => answers[i].user = IF app.required THEN None ELSE Users!Legacy
    <2>1. answers[i].user = Users!CurrentUser(app, s, r)
      BY <1>1, <1>10 DEF SessionStep, Joins
    <2>2. CASE app.desktop /\ ~app.required
      BY <2>1, <2>2 DEF Users!CurrentUser
    <2>3. CASE ~(app.desktop /\ ~app.required) /\ Users!LiveSession(s, r)
      <3>1. answers[i].user = s.sessions[token].user
        BY <2>1, <2>3 DEF Users!CurrentUser
      <3>. HIDE DEF token, r
      <3>. QED
        BY <1>8, <1>9, <2>3, <3>1
    <2>4. CASE ~(app.desktop /\ ~app.required) /\ ~Users!LiveSession(s, r)
      <3>1. answers[i].user = IF app.required THEN None ELSE Users!Legacy
        BY <2>1, <2>4 DEF Users!CurrentUser
      <3>2. \A j \in givers : FALSE
        BY <1>9, <2>4
      <3>. HIDE DEF token, r
      <3>. QED
        BY <2>4, <3>1, <3>2
    <2>. QED
      BY <2>2, <2>3, <2>4
  <1>11. CASE r.act \in Joins
    <2>1. Users!UserIsRight(app, requests, answers, i)
      <3>1. r.act \in {"register", "login"}
        BY <1>11 DEF Joins
      <3>. QED
        BY <1>3, <1>4, <1>11, <3>1, Zenon DEF Users!UserIsRight
    <2>. QED
      BY <2>1 DEF answers, n, h
  <1>12. CASE r.act \notin Joins
    <2>1. Users!UserIsRight(app, requests, answers, i)
      <3>1. r.act \notin {"register", "login"}
        BY <1>12 DEF Joins
      <3>2. r.act # "tested" =>
              /\ Cardinality(givers) <= 1
              /\ \/ app.desktop /\ ~app.required /\ answers[i].user = Users!Desktop
                 \/ /\ ~app.desktop \/ app.required
                    /\ \A j \in givers : answers[i].user = requests[j].email.names
                    /\ givers = {} => answers[i].user = IF app.required THEN None ELSE Users!Legacy
        <4>. HIDE DEF r
        <4>. QED
          BY <1>6, <1>10, <1>12
      <3>3. Users!Cardinality(givers) = Cardinality(givers)
        BY CountsAlike
      <3>4. r.act # "tested" =>
              /\ Users!Cardinality(givers) <= 1
              /\ \/ app.desktop /\ ~app.required /\ answers[i].user = Users!Desktop
                 \/ /\ ~app.desktop \/ app.required
                    /\ \A j \in givers : answers[i].user = requests[j].email.names
                    /\ givers = {} => answers[i].user = IF app.required THEN None ELSE Users!Legacy
        BY <3>2, <3>3, Zenon
      <3>. HIDE DEF Registered
      <3>. QED
        BY <3>1, <3>4, Zenon DEF Users!UserIsRight, givers, Given
    <2>. QED
      BY <2>1 DEF answers, n, h
  <1>. QED
    BY <1>11, <1>12

---------------------------------------------------------------------------
(* Accounts: provider configurations. *)

\* Request k saved the configuration of this owner and name.
IsSave(requests, answers, owner, name, k) ==
  /\ requests[k].act = "save" /\ answers[k].says = "ok"
  /\ answers[k].user = owner /\ requests[k].name = name

\* Request j started a test of c for this owner.
IsTest(requests, answers, owner, c, j) ==
  /\ requests[j].act = "test" /\ requests[j].config = c
  /\ answers[j].user = owner /\ answers[j].says = "testing"

\* Request k ended one.
IsEnd(requests, answers, owner, c, k) ==
  /\ requests[k].act = "tested"
  /\ \E j \in c .. (k - 1) :
       IsTest(requests, answers, owner, c, j) /\ requests[j].call = requests[k].call

States(requests, answers, g, k) ==
  IsSave(requests, answers, g.owner, g.name, k) /\ requests[k].secret # None

\* Configuration c has the secret stated last.
StatedRight(requests, answers, i, c, g) ==
  \E m \in c .. i :
    /\ m = c \/ States(requests, answers, g, m)
    /\ \A k \in c .. i : States(requests, answers, g, k) => k <= m
    /\ g.secret = Users!Seal(requests[m].secret) /\ g.hint = Users!MaskSecret(requests[m].secret)

\* It has the result of its last test.
StatusRight(requests, answers, i, c, g) ==
  \/ g.status = None /\ \A k \in c .. i : ~IsEnd(requests, answers, g.owner, c, k)
  \/ \E m \in c .. i :
       /\ IsEnd(requests, answers, g.owner, c, m) /\ g.status = answers[m].says
       /\ \A k \in c .. i : IsEnd(requests, answers, g.owner, c, k) => k <= m

IsConfig(g) ==
  g = [owner |-> g.owner, name |-> g.name, secret |-> g.secret, hint |-> g.hint, status |-> g.status]

ConfigsRight(requests, answers, i, configs) ==
  /\ \A c \in DOMAIN configs :
       /\ c \in 1 .. i /\ IsConfig(configs[c])
       /\ StatedRight(requests, answers, i, c, configs[c])
       /\ StatusRight(requests, answers, i, c, configs[c])
  /\ \A c, d \in DOMAIN configs :
       configs[c].owner = configs[d].owner /\ configs[c].name = configs[d].name => c = d

\* Has a test ended?
HasEnded(requests, call, i) == \E k \in 1 .. i : requests[k].act = "tested" /\ requests[k].call = call

IsStarted(requests, answers, j) == requests[j].act = "test" /\ answers[j].says = "testing"

\* The calls under way are the tests that started and have not ended.
CallsRight(requests, answers, i, calls) ==
  /\ \A x \in DOMAIN calls :
       /\ ~HasEnded(requests, x, i)
       /\ \E j \in 1 .. i : /\ IsStarted(requests, answers, j) /\ requests[j].call = x
                            /\ calls[x] = [config |-> requests[j].config, owner |-> answers[j].user]
  /\ \A j \in 1 .. i : IsStarted(requests, answers, j) =>
       /\ requests[j].config \in 1 .. (j - 1)
       /\ HasEnded(requests, requests[j].call, i) \/ requests[j].call \in DOMAIN calls

\* Requests from c to i are those to i - 1, and i.
LEMMA OneMore ==
  ASSUME NEW i \in Nat \ {0}, NEW c \in 1 .. i
  PROVE  /\ i \in c .. i
         /\ \A k \in c .. i : k = i \/ k \in c .. (i - 1)
         /\ \A k \in c .. (i - 1) : k \in c .. i /\ k <= i
  OBVIOUS

LEMMA StatedKeeps ==
  ASSUME NEW requests, NEW answers, NEW i \in Nat \ {0}, NEW c \in 1 .. (i - 1), NEW g, NEW g2,
         StatedRight(requests, answers, i - 1, c, g),
         g2.owner = g.owner, g2.name = g.name, g2.secret = g.secret, g2.hint = g.hint,
         ~States(requests, answers, g, i)
  PROVE  StatedRight(requests, answers, i, c, g2)
  <1>1. PICK m \in c .. (i - 1) :
          /\ m = c \/ States(requests, answers, g, m)
          /\ \A k \in c .. (i - 1) : States(requests, answers, g, k) => k <= m
          /\ g.secret = Users!Seal(requests[m].secret) /\ g.hint = Users!MaskSecret(requests[m].secret)
    BY DEF StatedRight
  <1>2. \A k : States(requests, answers, g2, k) <=> States(requests, answers, g, k)
    BY DEF States
  <1>3. c \in 1 .. i
    OBVIOUS
  <1>4. m \in c .. i
    BY <1>3, OneMore
  <1>5. \A k \in c .. i : States(requests, answers, g2, k) => k <= m
    BY <1>1, <1>2, <1>3, OneMore
  <1>. QED
    BY <1>1, <1>2, <1>4, <1>5 DEF StatedRight

LEMMA StatusKeeps ==
  ASSUME NEW requests, NEW answers, NEW i \in Nat \ {0}, NEW c \in 1 .. (i - 1), NEW g, NEW g2,
         StatusRight(requests, answers, i - 1, c, g),
         g2.owner = g.owner, g2.status = g.status,
         ~IsEnd(requests, answers, g.owner, c, i)
  PROVE  StatusRight(requests, answers, i, c, g2)
  <1>1. c \in 1 .. i
    OBVIOUS
  <1>2. CASE g.status = None /\ \A k \in c .. (i - 1) : ~IsEnd(requests, answers, g.owner, c, k)
    BY <1>1, <1>2, OneMore DEF StatusRight
  <1>3. ASSUME NEW m \in c .. (i - 1), IsEnd(requests, answers, g.owner, c, m), g.status = answers[m].says,
               \A k \in c .. (i - 1) : IsEnd(requests, answers, g.owner, c, k) => k <= m
        PROVE  StatusRight(requests, answers, i, c, g2)
    <2>1. m \in c .. i /\ \A k \in c .. i : IsEnd(requests, answers, g2.owner, c, k) => k <= m
      BY <1>1, <1>3, OneMore
    <2>. QED
      BY <1>3, <2>1 DEF StatusRight
  <1>. QED
    BY <1>2, <1>3 DEF StatusRight

\* A configuration no request touches.
LEMMA ConfigsKeep ==
  ASSUME NEW requests, NEW answers, NEW i \in Nat \ {0}, NEW configs, NEW later,
         ConfigsRight(requests, answers, i - 1, configs),
         DOMAIN later \subseteq DOMAIN configs, \A c \in DOMAIN later : later[c] = configs[c],
         requests[i].act # "save" \/ answers[i].says # "ok",
         \A c \in DOMAIN later : ~IsEnd(requests, answers, configs[c].owner, c, i)
  PROVE  ConfigsRight(requests, answers, i, later)
  <1>1. ASSUME NEW c \in DOMAIN later
        PROVE  /\ c \in 1 .. i /\ IsConfig(later[c])
               /\ StatedRight(requests, answers, i, c, later[c])
               /\ StatusRight(requests, answers, i, c, later[c])
    <2>1. /\ c \in 1 .. (i - 1) /\ IsConfig(configs[c])
          /\ StatedRight(requests, answers, i - 1, c, configs[c])
          /\ StatusRight(requests, answers, i - 1, c, configs[c])
          /\ later[c] = configs[c]
      BY DEF ConfigsRight
    <2>2. ~States(requests, answers, configs[c], i)
      BY DEF States, IsSave
    <2>3. c \in 1 .. i
      BY <2>1
    <2>. QED
      BY <2>1, <2>2, <2>3, StatedKeeps, StatusKeeps
  <1>2. ASSUME NEW c \in DOMAIN later, NEW d \in DOMAIN later,
               later[c].owner = later[d].owner, later[c].name = later[d].name
        PROVE  c = d
    BY <1>2, Zenon DEF ConfigsRight
  <1>. QED
    BY <1>1, <1>2 DEF ConfigsRight

LEMMA StatusChanges ==
  ASSUME NEW g, IsConfig(g), NEW x
  PROVE  [g EXCEPT !.status = x] =
           [owner |-> g.owner, name |-> g.name, secret |-> g.secret, hint |-> g.hint, status |-> x]
  BY DEF IsConfig

\* A test starts once and ends once, after it started.
LEMMA TestsOnce ==
  ASSUME NEW requests, Users!AreSent(requests), NEW i \in 1 .. Len(requests),
         requests[i].act \in {"test", "tested"}
  PROVE  /\ \A j \in 1 .. Len(requests) :
              requests[j].act = requests[i].act /\ requests[j].call = requests[i].call => j = i
         /\ requests[i].act = "tested" =>
              \E j \in 1 .. (i - 1) : requests[j].act = "test" /\ requests[j].call = requests[i].call
  <1>. DEFINE r == requests[i]
              Same(act) == {j \in DOMAIN requests : requests[j].act = act /\ requests[j].call = r.call}
  <1>1. Len(requests) \in Nat /\ DOMAIN requests = 1 .. Len(requests)
    BY DEF Users!AreSent
  <1>2. Same(r.act) = {i}
    BY <1>1 DEF Users!AreSent
  <1>3. r.act = "tested" => \E j \in Same("test") : j < i
    BY <1>1 DEF Users!AreSent
  <1>4. ASSUME NEW j \in 1 .. Len(requests), requests[j].act = r.act, requests[j].call = r.call
        PROVE  j = i
    <2>1. j \in Same(r.act)
      BY <1>1, <1>4
    <2>. HIDE DEF Same
    <2>. QED
      BY <1>2, <2>1
  <1>5. ASSUME r.act = "tested"
        PROVE  \E j \in 1 .. (i - 1) : requests[j].act = "test" /\ requests[j].call = r.call
    <2>1. PICK j \in Same("test") : j < i
      BY <1>3, <1>5
    <2>2. j \in 1 .. (i - 1) /\ requests[j].act = "test" /\ requests[j].call = r.call
      BY <1>1, <2>1
    <2>. QED
      BY <2>2
  <1>. QED
    BY <1>4, <1>5

LEMMA EndsOneMore ==
  ASSUME NEW requests, NEW i \in Nat \ {0}, NEW x
  PROVE  HasEnded(requests, x, i)
           <=> HasEnded(requests, x, i - 1) \/ (requests[i].act = "tested" /\ requests[i].call = x)
  <1>1. /\ \A k \in 1 .. i : k = i \/ k \in 1 .. (i - 1)
        /\ i \in 1 .. i /\ \A k \in 1 .. (i - 1) : k \in 1 .. i
    OBVIOUS
  <1>. QED
    BY <1>1, Zenon DEF HasEnded

LEMMA CallsStay ==
  ASSUME NEW requests, Users!AreSent(requests), NEW answers, NEW i \in 1 .. Len(requests), NEW s, NEW t,
         CallsRight(requests, answers, i - 1, s.calls), DOMAIN s.configs \subseteq 1 .. (i - 1),
         ConfigStep(s, requests[i], t, answers[i])
  PROVE  CallsRight(requests, answers, i, t.calls)
  <1>. DEFINE r == requests[i]
              a == answers[i]
              n == Len(requests)
              Of(x, j) == /\ IsStarted(requests, answers, j) /\ requests[j].call = x
              Call(j) == [config |-> requests[j].config, owner |-> answers[j].user]
  <1>0. n \in Nat /\ i \in Nat \ {0}
    BY DEF Users!AreSent
  <1>1. /\ \A j \in 1 .. i : j = i \/ j \in 1 .. (i - 1)
        /\ i \in 1 .. i /\ \A j \in 1 .. (i - 1) : j \in 1 .. i /\ j \in 1 .. n /\ j # i
        /\ \A j \in 1 .. i : j \in 1 .. n
    BY <1>0
  <1>. HIDE DEF n
  <1>2. /\ \A x \in DOMAIN s.calls : /\ ~HasEnded(requests, x, i - 1)
                                     /\ \E j \in 1 .. (i - 1) : Of(x, j) /\ s.calls[x] = Call(j)
        /\ \A j \in 1 .. (i - 1) : IsStarted(requests, answers, j) =>
             /\ requests[j].config \in 1 .. (j - 1)
             /\ HasEnded(requests, requests[j].call, i - 1) \/ requests[j].call \in DOMAIN s.calls
    BY DEF CallsRight
  <1>. HIDE DEF Call
  <1>3. CASE ~IsStarted(requests, answers, i) /\ r.act # "tested"
    <2>1. t.calls = s.calls
      BY <1>3 DEF ConfigStep, IsStarted
    <2>2. \A x : HasEnded(requests, x, i) <=> HasEnded(requests, x, i - 1)
      BY <1>0, <1>3, EndsOneMore
    <2>3. ASSUME NEW x \in DOMAIN t.calls
          PROVE  ~HasEnded(requests, x, i) /\ \E j \in 1 .. i : Of(x, j) /\ t.calls[x] = Call(j)
      BY <1>1, <1>2, <2>1, <2>2
    <2>4. ASSUME NEW j \in 1 .. i, IsStarted(requests, answers, j)
          PROVE  /\ requests[j].config \in 1 .. (j - 1)
                 /\ HasEnded(requests, requests[j].call, i) \/ requests[j].call \in DOMAIN t.calls
      <3>1. j \in 1 .. (i - 1)
        BY <1>1, <1>3, <2>4
      <3>. QED
        BY <1>2, <2>1, <2>2, <2>4, <3>1
    <2>. QED
      BY <2>3, <2>4, Zenon DEF CallsRight, Call
  <1>4. CASE r.act = "tested"
    <2>1. /\ DOMAIN t.calls = DOMAIN s.calls \ {r.call}
          /\ \A x \in DOMAIN t.calls : t.calls[x] = s.calls[x]
      BY <1>4 DEF ConfigStep
    <2>2. \A x : HasEnded(requests, x, i) <=> HasEnded(requests, x, i - 1) \/ r.call = x
      BY <1>0, <1>4, EndsOneMore
    <2>3. ~IsStarted(requests, answers, i)
      BY <1>4 DEF IsStarted
    <2>4. ASSUME NEW x \in DOMAIN t.calls
          PROVE  ~HasEnded(requests, x, i) /\ \E j \in 1 .. i : Of(x, j) /\ t.calls[x] = Call(j)
      BY <1>1, <1>2, <2>1, <2>2
    <2>5. ASSUME NEW j \in 1 .. i, IsStarted(requests, answers, j)
          PROVE  /\ requests[j].config \in 1 .. (j - 1)
                 /\ HasEnded(requests, requests[j].call, i) \/ requests[j].call \in DOMAIN t.calls
      <3>1. j \in 1 .. (i - 1)
        BY <1>1, <2>3, <2>5
      <3>. QED
        BY <1>2, <2>1, <2>2, <2>5, <3>1
    <2>. QED
      BY <2>4, <2>5, Zenon DEF CallsRight, Call
  <1>5. CASE IsStarted(requests, answers, i)
    <2>0. r.act = "test" /\ a.says = "testing"
      BY <1>5 DEF IsStarted
    <2>1. r.config \in DOMAIN s.configs /\ t.calls = Users!Put(s.calls, r.call, Call(i))
      BY <2>0 DEF ConfigStep, Call
    <2>2. /\ DOMAIN t.calls = DOMAIN s.calls \cup {r.call} /\ t.calls[r.call] = Call(i)
          /\ \A x \in DOMAIN s.calls : x # r.call => t.calls[x] = s.calls[x]
      <3>. HIDE DEF r
      <3>. QED
        BY <2>1 DEF Users!Put
    <2>3. \A x : HasEnded(requests, x, i) <=> HasEnded(requests, x, i - 1)
      BY <1>0, <2>0, EndsOneMore
    <2>4. ~HasEnded(requests, r.call, i - 1)
      <3>1. ASSUME NEW k \in 1 .. (i - 1), requests[k].act = "tested", requests[k].call = r.call
            PROVE  FALSE
        <4>1. k \in 1 .. n
          BY <1>1
        <4>2. PICK j \in 1 .. (k - 1) : requests[j].act = "test" /\ requests[j].call = r.call
          BY <3>1, <4>1, TestsOnce DEF n
        <4>3. j \in 1 .. (i - 1)
          OBVIOUS
        <4>4. j = i
          BY <1>1, <2>0, <4>2, <4>3, TestsOnce DEF n
        <4>. QED
          BY <4>3, <4>4
      <3>. QED
        BY <3>1 DEF HasEnded
    <2>5. ASSUME NEW x \in DOMAIN t.calls
          PROVE  ~HasEnded(requests, x, i) /\ \E j \in 1 .. i : Of(x, j) /\ t.calls[x] = Call(j)
      <3>1. CASE x = r.call
        <4>1. Of(x, i) /\ t.calls[x] = Call(i)
          BY <1>5, <2>2, <3>1
        <4>2. ~HasEnded(requests, x, i)
          BY <2>3, <2>4, <3>1
        <4>. QED
          BY <1>1, <4>1, <4>2
      <3>2. CASE x # r.call
        <4>1. x \in DOMAIN s.calls /\ t.calls[x] = s.calls[x]
          BY <2>2, <3>2
        <4>. QED
          BY <1>1, <1>2, <2>3, <4>1
      <3>. QED
        BY <3>1, <3>2
    <2>6. ASSUME NEW j \in 1 .. i, IsStarted(requests, answers, j)
          PROVE  /\ requests[j].config \in 1 .. (j - 1)
                 /\ HasEnded(requests, requests[j].call, i) \/ requests[j].call \in DOMAIN t.calls
      <3>1. CASE j = i
        BY <2>1, <2>2, <3>1
      <3>2. CASE j # i
        <4>1. j \in 1 .. (i - 1)
          BY <1>1, <3>2
        <4>. QED
          BY <1>2, <2>2, <2>3, <2>6, <4>1
      <3>. QED
        BY <3>1, <3>2
    <2>. QED
      BY <2>5, <2>6, Zenon DEF CallsRight, Call
  <1>. QED
    BY <1>3, <1>4, <1>5

\* A request ends a test of c for its owner just when its call says so.
LEMMA EndsItsCall ==
  ASSUME NEW requests, Users!AreSent(requests), NEW answers, NEW i \in 1 .. Len(requests), NEW calls,
         CallsRight(requests, answers, i - 1, calls),
         requests[i].act = "tested", NEW c \in Nat \ {0}, NEW owner
  PROVE  IsEnd(requests, answers, owner, c, i)
           <=> /\ requests[i].call \in DOMAIN calls
               /\ calls[requests[i].call] = [config |-> c, owner |-> owner]
  <1>. DEFINE r == requests[i]
              n == Len(requests)
              Of(x, j) == /\ IsStarted(requests, answers, j) /\ requests[j].call = x
                          /\ calls[x] = [config |-> requests[j].config, owner |-> answers[j].user]
  <1>0. n \in Nat /\ \A j \in 1 .. (i - 1) : j \in 1 .. n /\ j # i
    BY DEF Users!AreSent
  <1>. HIDE DEF n
  <1>1. ASSUME IsEnd(requests, answers, owner, c, i)
        PROVE  r.call \in DOMAIN calls /\ calls[r.call] = [config |-> c, owner |-> owner]
    <2>1. PICK j \in c .. (i - 1) : IsTest(requests, answers, owner, c, j) /\ requests[j].call = r.call
      BY <1>1 DEF IsEnd
    <2>2. IsStarted(requests, answers, j) /\ requests[j].config = c /\ answers[j].user = owner
      BY <2>1 DEF IsTest, IsStarted
    <2>3. j \in 1 .. (i - 1)
      OBVIOUS
    <2>4. ~HasEnded(requests, r.call, i - 1)
      <3>1. \A k \in 1 .. (i - 1) : ~(requests[k].act = "tested" /\ requests[k].call = r.call)
        BY <1>0, TestsOnce DEF n
      <3>. QED
        BY <3>1 DEF HasEnded
    <2>5. r.call \in DOMAIN calls
      BY <2>1, <2>2, <2>3, <2>4 DEF CallsRight
    <2>6. PICK l \in 1 .. (i - 1) : Of(r.call, l)
      BY <2>5 DEF CallsRight
    <2>7. l = j
      <3>1. /\ requests[l].act = "test" /\ requests[j].act = "test"
            /\ requests[l].call = requests[j].call /\ l \in 1 .. n /\ j \in 1 .. n
        BY <1>0, <2>1, <2>2, <2>3, <2>6 DEF IsStarted
      <3>. QED
        BY <3>1, TestsOnce DEF n
    <2>. QED
      BY <2>2, <2>5, <2>6, <2>7
  <1>2. ASSUME r.call \in DOMAIN calls, calls[r.call] = [config |-> c, owner |-> owner]
        PROVE  IsEnd(requests, answers, owner, c, i)
    <2>1. PICK j \in 1 .. (i - 1) : Of(r.call, j) /\ requests[j].config \in 1 .. (j - 1)
      BY <1>2 DEF CallsRight
    <2>2. requests[j].config = c /\ answers[j].user = owner
      <3>1. calls[r.call].config = c /\ calls[r.call].owner = owner
        BY <1>2
      <3>2. calls[r.call].config = requests[j].config /\ calls[r.call].owner = answers[j].user
        BY <2>1
      <3>. QED
        BY <3>1, <3>2
    <2>3. j \in c .. (i - 1)
      BY <2>1, <2>2
    <2>4. IsTest(requests, answers, owner, c, j) /\ requests[j].call = r.call
      BY <2>1, <2>2 DEF IsTest, IsStarted
    <2>. QED
      BY <2>3, <2>4 DEF IsEnd
  <1>. QED
    BY <1>1, <1>2

LEMMA SavesStay ==
  ASSUME NEW requests, NEW answers, NEW i \in Nat \ {0}, NEW s, NEW t,
         ConfigsRight(requests, answers, i - 1, s.configs), Len(s.answers) = i - 1,
         requests[i].act = "save", answers[i].says = "ok",
         t.configs = Users!SaveConfig(s, requests[i], answers[i].user)
  PROVE  ConfigsRight(requests, answers, i, t.configs)
  <1>. DEFINE r == requests[i]
              user == answers[i].user
              same == Users!Named(s, user, r.name)
              c == IF same = {} THEN i ELSE CHOOSE d \in same : TRUE
              kept == r.secret = None /\ same # {}
              old == s.configs[c]
              g == [owner |-> user, name |-> r.name,
                    secret |-> IF kept THEN old.secret ELSE Users!Seal(r.secret),
                    hint |-> IF kept THEN old.hint ELSE Users!MaskSecret(r.secret),
                    status |-> IF same = {} THEN None ELSE old.status]
              Mine(d) == d \in DOMAIN s.configs /\ s.configs[d].owner = user /\ s.configs[d].name = r.name
  <1>1. /\ \A d \in DOMAIN s.configs :
             /\ d \in 1 .. (i - 1) /\ IsConfig(s.configs[d])
             /\ StatedRight(requests, answers, i - 1, d, s.configs[d])
             /\ StatusRight(requests, answers, i - 1, d, s.configs[d])
        /\ \A d, e \in DOMAIN s.configs :
             s.configs[d].owner = s.configs[e].owner /\ s.configs[d].name = s.configs[e].name => d = e
    BY DEF ConfigsRight
  <1>2. \A d : d \in same <=> Mine(d)
    BY DEF Users!Named
  <1>3. t.configs = Users!Put(s.configs, c, g)
    <2>1. Len(s.answers) + 1 = i
      OBVIOUS
    <2>. QED
      BY <2>1, Zenon DEF Users!SaveConfig
  <1>4. \A d : Mine(d) => d = c /\ same # {}
    <2>1. ASSUME NEW d, Mine(d) PROVE d = c /\ same # {}
      <3>1. d \in same
        BY <1>2, <2>1
      <3>2. c \in same
        <4>. HIDE DEF same
        <4>. QED
          BY <3>1
      <3>3. Mine(c)
        <4>. HIDE DEF same, c
        <4>. QED
          BY <1>2, <3>2
      <3>4. d = c
        <4>. HIDE DEF same, c
        <4>. QED
          BY <1>1, <2>1, <3>3
      <3>. QED
        BY <3>1, <3>4
    <2>. QED
      BY <2>1
  <1>5. same # {} => Mine(c)
    <2>1. same # {} => c \in same
      <3>. HIDE DEF same
      <3>. QED
        OBVIOUS
    <2>. HIDE DEF same, c
    <2>. QED
      BY <1>2, <2>1
  <1>6. /\ g.owner = user /\ g.name = r.name
        /\ g.secret = IF kept THEN old.secret ELSE Users!Seal(r.secret)
        /\ g.hint = IF kept THEN old.hint ELSE Users!MaskSecret(r.secret)
        /\ g.status = IF same = {} THEN None ELSE old.status
    <2>. HIDE DEF kept, old, same
    <2>. QED
      OBVIOUS
  <1>7. IsConfig(g)
    <2>. HIDE DEF kept, old, same
    <2>. QED
      BY DEF IsConfig
  <1>8. i \in i .. i /\ \A k \in i .. i : k = i /\ k <= i
    OBVIOUS
  <1>9. same = {} => c = i
    <2>. HIDE DEF same
    <2>. QED
      OBVIOUS
  <1>. HIDE DEF g, same, c
  <1>10. /\ DOMAIN t.configs = DOMAIN s.configs \cup {c}
         /\ t.configs[c] = g
         /\ \A d \in DOMAIN s.configs : d # c => t.configs[d] = s.configs[d]
    BY <1>3 DEF Users!Put
  <1>11. \A owner, d, k : requests[k].act = "save" => ~IsEnd(requests, answers, owner, d, k)
    BY DEF IsEnd
  <1>12. /\ c \in 1 .. i
         /\ StatedRight(requests, answers, i, c, g) /\ StatusRight(requests, answers, i, c, g)
    <2>1. CASE same = {}
      <3>1. c = i /\ ~kept
        BY <1>9, <2>1
      <3>2. StatedRight(requests, answers, i, i, g)
        BY <1>6, <1>8, <3>1 DEF StatedRight
      <3>3. StatusRight(requests, answers, i, i, g)
        BY <1>6, <1>8, <1>11, <2>1 DEF StatusRight
      <3>. QED
        BY <3>1, <3>2, <3>3
    <2>2. CASE same # {}
      <3>1. Mine(c)
        BY <1>5, <2>2
      <3>2. /\ c \in 1 .. (i - 1) /\ old.owner = user /\ old.name = r.name
            /\ StatedRight(requests, answers, i - 1, c, old)
            /\ StatusRight(requests, answers, i - 1, c, old)
        BY <1>1, <3>1
      <3>3. c \in 1 .. i
        BY <3>2
      <3>4. StatusRight(requests, answers, i, c, g)
        <4>1. ~IsEnd(requests, answers, old.owner, c, i)
          BY <1>11
        <4>2. g.owner = old.owner /\ g.status = old.status
          BY <1>6, <2>2, <3>2
        <4>. HIDE DEF old
        <4>. QED
          BY <3>2, <4>1, <4>2, StatusKeeps
      <3>5. CASE r.secret = None
        <4>1. ~States(requests, answers, old, i)
          BY <3>5 DEF States
        <4>2. /\ g.owner = old.owner /\ g.name = old.name
              /\ g.secret = old.secret /\ g.hint = old.hint
          BY <1>6, <2>2, <3>2, <3>5
        <4>3. StatedRight(requests, answers, i, c, g)
          <5>. HIDE DEF old
          <5>. QED
            BY <3>2, <4>1, <4>2, StatedKeeps
        <4>. QED
          BY <3>3, <3>4, <4>3
      <3>6. CASE r.secret # None
        <4>1. States(requests, answers, g, i)
          BY <1>6, <3>6 DEF States, IsSave
        <4>2. g.secret = Users!Seal(r.secret) /\ g.hint = Users!MaskSecret(r.secret)
          BY <1>6, <3>6
        <4>3. i \in c .. i /\ \A k \in c .. i : k <= i
          BY <3>3
        <4>4. StatedRight(requests, answers, i, c, g)
          BY <4>1, <4>2, <4>3 DEF StatedRight
        <4>. QED
          BY <3>3, <3>4, <4>4
      <3>. QED
        BY <3>5, <3>6
    <2>. QED
      BY <2>1, <2>2
  <1>13. ASSUME NEW d \in DOMAIN s.configs, d # c
         PROVE  /\ d \in 1 .. i
                /\ StatedRight(requests, answers, i, d, s.configs[d])
                /\ StatusRight(requests, answers, i, d, s.configs[d])
    <2>1. /\ d \in 1 .. (i - 1) /\ d \in 1 .. i
          /\ StatedRight(requests, answers, i - 1, d, s.configs[d])
          /\ StatusRight(requests, answers, i - 1, d, s.configs[d])
      BY <1>1
    <2>2. ~States(requests, answers, s.configs[d], i)
      <3>1. ~Mine(d)
        BY <1>4, <1>13
      <3>. QED
        BY <3>1 DEF States, IsSave
    <2>3. ~IsEnd(requests, answers, s.configs[d].owner, d, i)
      BY <1>11
    <2>. QED
      BY <2>1, <2>2, <2>3, StatedKeeps, StatusKeeps
  <1>14. ASSUME NEW d \in DOMAIN t.configs
         PROVE  /\ d \in 1 .. i /\ IsConfig(t.configs[d])
                /\ StatedRight(requests, answers, i, d, t.configs[d])
                /\ StatusRight(requests, answers, i, d, t.configs[d])
    <2>1. CASE d = c
      BY <1>7, <1>10, <1>12, <2>1
    <2>2. CASE d # c
      <3>1. d \in DOMAIN s.configs /\ t.configs[d] = s.configs[d]
        BY <1>10, <2>2
      <3>. QED
        BY <1>1, <1>13, <2>2, <3>1
    <2>. QED
      BY <2>1, <2>2
  <1>15. ASSUME NEW d \in DOMAIN t.configs, NEW e \in DOMAIN t.configs,
                t.configs[d].owner = t.configs[e].owner, t.configs[d].name = t.configs[e].name
         PROVE  d = e
    <2>1. \A f \in DOMAIN s.configs : f # c => ~(s.configs[f].owner = user /\ s.configs[f].name = r.name)
      BY <1>4
    <2>2. CASE d = c /\ e # c
      BY <1>6, <1>10, <1>15, <2>1, <2>2
    <2>3. CASE d # c /\ e = c
      BY <1>6, <1>10, <1>15, <2>1, <2>3
    <2>4. CASE d # c /\ e # c
      BY <1>1, <1>10, <1>15, <2>4
    <2>. QED
      BY <2>2, <2>3, <2>4
  <1>. QED
    BY <1>14, <1>15 DEF ConfigsRight

LEMMA EndsStay ==
  ASSUME NEW requests, Users!AreSent(requests), NEW answers, NEW i \in 1 .. Len(requests), NEW s, NEW t,
         ConfigsRight(requests, answers, i - 1, s.configs), CallsRight(requests, answers, i - 1, s.calls),
         requests[i].act = "tested", ConfigStep(s, requests[i], t, answers[i])
  PROVE  ConfigsRight(requests, answers, i, t.configs)
  <1>. DEFINE r == requests[i]
              a == answers[i]
              call == s.calls[r.call]
  <1>1. /\ \A d \in DOMAIN s.configs :
             /\ d \in 1 .. (i - 1) /\ IsConfig(s.configs[d])
             /\ StatedRight(requests, answers, i - 1, d, s.configs[d])
             /\ StatusRight(requests, answers, i - 1, d, s.configs[d])
        /\ \A d, e \in DOMAIN s.configs :
             s.configs[d].owner = s.configs[e].owner /\ s.configs[d].name = s.configs[e].name => d = e
    BY DEF ConfigsRight
  <1>2. i \in Nat \ {0} /\ r.act # "save"
    BY DEF Users!AreSent
  <1>3. \A d \in DOMAIN s.configs :
          IsEnd(requests, answers, s.configs[d].owner, d, i)
            <=> r.call \in DOMAIN s.calls /\ call = [config |-> d, owner |-> s.configs[d].owner]
    <2>1. ASSUME NEW d \in DOMAIN s.configs PROVE d \in Nat \ {0}
      BY <1>1
    <2>. QED
      BY <2>1, EndsItsCall
  <1>4. ASSUME t.configs = s.configs, \A d \in DOMAIN s.configs : ~IsEnd(requests, answers, s.configs[d].owner, d, i)
        PROVE  ConfigsRight(requests, answers, i, t.configs)
    BY <1>2, <1>4, ConfigsKeep
  <1>5. CASE r.call \notin DOMAIN s.calls
    <2>1. t.configs = s.configs
      BY <1>5 DEF ConfigStep
    <2>. HIDE DEF call
    <2>. QED
      BY <1>3, <1>4, <1>5, <2>1
  <1>6. CASE r.call \in DOMAIN s.calls /\ ~Users!Owned(s, call.config, call.owner)
    <2>1. t.configs = s.configs
      BY <1>6 DEF ConfigStep
    <2>2. ASSUME NEW d \in DOMAIN s.configs PROVE ~IsEnd(requests, answers, s.configs[d].owner, d, i)
      <3>1. SUFFICES ASSUME call = [config |-> d, owner |-> s.configs[d].owner] PROVE FALSE
        <4>. HIDE DEF call
        <4>. QED
          BY <1>3
      <3>2. call.config = d /\ call.owner = s.configs[d].owner
        BY <3>1
      <3>. HIDE DEF call
      <3>. QED
        BY <1>6, <3>2 DEF Users!Owned
    <2>. QED
      BY <1>4, <2>1, <2>2
  <1>7. CASE r.call \in DOMAIN s.calls /\ Users!Owned(s, call.config, call.owner)
    <2>. DEFINE c == call.config
                old == s.configs[c]
                g == [old EXCEPT !.status = a.says]
    <2>1. c \in DOMAIN s.configs /\ old.owner = call.owner
      BY <1>7 DEF Users!Owned
    <2>2. t.configs = [s.configs EXCEPT ![c].status = a.says]
      BY <1>7 DEF ConfigStep
    <2>3. g = [owner |-> old.owner, name |-> old.name, secret |-> old.secret, hint |-> old.hint,
               status |-> a.says]
      <3>1. IsConfig(old)
        BY <1>1, <2>1
      <3>. HIDE DEF old
      <3>. QED
        BY <3>1, StatusChanges
    <2>4. /\ g.owner = old.owner /\ g.name = old.name /\ g.secret = old.secret /\ g.hint = old.hint
          /\ g.status = a.says /\ IsConfig(g)
      <3>. HIDE DEF g, old
      <3>. QED
        BY <2>3 DEF IsConfig
    <2>5. /\ DOMAIN t.configs = DOMAIN s.configs /\ t.configs[c] = g
          /\ \A d \in DOMAIN s.configs : d # c => t.configs[d] = s.configs[d]
      <3>1. t.configs = [s.configs EXCEPT ![c] = g]
        BY <2>2
      <3>. HIDE DEF g, c
      <3>. QED
        BY <2>1, <3>1
    <2>6. call = [config |-> c, owner |-> old.owner]
      <3>1. PICK j \in 1 .. (i - 1) : call = [config |-> requests[j].config, owner |-> answers[j].user]
        BY <1>7 DEF CallsRight
      <3>2. call.config = requests[j].config /\ call.owner = answers[j].user
        <4>. HIDE DEF call
        <4>. QED
          BY <3>1
      <3>. QED
        BY <2>1, <3>1, <3>2
    <2>7. IsEnd(requests, answers, old.owner, c, i)
      <3>. HIDE DEF call
      <3>. QED
        BY <1>3, <1>7, <2>1, <2>6
    <2>8. \A d \in DOMAIN s.configs : d # c => ~IsEnd(requests, answers, s.configs[d].owner, d, i)
      <3>1. ASSUME NEW d \in DOMAIN s.configs, d # c, call = [config |-> d, owner |-> s.configs[d].owner]
            PROVE FALSE
        <4>1. call.config = d
          BY <3>1
        <4>. QED
          BY <3>1, <4>1
      <3>. HIDE DEF call, c
      <3>. QED
        BY <1>3, <3>1
    <2>9. \A d \in DOMAIN s.configs : ~States(requests, answers, s.configs[d], i)
      BY <1>2 DEF States, IsSave
    <2>. HIDE DEF g, old, c
    <2>10. /\ c \in 1 .. i /\ IsConfig(g)
           /\ StatedRight(requests, answers, i, c, g) /\ StatusRight(requests, answers, i, c, g)
      <3>1. /\ c \in 1 .. (i - 1) /\ c \in 1 .. i /\ StatedRight(requests, answers, i - 1, c, old)
        BY <1>1, <2>1 DEF old
      <3>2. ~States(requests, answers, old, i)
        BY <2>1, <2>9 DEF old
      <3>3. StatedRight(requests, answers, i, c, g)
        BY <1>2, <2>4, <3>1, <3>2, StatedKeeps
      <3>4. IsEnd(requests, answers, g.owner, c, i)
        BY <2>4, <2>7
      <3>5. i \in c .. i /\ \A k \in c .. i : k <= i
        BY <3>1
      <3>6. StatusRight(requests, answers, i, c, g)
        BY <2>4, <3>4, <3>5 DEF StatusRight
      <3>. QED
        BY <2>4, <3>1, <3>3, <3>6
    <2>11. ASSUME NEW d \in DOMAIN t.configs
           PROVE  /\ d \in 1 .. i /\ IsConfig(t.configs[d])
                  /\ StatedRight(requests, answers, i, d, t.configs[d])
                  /\ StatusRight(requests, answers, i, d, t.configs[d])
      <3>1. CASE d = c
        BY <2>5, <2>10, <3>1
      <3>2. CASE d # c
        <4>1. /\ d \in 1 .. (i - 1) /\ d \in 1 .. i /\ IsConfig(s.configs[d])
              /\ StatedRight(requests, answers, i - 1, d, s.configs[d])
              /\ StatusRight(requests, answers, i - 1, d, s.configs[d])
          BY <1>1, <2>5
        <4>2. /\ t.configs[d] = s.configs[d]
              /\ ~IsEnd(requests, answers, s.configs[d].owner, d, i)
              /\ ~States(requests, answers, s.configs[d], i)
          BY <2>5, <2>8, <2>9, <3>2
        <4>. QED
          BY <1>2, <4>1, <4>2, StatedKeeps, StatusKeeps
      <3>. QED
        BY <3>1, <3>2
    <2>12. \A d \in DOMAIN t.configs :
             t.configs[d].owner = s.configs[d].owner /\ t.configs[d].name = s.configs[d].name
      BY <2>4, <2>5 DEF old
    <2>13. ASSUME NEW d \in DOMAIN t.configs, NEW e \in DOMAIN t.configs,
                  t.configs[d].owner = t.configs[e].owner, t.configs[d].name = t.configs[e].name
           PROVE  d = e
      BY <1>1, <2>5, <2>12, <2>13
    <2>. QED
      BY <2>11, <2>13 DEF ConfigsRight
  <1>. QED
    BY <1>5, <1>6, <1>7

LEMMA ConfigsStay ==
  ASSUME NEW requests, Users!AreSent(requests), NEW answers, NEW i \in 1 .. Len(requests), NEW s, NEW t,
         ConfigsRight(requests, answers, i - 1, s.configs), CallsRight(requests, answers, i - 1, s.calls),
         Len(s.answers) = i - 1, ConfigStep(s, requests[i], t, answers[i])
  PROVE  ConfigsRight(requests, answers, i, t.configs)
  <1>. DEFINE r == requests[i]
              a == answers[i]
  <1>1. i \in Nat \ {0}
    BY DEF Users!AreSent
  <1>2. CASE r.act = "save" /\ a.says = "ok"
    <2>1. t.configs = Users!SaveConfig(s, r, a.user)
      BY <1>2 DEF ConfigStep
    <2>. QED
      BY <1>1, <1>2, <2>1, SavesStay
  <1>3. CASE r.act = "tested"
    BY <1>3, EndsStay
  <1>4. CASE r.act # "tested" /\ ~ (r.act = "save" /\ a.says = "ok")
    <2>1. DOMAIN t.configs \subseteq DOMAIN s.configs /\ \A c \in DOMAIN t.configs : t.configs[c] = s.configs[c]
      <3>1. CASE t.configs = s.configs
        BY <3>1
      <3>2. CASE t.configs = [c \in DOMAIN s.configs \ {r.config} |-> s.configs[c]]
        <4>. HIDE DEF r
        <4>. QED
          BY <3>2
      <3>. QED
        BY <1>4, <3>1, <3>2 DEF ConfigStep
    <2>2. \A c, owner : ~IsEnd(requests, answers, owner, c, i)
      BY <1>4 DEF IsEnd
    <2>. QED
      BY <1>1, <1>4, <2>1, <2>2, ConfigsKeep, ZenonT(60)
  <1>. QED
    BY <1>2, <1>3, <1>4

\* Configurations and the tests under way are right after every request.
LEMMA ConfigsHold ==
  ASSUME NEW app, NEW requests, Users!AreSent(requests)
  PROVE  LET h == Users!History(app, requests)
             answers == h[Len(requests)].answers
         IN \A i \in 0 .. Len(requests) :
              ConfigsRight(requests, answers, i, h[i].configs) /\ CallsRight(requests, answers, i, h[i].calls)
  <1>. DEFINE n == Len(requests)
              h == Users!History(app, requests)
              answers == h[n].answers
              Good(i) == ConfigsRight(requests, answers, i, h[i].configs)
                         /\ CallsRight(requests, answers, i, h[i].calls)
              T == {i \in 0 .. n : Good(i)}
  <1>1. /\ n \in Nat
        /\ h[0] = Users!NobodyYet
        /\ \A i \in 1 .. n : ConfigStep(h[i - 1], requests[i], h[i], answers[i])
        /\ \A i \in 0 .. n : Len(h[i].answers) = i
    BY UsersDo
  <1>2. 0 \in T
    <2>. HIDE DEF n, h, answers
    <2>1. h[0].configs = <<>> /\ h[0].calls = <<>>
      BY <1>1 DEF Users!NobodyYet
    <2>2. 1 .. 0 = {} /\ DOMAIN <<>> = {}
      OBVIOUS
    <2>3. ConfigsRight(requests, answers, 0, h[0].configs) /\ CallsRight(requests, answers, 0, h[0].calls)
      BY <2>1, <2>2, Zenon DEF ConfigsRight, CallsRight
    <2>. QED
      BY <1>1, <2>3
  <1>3. ASSUME NEW i \in 1 .. n, i - 1 \in T PROVE i \in T
    <2>. HIDE DEF h, answers
    <2>1. Good(i - 1) /\ i - 1 \in 0 .. n /\ i \in 0 .. n
      BY <1>1, <1>3
    <2>2. ConfigStep(h[i - 1], requests[i], h[i], answers[i]) /\ Len(h[i - 1].answers) = i - 1
      BY <1>1, <2>1
    <2>3. DOMAIN h[i - 1].configs \subseteq 1 .. (i - 1)
      BY <2>1 DEF ConfigsRight
    <2>4. ConfigsRight(requests, answers, i, h[i].configs)
      BY <2>1, <2>2, ConfigsStay
    <2>5. CallsRight(requests, answers, i, h[i].calls)
      BY <2>1, <2>2, <2>3, CallsStay
    <2>. QED
      BY <2>1, <2>4, <2>5
  <1>4. 0 .. n \subseteq T
    <2>. HIDE DEF T, n
    <2>. QED
      BY <1>1, <1>2, <1>3, BoundedInduction
  <1>5. \A i \in 0 .. n : Good(i)
    <2>. HIDE DEF Good, n
    <2>. QED
      BY <1>4
  <1>. QED
    BY <1>5

LEMMA MaxIs ==
  ASSUME NEW S \in SUBSET Int, NEW m \in S, \A k \in S : k <= m
  PROVE  Users!Max(S) = m
  <1>1. \A y \in S : m >= y
    OBVIOUS
  <1>2. \A x \in S : (\A y \in S : x >= y) => x = m
    OBVIOUS
  <1>. QED
    BY <1>1, <1>2 DEF Users!Max

\* A configuration has the secret stated last and the result of its last test.
LEMMA ConfigsAreRight ==
  ASSUME NEW requests, NEW answers, Len(requests) \in Nat, NEW configs,
         ConfigsRight(requests, answers, Len(requests), configs), NEW c \in DOMAIN configs
  PROVE  Users!ConfigIsRight(requests, answers, configs, c)
  <1>. DEFINE n == Len(requests)
              config == configs[c]
              Saves == {i \in c .. n :
                          /\ requests[i].act = "save" /\ answers[i].says = "ok"
                          /\ answers[i].user = config.owner /\ requests[i].name = config.name}
              Stating == {i \in Saves : requests[i].secret # None} \cup {c}
              Ends == {i \in c .. n :
                         /\ requests[i].act = "tested"
                         /\ \E j \in c .. (i - 1) :
                              /\ requests[j].act = "test" /\ requests[j].call = requests[i].call
                              /\ requests[j].config = c /\ answers[j].user = config.owner
                              /\ answers[j].says = "testing"}
  <1>1. /\ c \in 1 .. n /\ StatedRight(requests, answers, n, c, config)
        /\ StatusRight(requests, answers, n, c, config)
        /\ \A d \in DOMAIN configs : configs[d].owner = config.owner /\ configs[d].name = config.name => d = c
    BY DEF ConfigsRight
  <1>. HIDE DEF n, config
  <1>2. \A k : k \in Stating <=> k = c \/ (k \in c .. n /\ States(requests, answers, config, k))
    BY DEF States, IsSave
  <1>3. \A k : k \in Ends <=> k \in c .. n /\ IsEnd(requests, answers, config.owner, c, k)
    BY DEF IsEnd, IsTest
  <1>. HIDE DEF Stating, Ends
  <1>4. PICK m \in c .. n :
          /\ m = c \/ States(requests, answers, config, m)
          /\ \A k \in c .. n : States(requests, answers, config, k) => k <= m
          /\ config.secret = Users!Seal(requests[m].secret) /\ config.hint = Users!MaskSecret(requests[m].secret)
    BY <1>1 DEF StatedRight
  <1>5. Users!Max(Stating) = m
    <2>1. Stating \in SUBSET Int /\ m \in Stating /\ \A k \in Stating : k <= m
      BY <1>1, <1>2, <1>4
    <2>. QED
      BY <2>1, MaxIs
  <1>6. config.status = IF Ends = {} THEN None ELSE answers[Users!Max(Ends)].says
    <2>1. CASE config.status = None /\ \A k \in c .. n : ~IsEnd(requests, answers, config.owner, c, k)
      BY <1>3, <2>1
    <2>2. ASSUME NEW e \in c .. n, IsEnd(requests, answers, config.owner, c, e), config.status = answers[e].says,
                 \A k \in c .. n : IsEnd(requests, answers, config.owner, c, k) => k <= e
          PROVE  config.status = IF Ends = {} THEN None ELSE answers[Users!Max(Ends)].says
      <3>1. Ends \in SUBSET Int /\ e \in Ends /\ \A k \in Ends : k <= e
        BY <1>1, <1>3, <2>2
      <3>2. Users!Max(Ends) = e
        BY <3>1, MaxIs
      <3>3. Ends # {}
        BY <3>1
      <3>. QED
        BY <2>2, <3>2, <3>3
    <2>. QED
      BY <1>1, <2>1, <2>2 DEF StatusRight
  <1>7. /\ config.secret = Users!Seal(requests[Users!Max(Stating)].secret)
        /\ config.hint = Users!MaskSecret(requests[Users!Max(Stating)].secret)
    BY <1>4, <1>5
  <1>. QED
    BY <1>1, <1>6, <1>7, Zenon DEF Users!ConfigIsRight, Stating, Ends, config, n

LEMMA AccountsHold ==
  ASSUME NEW app, NEW requests, Users!AreSent(requests)
  PROVE  Users!AccountsAreOwn(app, requests)
  <1>. DEFINE n == Len(requests)
              end == Users!History(app, requests)[n]
  <1>1. \A i \in DOMAIN requests : Users!UserIsRight(app, requests, end.answers, i)
    BY UsersAreRight
  <1>2. n \in Nat
    BY DEF Users!AreSent
  <1>3. ConfigsRight(requests, end.answers, n, end.configs)
    BY <1>2, ConfigsHold
  <1>. HIDE DEF end
  <1>4. \A c \in DOMAIN end.configs : Users!ConfigIsRight(requests, end.answers, end.configs, c)
    BY <1>2, <1>3, ConfigsAreRight
  <1>. QED
    BY <1>1, <1>4 DEF Users!AccountsAreOwn, end

\* A request acts for the user its session belongs to, and a configuration
\* has the secret stated last, its hint and the result of its own last test.
THEOREM AccountsSafe ==
  RulesSpec => []AccountsAreOwn
  <1>1. Init => (Is("accounts") => input.of \in Uses)
    BY DEF Init, Is
  <1>2. (Is("accounts") => input.of \in Uses) /\ [Next]_input => (Is("accounts") => input.of \in Uses)'
    BY DEF Next, Is
  <1>3. (Is("accounts") => input.of \in Uses) => AccountsAreOwn
    BY UsersAssumption, AccountsHold DEF AccountsAreOwn
  <1>. QED
    BY <1>1, <1>2, <1>3, PTL DEF RulesSpec

---------------------------------------------------------------------------
(* Lists filtered. *)

\* A list is a sequence, whatever its items are.
IsList(s) == s \in Seq(Range(s))

LEMMA Lists ==
  ASSUME NEW S, NEW s \in Seq(S)
  PROVE  /\ IsList(s) /\ Len(s) \in Nat /\ DOMAIN s = 1 .. Len(s)
         /\ \A i \in 1 .. Len(s) : s[i] \in S
         /\ Range(s) = {s[i] : i \in 1 .. Len(s)}
  <1>1. Len(s) \in Nat /\ DOMAIN s = 1 .. Len(s) /\ \A i \in 1 .. Len(s) : s[i] \in S
    OBVIOUS
  <1>2. Range(s) = {s[i] : i \in 1 .. Len(s)}
    BY <1>1 DEF Range
  <1>3. s = [i \in 1 .. Len(s) |-> s[i]]
    OBVIOUS
  <1>4. s \in [1 .. Len(s) -> Range(s)]
    BY <1>2, <1>3
  <1>5. IsList(s)
    BY <1>1, <1>4 DEF IsList
  <1>. QED
    BY <1>1, <1>2, <1>5

\* The places, in their order, of what is kept of the first k items.
Keeps(items, S, k, kept, at) ==
  /\ at \in [1 .. Len(kept) -> 1 .. k]
  /\ \A i \in 1 .. Len(kept) : kept[i] = items[at[i]] /\ items[at[i]] \in S
  /\ \A i, j \in 1 .. Len(kept) : i < j => at[i] < at[j]
  /\ \A n \in 1 .. k : items[n] \in S => \E i \in 1 .. Len(kept) : at[i] = n

\* What is kept is the items in the set, in their order.
LEMMA AmongKeeps ==
  ASSUME NEW items, IsList(items), NEW S
  PROVE  /\ Among(items, S) \in Seq(Range(items))
         /\ \E at : Keeps(items, S, Len(items), Among(items, S), at)
  <1>. DEFINE n == Len(items)
              X == Range(items)
              Runs(f, m) == f = [i \in 0 .. m |->
                                   IF i = 0 THEN <<>>
                                   ELSE IF items[i] \in S THEN Append(f[i - 1], items[i]) ELSE f[i - 1]]
              Good(f, k) == f[k] \in Seq(X) /\ \E at : Keeps(items, S, k, f[k], at)
              T == {m \in 0 .. n : \E f : Runs(f, m) /\ \A k \in 0 .. m : Good(f, k)}
  <1>1. n \in Nat /\ \A i \in 1 .. n : items[i] \in X
    BY Lists DEF IsList
  <1>. HIDE DEF X
  <1>2. 0 \in T
    <2>. DEFINE f == [i \in 0 .. 0 |-> <<>>]
    <2>1. Runs(f, 0)
      OBVIOUS
    <2>2. Keeps(items, S, 0, <<>>, <<>>)
      BY DEF Keeps
    <2>3. f[0] = <<>> /\ <<>> \in Seq(X)
      OBVIOUS
    <2>4. \A k \in 0 .. 0 : Good(f, k)
      <3>1. \A k \in 0 .. 0 : k = 0
        OBVIOUS
      <3>. HIDE DEF f
      <3>. QED
        BY <2>2, <2>3, <3>1
    <2>. HIDE DEF Runs, Good, f
    <2>. QED
      BY <1>1, <2>1, <2>4
  <1>3. ASSUME NEW m \in 1 .. n, m - 1 \in T PROVE m \in T
    <2>1. PICK f : Runs(f, m - 1) /\ \A k \in 0 .. (m - 1) : Good(f, k)
      <3>. HIDE DEF Runs, Good
      <3>. QED
        BY <1>3
    <2>. DEFINE last == f[m - 1]
                next == IF items[m] \in S THEN Append(last, items[m]) ELSE last
                g == [i \in 0 .. m |-> IF i = m THEN next ELSE f[i]]
    <2>2. m - 1 \in 0 .. (m - 1) /\ m \in 0 .. m /\ m \in Nat /\ m \in 0 .. n
      BY <1>1
    <2>3. g[m] = next /\ \A k \in 0 .. (m - 1) : g[k] = f[k]
      BY <2>2
    <2>4. Runs(g, m)
      <3>1. ASSUME NEW i \in 0 .. m
            PROVE  g[i] = IF i = 0 THEN <<>>
                          ELSE IF items[i] \in S THEN Append(g[i - 1], items[i]) ELSE g[i - 1]
        <4>1. CASE i = m
          <5>1. m # 0 /\ g[m - 1] = last
            BY <2>2, <2>3
          <5>. HIDE DEF g
          <5>. QED
            BY <2>3, <4>1, <5>1
        <4>2. CASE i # m
          <5>1. i \in 0 .. (m - 1) /\ g[i] = f[i]
            BY <2>3, <4>2
          <5>2. f[i] = IF i = 0 THEN <<>>
                       ELSE IF items[i] \in S THEN Append(f[i - 1], items[i]) ELSE f[i - 1]
            BY <2>1, <5>1
          <5>3. i # 0 => g[i - 1] = f[i - 1]
            BY <2>3, <5>1
          <5>. HIDE DEF g
          <5>. QED
            BY <5>1, <5>2, <5>3
        <4>. QED
          BY <4>1, <4>2
      <3>2. g = [i \in 0 .. m |-> g[i]]
        OBVIOUS
      <3>. HIDE DEF g
      <3>. QED
        BY <3>1, <3>2
    <2>5. last \in Seq(X) /\ Len(last) \in Nat
      <3>1. last \in Seq(X)
        BY <2>1, <2>2
      <3>. HIDE DEF last
      <3>. QED
        BY <3>1
    <2>6. PICK at : Keeps(items, S, m - 1, last, at)
      BY <2>1, <2>2
    <2>. HIDE DEF last
    <2>7. next \in Seq(X) /\ \E new : Keeps(items, S, m, next, new)
      <3>1. CASE items[m] \notin S
        <4>1. next = last
          BY <3>1
        <4>2. Keeps(items, S, m, last, at)
          BY <2>2, <2>5, <2>6, <3>1 DEF Keeps
        <4>. HIDE DEF next
        <4>. QED
          BY <2>5, <4>1, <4>2
      <3>2. CASE items[m] \in S
        <4>. DEFINE l == Len(last)
                    new == [i \in 1 .. (l + 1) |-> IF i = l + 1 THEN m ELSE at[i]]
        <4>1. next = Append(last, items[m])
          BY <3>2
        <4>2. /\ next \in Seq(X) /\ Len(next) = l + 1 /\ next[l + 1] = items[m]
              /\ \A i \in 1 .. l : next[i] = last[i]
          <5>1. items[m] \in X
            BY <1>1
          <5>. HIDE DEF next
          <5>. QED
            BY <2>5, <4>1, <5>1
        <4>3. /\ new[l + 1] = m /\ \A i \in 1 .. l : new[i] = at[i]
              /\ \A i \in 1 .. (l + 1) : i = l + 1 \/ i \in 1 .. l
          BY <2>5
        <4>4. l \in Nat
          BY <2>5
        <4>5. /\ \A i \in 1 .. l : at[i] \in 1 .. (m - 1) /\ last[i] = items[at[i]] /\ items[at[i]] \in S
              /\ \A i, j \in 1 .. l : i < j => at[i] < at[j]
              /\ \A k \in 1 .. (m - 1) : items[k] \in S => \E i \in 1 .. l : at[i] = k
          BY <2>6 DEF Keeps
        <4>6. new \in [1 .. (l + 1) -> 1 .. m]
          BY <2>2, <4>4, <4>5
        <4>. HIDE DEF next, new, l
        <4>7. \A i \in 1 .. (l + 1) : next[i] = items[new[i]] /\ items[new[i]] \in S
          BY <3>2, <4>2, <4>3, <4>5
        <4>8. ASSUME NEW i \in 1 .. (l + 1), NEW j \in 1 .. (l + 1), i < j PROVE new[i] < new[j]
          <5>1. i \in 1 .. l /\ new[i] = at[i] /\ at[i] \in 1 .. (m - 1)
            BY <4>3, <4>4, <4>5, <4>8
          <5>2. CASE j = l + 1
            BY <2>2, <4>3, <5>1, <5>2
          <5>3. CASE j # l + 1
            BY <4>3, <4>5, <4>8, <5>1, <5>3
          <5>. QED
            BY <5>2, <5>3
        <4>9. ASSUME NEW k \in 1 .. m, items[k] \in S PROVE \E i \in 1 .. (l + 1) : new[i] = k
          <5>1. CASE k = m
            BY <4>3, <4>4, <5>1
          <5>2. CASE k # m
            <6>1. PICK i \in 1 .. l : at[i] = k
              BY <4>5, <4>9, <5>2
            <6>2. i \in 1 .. (l + 1)
              BY <4>4
            <6>. QED
              BY <4>3, <6>1, <6>2
          <5>. QED
            BY <5>1, <5>2
        <4>10. Keeps(items, S, m, next, new)
          BY <4>2, <4>6, <4>7, <4>8, <4>9, Zenon DEF Keeps
        <4>. QED
          BY <4>2, <4>10
      <3>. QED
        BY <3>1, <3>2
    <2>8. ASSUME NEW k \in 0 .. m PROVE Good(g, k)
      <3>. HIDE DEF g, next
      <3>1. CASE k = m
        BY <2>3, <2>7, <3>1
      <3>2. CASE k # m
        <4>1. k \in 0 .. (m - 1)
          BY <3>2
        <4>2. g[k] = f[k]
          BY <2>3, <4>1
        <4>. QED
          BY <2>1, <4>1, <4>2
      <3>. QED
        BY <3>1, <3>2
    <2>. HIDE DEF Runs, Good, g
    <2>. QED
      BY <2>2, <2>4, <2>8
  <1>4. 0 .. n \subseteq T
    <2>. HIDE DEF T, n
    <2>. QED
      BY <1>1, <1>2, <1>3, BoundedInduction
  <1>5. PICK f : Runs(f, n) /\ \A k \in 0 .. n : Good(f, k)
    <2>1. n \in T
      <3>. HIDE DEF T, n
      <3>. QED
        BY <1>1, <1>4
    <2>. HIDE DEF Runs, Good, n
    <2>. QED
      BY <2>1
  <1>6. \A g : Runs(g, n) => g[n] = f[n]
    <2>1. SUFFICES ASSUME NEW g, Runs(g, n) PROVE g[n] = f[n]
      OBVIOUS
    <2>. DEFINE U == {i \in 0 .. n : g[i] = f[i]}
    <2>2. 0 \in U
      BY <1>1, <1>5, <2>1
    <2>3. ASSUME NEW i \in 1 .. n, i - 1 \in U PROVE i \in U
      <3>1. i \in 0 .. n /\ i # 0 /\ g[i - 1] = f[i - 1]
        BY <1>1, <2>3
      <3>2. /\ f[i] = IF items[i] \in S THEN Append(f[i - 1], items[i]) ELSE f[i - 1]
            /\ g[i] = IF items[i] \in S THEN Append(g[i - 1], items[i]) ELSE g[i - 1]
        BY <1>5, <2>1, <3>1
      <3>. QED
        BY <3>1, <3>2
    <2>4. 0 .. n \subseteq U
      <3>. HIDE DEF U, n, Runs
      <3>. QED
        BY <1>1, <2>2, <2>3, BoundedInduction
    <2>. QED
      BY <1>1, <2>4
  <1>7. Among(items, S) = (CHOOSE g : Runs(g, n))[n]
    BY DEF Among
  <1>8. Among(items, S) = f[n]
    <2>. HIDE DEF Runs, n
    <2>. QED
      BY <1>5, <1>6, <1>7
  <1>. QED
    BY <1>1, <1>5, <1>8 DEF X

LEMMA AmongIs ==
  ASSUME NEW items, IsList(items), NEW S
  PROVE  /\ IsList(Among(items, S)) /\ DOMAIN Among(items, S) = 1 .. Len(Among(items, S))
         /\ Len(Among(items, S)) \in Nat
         /\ \A x : x \in Range(Among(items, S)) <=> x \in Range(items) /\ x \in S
  <1>. DEFINE kept == Among(items, S)
  <1>1. kept \in Seq(Range(items))
    BY AmongKeeps
  <1>2. PICK at : Keeps(items, S, Len(items), kept, at)
    BY AmongKeeps
  <1>. HIDE DEF kept
  <1>3. IsList(kept) /\ Len(kept) \in Nat /\ DOMAIN kept = 1 .. Len(kept)
        /\ Range(kept) = {kept[i] : i \in 1 .. Len(kept)}
    BY <1>1, Lists
  <1>4. Range(items) = {items[i] : i \in 1 .. Len(items)}
    BY Lists DEF IsList
  <1>5. \A i \in 1 .. Len(kept) : kept[i] \in Range(items) /\ kept[i] \in S
    BY <1>2, <1>4 DEF Keeps
  <1>6. ASSUME NEW n \in 1 .. Len(items), items[n] \in S PROVE items[n] \in Range(kept)
    <2>1. PICK i \in 1 .. Len(kept) : at[i] = n
      BY <1>2, <1>6 DEF Keeps
    <2>2. kept[i] = items[n]
      BY <1>2, <2>1 DEF Keeps
    <2>. QED
      BY <1>3, <2>2
  <1>7. \A x : x \in Range(kept) <=> x \in Range(items) /\ x \in S
    BY <1>3, <1>4, <1>5, <1>6
  <1>. QED
    BY <1>3, <1>7 DEF kept

\* Items with ids of their own.
OwnIds(s) == \A i, j \in 1 .. Len(s) : s[i].id = s[j].id => i = j

LEMMA AmongOwnIds ==
  ASSUME NEW items, IsList(items), OwnIds(items), NEW S
  PROVE  OwnIds(Among(items, S))
  <1>. DEFINE kept == Among(items, S)
  <1>0. Len(kept) \in Nat /\ Len(items) \in Nat
    BY AmongIs, Lists DEF IsList
  <1>1. PICK at : Keeps(items, S, Len(items), kept, at)
    BY AmongKeeps
  <1>. HIDE DEF kept
  <1>2. SUFFICES ASSUME NEW i \in 1 .. Len(kept), NEW j \in 1 .. Len(kept), kept[i].id = kept[j].id
                 PROVE  i = j
    BY DEF OwnIds, kept
  <1>3. at[i] \in 1 .. Len(items) /\ at[j] \in 1 .. Len(items)
        /\ kept[i] = items[at[i]] /\ kept[j] = items[at[j]]
    BY <1>1 DEF Keeps
  <1>4. at[i] = at[j]
    BY <1>2, <1>3 DEF OwnIds
  <1>5. (i < j => at[i] < at[j]) /\ (j < i => at[j] < at[i])
    BY <1>1 DEF Keeps
  <1>. QED
    BY <1>0, <1>3, <1>4, <1>5

---------------------------------------------------------------------------
(* The interactive paper: what validation leaves. *)

\* A module that is instantiated filters as this one does.
LEMMA AssemblyFilters ==
  ASSUME NEW s, NEW S
  PROVE  Assembly!Among(s, S) = Among(s, S) /\ Assembly!Range(s) = Range(s)
         /\ Assembly!IsInjective(s) = IsInjective(s)
         /\ Assembly!Cardinality(S) = Cardinality(S)
  BY DEF Assembly!Among, Among, Assembly!Range, Range, Assembly!IsInjective, IsInjective,
         Assembly!Cardinality, Cardinality

IsCiting(x) == x = [id |-> x.id, cites |-> x.cites]
IsNode(x) == x = [id |-> x.id, cites |-> x.cites, inferred |-> x.inferred]
IsEdge(x) == x = [source |-> x.source, target |-> x.target, cites |-> x.cites, inferred |-> x.inferred]
IsFigure(x) == x = [id |-> x.id, cites |-> x.cites, seen |-> x.seen]
\* A figure as it is bound.
IsBound(x, g) == x.id = g.id /\ x.seen = Assembly!Analysed(g.visual)
AreItems(s) == IsList(s) /\ \A x \in Range(s) : IsCiting(x) \/ IsFigure(x)
IsDiagram(d) ==
  /\ d = [nodes |-> d.nodes, edges |-> d.edges] /\ IsList(d.nodes) /\ IsList(d.edges)
  /\ \A x \in Range(d.nodes) : IsNode(x)
  /\ \A x \in Range(d.edges) : IsEdge(x)

BlockFields == {"id", "text", "visual", "archify", "equations", "figures", "tables", "cites",
                "inferred", "status", "validator"}

\* The Archify graph of a diagram.
IsArchify(g, d) ==
  /\ IsInjective(g.column) /\ g.graph = d /\ Assembly!ValidGraph(d)
  /\ g.cites = Assembly!Cited(d.nodes) \cup Assembly!Cited(d.edges)

\* What the assembler makes, its Archify graphs from the evidence in D.
IsBlock(D, b) ==
  /\ DOMAIN b = BlockFields
  /\ AreItems(b.equations) /\ AreItems(b.figures) /\ AreItems(b.tables)
  /\ b.visual # None => IsDiagram(b.visual)
  /\ b.archify # None => IsArchify(b.archify, b.visual) /\ b.archify.cites \subseteq D

LEMMA KeptAre ==
  ASSUME NEW items, IsList(items), NEW available
  PROVE  LET kept == Assembly!Kept(items, available)
         IN /\ IsList(kept) /\ Len(kept) = Len(items)
            /\ \A x : x \in Range(kept)
                 <=> \E y \in Range(items) : x = [y EXCEPT !.cites = y.cites \cap available]
  <1>. DEFINE with(y) == [y EXCEPT !.cites = y.cites \cap available]
              kept == Assembly!Kept(items, available)
  <1>1. /\ Len(items) \in Nat /\ DOMAIN items = 1 .. Len(items)
        /\ Range(items) = {items[i] : i \in 1 .. Len(items)}
    BY Lists DEF IsList
  <1>2. kept = [i \in 1 .. Len(items) |-> with(items[i])]
    BY <1>1 DEF Assembly!Kept
  <1>. HIDE DEF with, kept
  <1>3. kept \in Seq({with(y) : y \in Range(items)}) /\ Len(kept) = Len(items)
    <2>1. kept \in [1 .. Len(items) -> {with(y) : y \in Range(items)}]
      BY <1>1, <1>2
    <2>. QED
      BY <1>1, <2>1
  <1>4. IsList(kept) /\ Range(kept) = {kept[i] : i \in 1 .. Len(items)}
    BY <1>3, Lists
  <1>5. \A x : x \in Range(kept) <=> \E y \in Range(items) : x = with(y)
    BY <1>1, <1>2, <1>4
  <1>. QED
    BY <1>3, <1>4, <1>5, Zenon DEF kept, with

LEMMA CitesKept ==
  ASSUME NEW y, NEW available
  PROVE  LET x == [y EXCEPT !.cites = y.cites \cap available]
         IN /\ IsCiting(y) => IsCiting(x) /\ x.cites = y.cites \cap available /\ x.id = y.id
            /\ IsNode(y) => IsNode(x) /\ x.cites = y.cites \cap available /\ x.id = y.id
            /\ IsEdge(y) => IsEdge(x) /\ x.cites = y.cites \cap available
            /\ IsFigure(y) => /\ IsFigure(x) /\ x.cites = y.cites \cap available
                              /\ x.id = y.id /\ x.seen = y.seen
  <1>1. ASSUME NEW c
        PROVE  LET x == [y EXCEPT !.cites = c]
               IN /\ IsCiting(y) => x = [id |-> y.id, cites |-> c]
                  /\ IsNode(y) => x = [id |-> y.id, cites |-> c, inferred |-> y.inferred]
                  /\ IsEdge(y) => x = [source |-> y.source, target |-> y.target, cites |-> c,
                                       inferred |-> y.inferred]
                  /\ IsFigure(y) => x = [id |-> y.id, cites |-> c, seen |-> y.seen]
    BY DEF IsCiting, IsNode, IsEdge, IsFigure
  <1>. DEFINE c == y.cites \cap available
              x == [y EXCEPT !.cites = c]
  <1>2. /\ IsCiting(y) => x = [id |-> y.id, cites |-> c]
        /\ IsNode(y) => x = [id |-> y.id, cites |-> c, inferred |-> y.inferred]
        /\ IsEdge(y) => x = [source |-> y.source, target |-> y.target, cites |-> c, inferred |-> y.inferred]
        /\ IsFigure(y) => x = [id |-> y.id, cites |-> c, seen |-> y.seen]
    BY <1>1
  <1>. HIDE DEF x, c
  <1>3. IsCiting(y) => IsCiting(x) /\ x.cites = c /\ x.id = y.id
    BY <1>2 DEF IsCiting
  <1>4. IsNode(y) => IsNode(x) /\ x.cites = c /\ x.id = y.id
    BY <1>2 DEF IsNode
  <1>5. IsEdge(y) => IsEdge(x) /\ x.cites = c
    BY <1>2 DEF IsEdge
  <1>6. IsFigure(y) => IsFigure(x) /\ x.cites = c /\ x.id = y.id /\ x.seen = y.seen
    BY <1>2 DEF IsFigure
  <1>. QED
    BY <1>3, <1>4, <1>5, <1>6 DEF x, c

\* What a filter leaves of the items cut to the evidence there is.
\* An item has the id of one of these, and what was read in it.
StemsFrom(x, items) == \E y \in Range(items) : y.id = x.id /\ (IsFigure(y) => x.seen = y.seen)

LEMMA SanitizedItems ==
  ASSUME NEW items, AreItems(items), NEW available, NEW S
  PROVE  LET left == Among(Assembly!Kept(items, available), S)
         IN /\ AreItems(left)
            /\ \A x \in Range(left) : /\ x.cites \subseteq available /\ x \in S
                                     /\ StemsFrom(x, items)
  <1>. DEFINE kept == Assembly!Kept(items, available)
              left == Among(kept, S)
  <1>1. /\ IsList(kept)
        /\ \A x : x \in Range(kept) <=> \E y \in Range(items) : x = [y EXCEPT !.cites = y.cites \cap available]
    BY KeptAre DEF AreItems
  <1>. HIDE DEF kept
  <1>2. IsList(left) /\ \A x : x \in Range(left) <=> x \in Range(kept) /\ x \in S
    BY <1>1, AmongIs
  <1>3. ASSUME NEW x \in Range(left)
        PROVE  /\ IsCiting(x) \/ IsFigure(x)
               /\ x.cites \subseteq available /\ x \in S
               /\ StemsFrom(x, items)
    <2>1. PICK y \in Range(items) : x = [y EXCEPT !.cites = y.cites \cap available]
      BY <1>1, <1>2
    <2>2. IsCiting(y) \/ IsFigure(y)
      BY DEF AreItems
    <2>3. /\ IsCiting(y) => IsCiting(x) /\ x.cites = y.cites \cap available /\ x.id = y.id
          /\ IsFigure(y) => /\ IsFigure(x) /\ x.cites = y.cites \cap available
                            /\ x.id = y.id /\ x.seen = y.seen
      BY <2>1, CitesKept
    <2>4. IsCiting(x) \/ IsFigure(x)
      BY <2>2, <2>3
    <2>5. x.cites = y.cites \cap available /\ y.id = x.id /\ (IsFigure(y) => x.seen = y.seen)
      BY <2>2, <2>3
    <2>6. StemsFrom(x, items)
      BY <2>5 DEF StemsFrom
    <2>. QED
      BY <1>2, <2>4, <2>5, <2>6
  <1>. QED
    BY <1>2, <1>3 DEF AreItems, kept

\* A diagram that is left is valid and cites the evidence there is.
LEMMA SanitizedDiagram ==
  ASSUME NEW d, IsDiagram(d), NEW available, Assembly!SanitizeDiagram(d, available) # None
  PROVE  LET e == Assembly!SanitizeDiagram(d, available)
         IN /\ Assembly!ValidGraph(e)
            /\ \A x \in Range(e.nodes) \cup Range(e.edges) : x.cites \subseteq available
            /\ Assembly!IdsOf(e.nodes) \subseteq Assembly!IdsOf(d.nodes)
  <1>. DEFINE allNodes == Assembly!Kept(d.nodes, available)
              nodes == Assembly!Those(allNodes, Assembly!Supported)
              Ties(x) == {x.source, x.target} \subseteq Assembly!IdsOf(nodes) /\ Assembly!Supported(x)
              allEdges == Assembly!Kept(d.edges, available)
              edges == Assembly!Those(allEdges, Ties)
              e == Assembly!SanitizeDiagram(d, available)
  <1>1. nodes # <<>> /\ e = [nodes |-> nodes, edges |-> edges]
    BY DEF Assembly!SanitizeDiagram, Assembly!Diagram
  <1>2. /\ IsList(allNodes) /\ IsList(allEdges)
        /\ \A x : x \in Range(allNodes)
             <=> \E y \in Range(d.nodes) : x = [y EXCEPT !.cites = y.cites \cap available]
        /\ \A x : x \in Range(allEdges)
             <=> \E y \in Range(d.edges) : x = [y EXCEPT !.cites = y.cites \cap available]
    BY KeptAre DEF IsDiagram
  <1>. HIDE DEF allNodes, allEdges
  <1>3. \A x : x \in Range(nodes) <=> x \in Range(allNodes) /\ Assembly!Supported(x)
    <2>. DEFINE S == {x \in Range(allNodes) : Assembly!Supported(x)}
    <2>1. nodes = Among(allNodes, S)
      BY AssemblyFilters DEF Assembly!Those
    <2>2. \A x : x \in Range(Among(allNodes, S)) <=> x \in Range(allNodes) /\ x \in S
      BY <1>2, AmongIs
    <2>. HIDE DEF nodes
    <2>. QED
      BY <2>1, <2>2
  <1>. HIDE DEF nodes
  <1>4. \A x : x \in Range(edges) <=> x \in Range(allEdges) /\ Ties(x)
    <2>. DEFINE S == {x \in Range(allEdges) : Ties(x)}
    <2>1. edges = Among(allEdges, S)
      BY AssemblyFilters DEF Assembly!Those
    <2>2. \A x : x \in Range(Among(allEdges, S)) <=> x \in Range(allEdges) /\ x \in S
      BY <1>2, AmongIs
    <2>. HIDE DEF edges, Ties
    <2>. QED
      BY <2>1, <2>2
  <1>. HIDE DEF edges
  <1>5. e.nodes = nodes /\ e.edges = edges
    BY <1>1
  <1>. HIDE DEF e
  <1>6. ASSUME NEW x \in Range(nodes) \cup Range(edges)
        PROVE  x.cites \subseteq available /\ (x.cites # {} \/ x.inferred)
    <2>1. CASE x \in Range(nodes)
      <3>1. PICK y \in Range(d.nodes) : x = [y EXCEPT !.cites = y.cites \cap available]
        BY <1>2, <1>3, <2>1
      <3>2. x.cites = y.cites \cap available
        BY <3>1, CitesKept DEF IsDiagram
      <3>3. Assembly!Supported(x)
        BY <1>3, <2>1
      <3>. QED
        BY <3>2, <3>3 DEF Assembly!Supported
    <2>2. CASE x \in Range(edges)
      <3>1. PICK y \in Range(d.edges) : x = [y EXCEPT !.cites = y.cites \cap available]
        BY <1>2, <1>4, <2>2
      <3>2. x.cites = y.cites \cap available
        BY <3>1, CitesKept DEF IsDiagram
      <3>3. Assembly!Supported(x)
        BY <1>4, <2>2
      <3>. QED
        BY <3>2, <3>3 DEF Assembly!Supported
    <2>. QED
      BY <2>1, <2>2
  <1>7. \A x \in Range(edges) : {x.source, x.target} \subseteq Assembly!IdsOf(nodes)
    BY <1>4
  <1>8. /\ Assembly!Range(e.nodes) = Range(nodes) /\ Assembly!Range(e.edges) = Range(edges)
    BY <1>5, AssemblyFilters
  <1>9. Assembly!ValidGraph(e)
    <2>. HIDE DEF Ties
    <2>. QED
      BY <1>1, <1>5, <1>6, <1>7, <1>8 DEF Assembly!ValidGraph
  <1>10. Assembly!IdsOf(nodes) \subseteq Assembly!IdsOf(d.nodes)
    <2>1. ASSUME NEW x \in Range(nodes) PROVE \E y \in Range(d.nodes) : y.id = x.id
      <3>1. PICK y \in Range(d.nodes) : x = [y EXCEPT !.cites = y.cites \cap available]
        BY <1>2, <1>3
      <3>2. x.id = y.id
        BY <3>1, CitesKept DEF IsDiagram
      <3>. QED
        BY <3>2
    <2>2. /\ Assembly!IdsOf(nodes) = {x.id : x \in Range(nodes)}
          /\ Assembly!IdsOf(d.nodes) = {x.id : x \in Range(d.nodes)}
      BY AssemblyFilters DEF Assembly!IdsOf
    <2>. QED
      BY <2>1, <2>2
  <1>. QED
    BY <1>5, <1>6, <1>9, <1>10 DEF e

LEMMA CutBlock ==
  ASSUME NEW b, DOMAIN b = BlockFields, NEW cites, NEW visual, NEW equations, NEW figures, NEW tables
  PROVE  LET c == [b EXCEPT !.cites = cites, !.visual = visual, !.equations = equations,
                            !.figures = figures, !.tables = tables]
         IN /\ DOMAIN c = BlockFields
            /\ c.id = b.id /\ c.text = b.text /\ c.visual = visual /\ c.archify = b.archify
            /\ c.equations = equations /\ c.figures = figures /\ c.tables = tables
            /\ c.cites = cites /\ c.inferred = b.inferred /\ c.status = b.status
  BY DEF BlockFields

LEMMA JudgedBlock ==
  ASSUME NEW b, DOMAIN b = BlockFields, NEW status, NEW validator
  PROVE  /\ LET c == [b EXCEPT !.status = status, !.validator = validator]
            IN /\ c.id = b.id /\ c.text = b.text /\ c.visual = b.visual /\ c.archify = b.archify
               /\ c.equations = b.equations /\ c.figures = b.figures /\ c.tables = b.tables
               /\ c.cites = b.cites /\ c.inferred = b.inferred /\ c.status = status
         /\ LET c == [b EXCEPT !.validator = validator]
            IN /\ c.id = b.id /\ c.text = b.text /\ c.visual = b.visual /\ c.archify = b.archify
               /\ c.equations = b.equations /\ c.figures = b.figures /\ c.tables = b.tables
               /\ c.cites = b.cites /\ c.inferred = b.inferred /\ c.status = b.status
  BY DEF BlockFields

\* What validation leaves of a block, where it does not look or only drops.
CutFrom(c, b) ==
  /\ c.archify = b.archify
  /\ c.visual # None =>
       /\ b.visual # None
       /\ Assembly!IdsOf(c.visual.nodes) \subseteq Assembly!IdsOf(b.visual.nodes)
  /\ \A f \in Range(c.figures) : StemsFrom(f, b.figures)

\* A validated block is grounded, and shows something if it is ready; its Archify
\* graph and what was read in its figures are what they were.
LEMMA SanitizedBlock ==
  ASSUME NEW D, NEW b, IsBlock(D, b), NEW doc, NEW available, IsList(doc.figures), IsList(doc.tables)
  PROVE  LET c == Assembly!SanitizeBlock(b, doc, available)
         IN /\ Assembly!Grounded(c, doc, available)
            /\ c.id = b.id /\ (Assembly!Ready(c) => Assembly!ShowsSomething(c))
            /\ CutFrom(c, b)
  <1>. DEFINE Figure(f) == f.id \in Assembly!IdsOf(doc.figures)
              Table(t) == t.id \in Assembly!IdsOf(doc.tables)
              cites == b.cites \cap available
              visual == IF b.visual = None THEN None ELSE Assembly!SanitizeDiagram(b.visual, available)
              equations == Assembly!SanitizeEquations(b.equations, available)
              figures == Assembly!Those(Assembly!Kept(b.figures, available), Figure)
              tables == Assembly!Those(Assembly!Kept(b.tables, available), Table)
              c == [b EXCEPT !.cites = cites, !.visual = visual, !.equations = equations,
                             !.figures = figures, !.tables = tables]
              out == Assembly!SanitizeBlock(b, doc, available)
  <1>1. /\ AreItems(equations)
        /\ \A x \in Range(equations) : x.cites \subseteq available /\ x.cites # {}
    <2>. DEFINE kept == Assembly!Kept(b.equations, available)
                S == {x \in Range(kept) : Assembly!Bound(x)}
    <2>1. equations = Among(kept, S)
      BY AssemblyFilters DEF Assembly!SanitizeEquations, Assembly!Those
    <2>2. AreItems(Among(kept, S)) /\ \A x \in Range(Among(kept, S)) : x.cites \subseteq available /\ x \in S
      BY SanitizedItems DEF IsBlock
    <2>3. \A x \in S : x.cites # {}
      BY DEF Assembly!Bound
    <2>. HIDE DEF equations, S, kept
    <2>. QED
      BY <2>1, <2>2, <2>3
  <1>2. /\ AreItems(figures)
        /\ \A x \in Range(figures) :
             /\ x.cites \subseteq available /\ Figure(x)
             /\ StemsFrom(x, b.figures)
    <2>. DEFINE kept == Assembly!Kept(b.figures, available)
                S == {x \in Range(kept) : Figure(x)}
    <2>1. figures = Among(kept, S)
      BY AssemblyFilters DEF Assembly!Those
    <2>3. \A x \in S : Figure(x)
      OBVIOUS
    <2>4. AreItems(b.figures)
      BY DEF IsBlock
    <2>. HIDE DEF S
    <2>2. /\ AreItems(Among(kept, S))
          /\ \A x \in Range(Among(kept, S)) :
               /\ x.cites \subseteq available /\ x \in S
               /\ StemsFrom(x, b.figures)
      BY <2>4, SanitizedItems
    <2>. HIDE DEF figures, S, kept, Figure
    <2>. QED
      BY <2>1, <2>2, <2>3
  <1>3. /\ AreItems(tables)
        /\ \A x \in Range(tables) : x.cites \subseteq available /\ Table(x)
    <2>. DEFINE kept == Assembly!Kept(b.tables, available)
                S == {x \in Range(kept) : Table(x)}
    <2>1. tables = Among(kept, S)
      BY AssemblyFilters DEF Assembly!Those
    <2>2. AreItems(Among(kept, S)) /\ \A x \in Range(Among(kept, S)) : x.cites \subseteq available /\ x \in S
      BY SanitizedItems DEF IsBlock
    <2>3. \A x \in S : Table(x)
      OBVIOUS
    <2>. HIDE DEF tables, S, kept, Table
    <2>. QED
      BY <2>1, <2>2, <2>3
  <1>4. visual # None =>
          /\ Assembly!ValidGraph(visual)
          /\ \A x \in Range(visual.nodes) \cup Range(visual.edges) : x.cites \subseteq available
          /\ b.visual # None
          /\ Assembly!IdsOf(visual.nodes) \subseteq Assembly!IdsOf(b.visual.nodes)
    BY SanitizedDiagram DEF IsBlock
  <1>5. /\ \A f \in Range(figures) : f.id \in Assembly!IdsOf(doc.figures)
        /\ \A f \in Range(tables) : f.id \in Assembly!IdsOf(doc.tables)
    BY <1>2, <1>3
  <1>6. \/ out = [c EXCEPT !.status = "FAILED", !.validator = "REJECTED"]
        \/ /\ ~ (~b.text /\ visual = None /\ <<equations, figures, tables>> = << <<>>, <<>>, <<>> >>)
           /\ \E v : out = [c EXCEPT !.validator = v]
    <2>3. c.visual = visual /\ c.equations = equations /\ c.figures = figures /\ c.tables = tables
      <3>1. DOMAIN b = BlockFields
        BY DEF IsBlock
      <3>. HIDE DEF cites, visual, equations, figures, tables
      <3>. QED
        BY <3>1, CutBlock
    <2>4. out = IF ~b.text /\ c.visual = None
                      /\ <<c.equations, c.figures, c.tables>> = << <<>>, <<>>, <<>> >>
                  THEN [c EXCEPT !.status = "FAILED", !.validator = "REJECTED"]
                ELSE [c EXCEPT !.validator =
                        IF (b.visual # None /\ c.visual = None) \/ (b.cites # {} /\ c.cites = {} /\ ~b.inferred)
                          THEN "PARTIAL" ELSE "PASSED"]
      BY Zenon DEF Assembly!SanitizeBlock
    <2>. HIDE DEF c, out, visual, equations, figures, tables
    <2>. QED
      BY <2>3, <2>4
  <1>. HIDE DEF cites, visual, equations, figures, tables, out
  <1>7. /\ DOMAIN c = BlockFields /\ c.id = b.id /\ c.text = b.text /\ c.visual = visual
        /\ c.archify = b.archify /\ c.equations = equations /\ c.figures = figures
        /\ c.tables = tables /\ c.cites = cites
    <2>1. DOMAIN b = BlockFields
      BY DEF IsBlock
    <2>. QED
      BY <2>1, CutBlock
  <1>. HIDE DEF c
  <1>8. /\ out.id = b.id /\ out.text = b.text /\ out.visual = visual /\ out.archify = b.archify
        /\ out.equations = equations /\ out.figures = figures /\ out.tables = tables /\ out.cites = cites
        /\ out.status = "READY" =>
             ~ (~b.text /\ visual = None /\ <<equations, figures, tables>> = << <<>>, <<>>, <<>> >>)
    <2>1. CASE out = [c EXCEPT !.status = "FAILED", !.validator = "REJECTED"]
      <3>1. /\ out.id = c.id /\ out.text = c.text /\ out.visual = c.visual /\ out.archify = c.archify
            /\ out.equations = c.equations /\ out.figures = c.figures /\ out.tables = c.tables
            /\ out.cites = c.cites /\ out.status = "FAILED"
        BY <1>7, <2>1, JudgedBlock
      <3>. QED
        BY <1>7, <3>1
    <2>2. ASSUME NEW v, out = [c EXCEPT !.validator = v]
          PROVE  /\ out.id = b.id /\ out.text = b.text /\ out.visual = visual /\ out.archify = b.archify
                 /\ out.equations = equations /\ out.figures = figures /\ out.tables = tables
                 /\ out.cites = cites
      <3>1. /\ out.id = c.id /\ out.text = c.text /\ out.visual = c.visual /\ out.archify = c.archify
            /\ out.equations = c.equations /\ out.figures = c.figures /\ out.tables = c.tables
            /\ out.cites = c.cites
        BY <1>7, <2>2, JudgedBlock
      <3>. QED
        BY <1>7, <3>1
    <2>. QED
      BY <1>6, <2>1, <2>2
  <1>9. Assembly!Ready(out) => Assembly!ShowsSomething(out)
    BY <1>8 DEF Assembly!Ready, Assembly!ShowsSomething
  <1>10. \A s : Assembly!Cited(s) = UNION {x.cites : x \in Range(s)}
    BY AssemblyFilters DEF Assembly!Cited
  <1>11. Assembly!Cites(out) \subseteq available
    <2>1. cites \subseteq available
      BY DEF cites
    <2>2. /\ Assembly!Cited(equations) \subseteq available /\ Assembly!Cited(figures) \subseteq available
          /\ Assembly!Cited(tables) \subseteq available
      BY <1>1, <1>2, <1>3, <1>10
    <2>3. visual # None => Assembly!Cited(visual.nodes) \subseteq available
                           /\ Assembly!Cited(visual.edges) \subseteq available
      BY <1>4, <1>10
    <2>. QED
      BY <1>8, <2>1, <2>2, <2>3 DEF Assembly!Cites
  <1>12. /\ \A e \in Assembly!Range(out.equations) : e.cites # {}
         /\ Assembly!IdsOf(out.figures) \subseteq Assembly!IdsOf(doc.figures)
         /\ Assembly!IdsOf(out.tables) \subseteq Assembly!IdsOf(doc.tables)
    <2>1. /\ Assembly!IdsOf(figures) = {x.id : x \in Range(figures)}
          /\ Assembly!IdsOf(tables) = {x.id : x \in Range(tables)}
          /\ Assembly!Range(equations) = Range(equations)
      BY AssemblyFilters DEF Assembly!IdsOf
    <2>. QED
      BY <1>1, <1>5, <1>8, <2>1
  <1>14. Assembly!Grounded(out, doc, available)
    BY <1>4, <1>8, <1>11, <1>12 DEF Assembly!Grounded
  <1>15. CutFrom(out, b)
    BY <1>2, <1>4, <1>8 DEF CutFrom
  <1>. QED
    BY <1>8, <1>9, <1>14, <1>15 DEF out

\* An Archify graph keeps what the diagram was, and cites what it cited.
LEMMA ArrangedBlock ==
  ASSUME NEW a, NEW b, IsBlock(Assembly!DrawnOn(a), b), NEW c, CutFrom(c, b)
  PROVE  Assembly!Arranged(c, a)
  <1>1. SUFFICES ASSUME c.archify # None
                 PROVE  /\ Assembly!IsInjective(c.archify.column)
                        /\ Assembly!ValidGraph(c.archify.graph)
                        /\ c.archify.cites \subseteq Assembly!DrawnOn(a)
                        /\ c.visual # None => Assembly!IdsOf(c.visual.nodes)
                                               \subseteq Assembly!IdsOf(c.archify.graph.nodes)
    BY DEF Assembly!Arranged
  <1>2. /\ IsInjective(b.archify.column) /\ b.archify.graph = b.visual
        /\ Assembly!ValidGraph(b.visual) /\ b.archify.cites \subseteq Assembly!DrawnOn(a)
    <2>1. b.archify # None
      BY <1>1 DEF CutFrom
    <2>. QED
      BY <2>1 DEF IsBlock, IsArchify
  <1>3. c.archify = b.archify /\ (c.visual # None => Assembly!IdsOf(c.visual.nodes)
                                                        \subseteq Assembly!IdsOf(b.visual.nodes))
    BY DEF CutFrom
  <1>4. Assembly!IsInjective(c.archify.column)
    BY <1>2, <1>3, AssemblyFilters
  <1>. QED
    BY <1>2, <1>3, <1>4

LEMMA Empties ==
  /\ IsList(<<>>) /\ Range(<<>>) = {} /\ Len(<<>>) = 0 /\ DOMAIN <<>> = {}
  /\ AreItems(<<>>)
  <1>1. Range(<<>>) = {}
    BY DEF Range
  <1>2. IsList(<<>>)
    BY DEF IsList
  <1>. QED
    BY <1>1, <1>2 DEF AreItems

\* A figure that is shown has what was read in it, if that is a visual analysis.
LEMMA RereadFigure ==
  ASSUME NEW doc, NEW g \in Range(doc.figures), g.visual # None => Assembly!IsVisual(g.visual),
         NEW f, f.id = g.id, f.seen = Assembly!Analysed(g.visual)
  PROVE  Assembly!Reread(f, doc)
  <1>. DEFINE v == g.visual
              made == Assembly!Reconstructed(v)
  <1>0. \A s : Assembly!Range(s) = Range(s)
    BY AssemblyFilters
  <1>1. ASSUME v # None, made # None
        PROVE  /\ Assembly!ValidGraph(made)
               /\ Assembly!DrawnFrom(made) \subseteq Assembly!ReadIn(v)
    <2>. DEFINE node(i) == [id |-> i, cites |-> Assembly!CitedIn(v, v.nodes[i]), inferred |-> TRUE]
                edge(i) == [source |-> v.relations[i].source, target |-> v.relations[i].target,
                            cites |-> Assembly!CitedIn(v, v.relations[i]), inferred |-> TRUE]
                nodes == [i \in DOMAIN v.nodes |-> node(i)]
                edges == [i \in DOMAIN v.relations |-> edge(i)]
    <2>1. /\ ~ (Len(v.nodes) < 2) /\ made = [nodes |-> nodes, edges |-> edges]
      BY <1>1 DEF Assembly!Reconstructed, Assembly!Diagram
    <2>2. /\ IsList(v.nodes) /\ IsList(v.relations)
          /\ \A x \in Range(v.relations) : {x.source, x.target} \subseteq DOMAIN v.nodes
      BY <1>0, <1>1 DEF Assembly!IsVisual, IsList
    <2>3. /\ Len(v.nodes) \in Nat /\ DOMAIN v.nodes = 1 .. Len(v.nodes)
          /\ \A i \in DOMAIN v.nodes : v.nodes[i] \in Range(v.nodes)
          /\ \A i \in DOMAIN v.relations : v.relations[i] \in Range(v.relations)
      BY <2>2, Lists DEF IsList
    <2>. HIDE DEF made
    <2>4. /\ made.nodes = nodes /\ made.edges = edges
      BY <2>1
    <2>5. /\ \A i \in DOMAIN v.nodes : /\ node(i).id = i /\ node(i).inferred
                                       /\ node(i).cites = Assembly!CitedIn(v, v.nodes[i])
          /\ \A i \in DOMAIN v.relations :
               /\ edge(i).source = v.relations[i].source /\ edge(i).target = v.relations[i].target
               /\ edge(i).cites = Assembly!CitedIn(v, v.relations[i]) /\ edge(i).inferred
      OBVIOUS
    <2>. HIDE DEF node, edge
    <2>6. /\ Range(nodes) = {node(i) : i \in DOMAIN v.nodes}
          /\ Range(edges) = {edge(i) : i \in DOMAIN v.relations}
      BY DEF Range
    <2>7. nodes # <<>>
      <3>1. 1 \in DOMAIN nodes
        BY <2>1, <2>3
      <3>. HIDE DEF nodes
      <3>. QED
        BY <3>1, Empties
    <2>. HIDE DEF nodes, edges
    <2>8. Assembly!IdsOf(nodes) = DOMAIN v.nodes
      <3>1. Assembly!IdsOf(nodes) = {x.id : x \in Range(nodes)}
        BY <1>0 DEF Assembly!IdsOf
      <3>. QED
        BY <2>5, <2>6, <3>1
    <2>9. Assembly!ValidGraph(made)
      <3>1. \A x \in Range(nodes) \cup Range(edges) : x.cites # {} \/ x.inferred
        BY <2>5, <2>6
      <3>2. \A x \in Range(edges) : {x.source, x.target} \subseteq Assembly!IdsOf(nodes)
        BY <2>2, <2>3, <2>5, <2>6, <2>8
      <3>. QED
        BY <1>0, <2>4, <2>7, <3>1, <3>2 DEF Assembly!ValidGraph
    <2>10. /\ \A s : Assembly!Cited(s) = UNION {x.cites : x \in Range(s)}
      BY <1>0 DEF Assembly!Cited
    <2>11. \A x : Assembly!CitedIn(v, x) \subseteq v.cites \cup x.cites
      BY DEF Assembly!CitedIn
    <2>12. /\ \A i \in DOMAIN v.nodes : node(i).cites \subseteq v.cites \cup Assembly!Cited(v.nodes)
           /\ \A i \in DOMAIN v.relations : edge(i).cites \subseteq v.cites \cup Assembly!Cited(v.relations)
      BY <2>3, <2>5, <2>10, <2>11
    <2>13. Assembly!Cited(nodes) \cup Assembly!Cited(edges) \subseteq Assembly!ReadIn(v)
      BY <1>1, <2>6, <2>10, <2>12 DEF Assembly!ReadIn
    <2>. QED
      BY <1>1, <2>4, <2>9, <2>13 DEF Assembly!DrawnFrom
  <1>2. Assembly!DrawnFrom(made) = {} \/ made # None
    BY DEF Assembly!DrawnFrom
  <1>3. /\ Assembly!SeenIn(f) \subseteq Assembly!ReadIn(v)
        /\ f.seen # None => f.seen.diagram = None \/ Assembly!ValidGraph(f.seen.diagram)
    <2>1. CASE f.seen = None
      BY <2>1 DEF Assembly!SeenIn
    <2>2. CASE f.seen # None
      <3>1. v # None /\ f.seen = [cites |-> v.cites, diagram |-> made]
        BY <2>2 DEF Assembly!Analysed
      <3>. HIDE DEF made, v
      <3>2. Assembly!SeenIn(f) = v.cites \cup Assembly!DrawnFrom(made) /\ f.seen.diagram = made
        BY <2>2, <3>1 DEF Assembly!SeenIn
      <3>3. v.cites \subseteq Assembly!ReadIn(v)
        BY <3>1 DEF Assembly!ReadIn
      <3>. QED
        BY <1>1, <1>2, <3>1, <3>2, <3>3
    <2>. QED
      BY <2>1, <2>2
  <1>. QED
    BY <1>0, <1>3 DEF Assembly!Reread

---------------------------------------------------------------------------
(* The interactive paper: what the assembler makes. *)

LEMMA Singles ==
  ASSUME NEW x
  PROVE  IsList(<<x>>) /\ Range(<<x>>) = {x} /\ Len(<<x>>) = 1
  <1>1. <<x>> \in Seq({x}) /\ Len(<<x>>) = 1
    OBVIOUS
  <1>2. IsList(<<x>>) /\ Range(<<x>>) = {<<x>>[i] : i \in 1 .. Len(<<x>>)}
    BY <1>1, Lists
  <1>3. \A i \in 1 .. 1 : <<x>>[i] = x
    OBVIOUS
  <1>. QED
    BY <1>1, <1>2, <1>3

LEMMA JoinedLists ==
  ASSUME NEW s, NEW t, IsList(s), IsList(t)
  PROVE  IsList(s \o t) /\ Range(s \o t) = Range(s) \cup Range(t) /\ Len(s \o t) = Len(s) + Len(t)
  <1>. DEFINE S == Range(s) \cup Range(t)
              u == s \o t
  <1>1. s \in Seq(S) /\ t \in Seq(S)
    <2>1. s \in Seq(Range(s)) /\ t \in Seq(Range(t))
      BY DEF IsList
    <2>. HIDE DEF S
    <2>2. Range(s) \subseteq S /\ Range(t) \subseteq S
      BY DEF S
    <2>. QED
      BY <2>1, <2>2
  <1>2. /\ Range(s) = {s[i] : i \in 1 .. Len(s)} /\ Range(t) = {t[i] : i \in 1 .. Len(t)}
        /\ Len(s) \in Nat /\ Len(t) \in Nat
    BY Lists DEF IsList
  <1>. HIDE DEF S
  <1>3. /\ u \in Seq(S) /\ Len(u) = Len(s) + Len(t)
        /\ \A i \in 1 .. Len(s) + Len(t) : u[i] = IF i <= Len(s) THEN s[i] ELSE t[i - Len(s)]
    BY <1>1, ConcatProperties
  <1>. HIDE DEF u
  <1>4. IsList(u) /\ Range(u) = {u[i] : i \in 1 .. Len(u)}
    BY <1>3, Lists
  <1>5. ASSUME NEW i \in 1 .. Len(u) PROVE u[i] \in Range(s) \cup Range(t)
    <2>1. CASE i <= Len(s)
      BY <1>2, <1>3, <2>1
    <2>2. CASE ~ (i <= Len(s))
      <3>1. i - Len(s) \in 1 .. Len(t)
        BY <1>2, <1>3, <2>2
      <3>. QED
        BY <1>2, <1>3, <2>2, <3>1
    <2>. QED
      BY <2>1, <2>2
  <1>6. ASSUME NEW i \in 1 .. Len(s) PROVE s[i] \in Range(u)
    <2>1. i \in 1 .. Len(u) /\ u[i] = s[i]
      BY <1>2, <1>3
    <2>. QED
      BY <1>4, <2>1
  <1>7. ASSUME NEW i \in 1 .. Len(t) PROVE t[i] \in Range(u)
    <2>1. i + Len(s) \in 1 .. Len(u) /\ ~ (i + Len(s) <= Len(s)) /\ (i + Len(s)) - Len(s) = i
      BY <1>2, <1>3
    <2>2. u[i + Len(s)] = t[i]
      BY <1>3, <2>1
    <2>. QED
      BY <1>4, <2>1, <2>2
  <1>8. Range(u) = Range(s) \cup Range(t)
    BY <1>2, <1>4, <1>5, <1>6, <1>7
  <1>. QED
    BY <1>3, <1>4, <1>8 DEF u

LEMMA PrefixIs ==
  ASSUME NEW s, IsList(s), NEW n \in Nat, NEW p, p = Assembly!Prefix(s, n)
  PROVE  /\ IsList(p)
         /\ Len(s) <= n => Len(p) = Len(s)
         /\ n <= Len(s) => Len(p) = n
         /\ \A i \in 1 .. Len(p) : i \in 1 .. Len(s) /\ p[i] = s[i]
         /\ Range(p) = {s[i] : i \in 1 .. Len(p)}
         /\ OwnIds(s) => OwnIds(p)
  <1>. DEFINE m == IF Len(s) < n THEN Len(s) ELSE n
  <1>1. Len(s) \in Nat /\ \A i \in 1 .. Len(s) : s[i] \in Range(s)
    BY Lists DEF IsList
  <1>2. m \in Nat /\ m <= Len(s)
    BY <1>1
  <1>3. p = SubSeq(s, 1, m)
    BY DEF Assembly!Prefix
  <1>. HIDE DEF m
  <1>4. p \in Seq(Range(s)) /\ Len(p) = m /\ \A i \in 1 .. m : p[i] = s[i]
    <2>1. \A i \in 1 .. m : s[i] \in Range(s)
      BY <1>1, <1>2
    <2>2. /\ SubSeq(s, 1, m) \in Seq(Range(s))
          /\ Len(SubSeq(s, 1, m)) = IF 1 <= m THEN m - 1 + 1 ELSE 0
          /\ \A i \in 1 .. m - 1 + 1 : SubSeq(s, 1, m)[i] = s[1 + i - 1]
      BY <1>2, <2>1, SubSeqProperties
    <2>3. m - 1 + 1 = m /\ (~ (1 <= m) => m = 0) /\ \A i \in 1 .. m : 1 + i - 1 = i
      BY <1>2
    <2>. QED
      BY <1>3, <2>2, <2>3
  <1>5. IsList(p) /\ Range(p) = {p[i] : i \in 1 .. Len(p)}
    BY <1>4, Lists
  <1>6. \A i \in 1 .. m : i \in 1 .. Len(s)
    BY <1>1, <1>2
  <1>7. OwnIds(s) => OwnIds(p)
    BY <1>4, <1>6 DEF OwnIds
  <1>8. Range(p) = {s[i] : i \in 1 .. Len(p)}
    BY <1>4, <1>5
  <1>9. \A i \in 1 .. Len(p) : i \in 1 .. Len(s) /\ p[i] = s[i]
    BY <1>4, <1>6
  <1>10. /\ Len(s) <= n => Len(p) = Len(s)
         /\ n <= Len(s) => Len(p) = n
    BY <1>1, <1>4 DEF m
  <1>. QED
    BY <1>5, <1>7, <1>8, <1>9, <1>10

\* Bindings and explanations have the ids of what they bind.
LEMMA Binds ==
  ASSUME NEW s, IsList(s)
  PROVE  LET b == Assembly!Bindings(s)
         IN /\ b = Assembly!Explained(s)
            /\ AreItems(b) /\ DOMAIN b = 1 .. Len(s) /\ Len(b) = Len(s) /\ Len(s) \in Nat
            /\ \A i \in 1 .. Len(s) : b[i].id = s[i].id
            /\ Assembly!IdsOf(b) = {s[i].id : i \in 1 .. Len(s)}
            /\ Assembly!IdsOf(s) = {s[i].id : i \in 1 .. Len(s)}
  <1>. DEFINE b == Assembly!Bindings(s)
              bind(i) == [id |-> s[i].id, cites |-> s[i].cites]
  <1>1. Len(s) \in Nat /\ DOMAIN s = 1 .. Len(s) /\ Range(s) = {s[i] : i \in 1 .. Len(s)}
    BY Lists DEF IsList
  <1>2. b = [i \in 1 .. Len(s) |-> bind(i)] /\ b = Assembly!Explained(s)
    BY <1>1 DEF Assembly!Bindings, Assembly!Binding, Assembly!Explained
  <1>. HIDE DEF b
  <1>3. \A i \in 1 .. Len(s) : b[i] = bind(i) /\ b[i].id = s[i].id /\ IsCiting(b[i])
    BY <1>2 DEF IsCiting
  <1>4. b \in Seq({bind(i) : i \in 1 .. Len(s)}) /\ Len(b) = Len(s)
    <2>. HIDE DEF bind
    <2>1. b \in [1 .. Len(s) -> {bind(i) : i \in 1 .. Len(s)}]
      BY <1>2
    <2>. QED
      BY <1>1, <2>1
  <1>. HIDE DEF bind
  <1>5. IsList(b) /\ DOMAIN b = 1 .. Len(s) /\ Range(b) = {b[i] : i \in 1 .. Len(s)}
    BY <1>4, Lists
  <1>6. AreItems(b)
    BY <1>3, <1>5 DEF AreItems
  <1>7. Assembly!IdsOf(b) = {s[i].id : i \in 1 .. Len(s)} /\ Assembly!IdsOf(s) = {s[i].id : i \in 1 .. Len(s)}
    <2>1. Assembly!IdsOf(b) = {x.id : x \in Range(b)} /\ Assembly!IdsOf(s) = {x.id : x \in Range(s)}
      BY AssemblyFilters DEF Assembly!IdsOf
    <2>2. \A i \in 1 .. Len(s) : b[i].id = s[i].id
      BY <1>3
    <2>. QED
      BY <1>1, <1>5, <2>1, <2>2
  <1>. QED
    BY <1>1, <1>2, <1>3, <1>4, <1>5, <1>6, <1>7 DEF b

\* Figures are bound with what was read in them.
LEMMA FigureBinds ==
  ASSUME NEW s, IsList(s)
  PROVE  LET b == Assembly!FigureBindings(s)
         IN /\ AreItems(b) /\ DOMAIN b = 1 .. Len(s) /\ Len(b) = Len(s) /\ Len(s) \in Nat
            /\ \A i \in 1 .. Len(s) : b[i].id = s[i].id
            /\ Assembly!IdsOf(b) = {s[i].id : i \in 1 .. Len(s)}
            /\ Assembly!IdsOf(s) = {s[i].id : i \in 1 .. Len(s)}
            /\ \A x \in Range(b) : IsFigure(x) /\ \E g \in Range(s) : IsBound(x, g)
  <1>. DEFINE b == Assembly!FigureBindings(s)
              bind(i) == Assembly!FigureBinding(s[i])
  <1>1. Len(s) \in Nat /\ DOMAIN s = 1 .. Len(s) /\ Range(s) = {s[i] : i \in 1 .. Len(s)}
    BY Lists DEF IsList
  <1>2. b = [i \in 1 .. Len(s) |-> bind(i)]
    BY <1>1 DEF Assembly!FigureBindings
  <1>3. \A g : LET x == Assembly!FigureBinding(g) IN IsFigure(x) /\ IsBound(x, g) /\ x.id = g.id
    BY DEF Assembly!FigureBinding, IsFigure, IsBound
  <1>. HIDE DEF b
  <1>4. b \in Seq({bind(i) : i \in 1 .. Len(s)}) /\ Len(b) = Len(s)
    <2>. HIDE DEF bind
    <2>1. b \in [1 .. Len(s) -> {bind(i) : i \in 1 .. Len(s)}]
      BY <1>2
    <2>. QED
      BY <1>1, <2>1
  <1>5. \A i \in 1 .. Len(s) : IsFigure(bind(i)) /\ IsBound(bind(i), s[i]) /\ bind(i).id = s[i].id
    BY <1>3
  <1>. HIDE DEF bind
  <1>6. IsList(b) /\ DOMAIN b = 1 .. Len(s) /\ Range(b) = {b[i] : i \in 1 .. Len(s)}
    BY <1>4, Lists
  <1>7. \A i \in 1 .. Len(s) : b[i] = bind(i)
    BY <1>2
  <1>8. \A x \in Range(b) : IsFigure(x) /\ \E g \in Range(s) : IsBound(x, g)
    BY <1>1, <1>5, <1>6, <1>7
  <1>9. AreItems(b)
    BY <1>6, <1>8 DEF AreItems
  <1>10. Assembly!IdsOf(b) = {s[i].id : i \in 1 .. Len(s)} /\ Assembly!IdsOf(s) = {s[i].id : i \in 1 .. Len(s)}
    <2>1. Assembly!IdsOf(b) = {x.id : x \in Range(b)} /\ Assembly!IdsOf(s) = {x.id : x \in Range(s)}
      BY AssemblyFilters DEF Assembly!IdsOf
    <2>2. \A i \in 1 .. Len(s) : b[i].id = s[i].id
      BY <1>5, <1>7
    <2>. QED
      BY <1>1, <1>6, <2>1, <2>2
  <1>. QED
    BY <1>1, <1>4, <1>5, <1>6, <1>7, <1>8, <1>9, <1>10 DEF b

\* What a block carries.
Carries(b, visual, archify, equations, figures, tables) ==
  /\ DOMAIN b = BlockFields
  /\ b.visual = visual /\ b.archify = archify
  /\ b.equations = equations /\ b.figures = figures /\ b.tables = tables

LEMMA NewBlock ==
  ASSUME NEW id, NEW cites
  PROVE  Carries(Assembly!Block(id, cites), None, None, <<>>, <<>>, <<>>)
  BY DEF Carries, Assembly!Block, BlockFields

LEMMA Filled ==
  ASSUME NEW b, Carries(b, None, None, <<>>, <<>>, <<>>), NEW inferred, NEW visual, NEW archify,
         NEW equations, NEW figures, NEW tables, NEW status, NEW validator
  PROVE  /\ Carries([b EXCEPT !.text = TRUE], None, None, <<>>, <<>>, <<>>)
         /\ Carries([b EXCEPT !.text = TRUE, !.inferred = inferred], None, None, <<>>, <<>>, <<>>)
         /\ Carries([b EXCEPT !.text = TRUE, !.visual = visual, !.archify = archify, !.inferred = inferred,
                              !.equations = equations, !.figures = figures],
                    visual, archify, equations, figures, <<>>)
         /\ Carries([b EXCEPT !.text = TRUE, !.equations = equations], None, None, equations, <<>>, <<>>)
         /\ Carries([b EXCEPT !.equations = equations], None, None, equations, <<>>, <<>>)
         /\ Carries([b EXCEPT !.status = status, !.validator = validator], None, None, <<>>, <<>>, <<>>)
         /\ Carries([b EXCEPT !.text = TRUE, !.inferred = inferred, !.visual = visual, !.archify = archify,
                              !.tables = tables],
                    visual, archify, <<>>, <<>>, tables)
         /\ Carries([b EXCEPT !.text = TRUE, !.inferred = inferred, !.tables = tables],
                    None, None, <<>>, <<>>, tables)
         /\ Carries([b EXCEPT !.text = TRUE, !.tables = tables], None, None, <<>>, <<>>, tables)
         /\ Carries([b EXCEPT !.text = TRUE, !.figures = figures], None, None, <<>>, figures, <<>>)
  <1>1. Carries([b EXCEPT !.text = TRUE], None, None, <<>>, <<>>, <<>>)
    BY DEF Carries, BlockFields
  <1>2. Carries([b EXCEPT !.text = TRUE, !.inferred = inferred], None, None, <<>>, <<>>, <<>>)
    BY DEF Carries, BlockFields
  <1>3. Carries([b EXCEPT !.text = TRUE, !.visual = visual, !.archify = archify, !.inferred = inferred,
                          !.equations = equations, !.figures = figures],
                visual, archify, equations, figures, <<>>)
    BY DEF Carries, BlockFields
  <1>4. /\ Carries([b EXCEPT !.text = TRUE, !.equations = equations], None, None, equations, <<>>, <<>>)
        /\ Carries([b EXCEPT !.equations = equations], None, None, equations, <<>>, <<>>)
    BY DEF Carries, BlockFields
  <1>5. Carries([b EXCEPT !.status = status, !.validator = validator], None, None, <<>>, <<>>, <<>>)
    BY DEF Carries, BlockFields
  <1>6. Carries([b EXCEPT !.text = TRUE, !.inferred = inferred, !.visual = visual, !.archify = archify,
                          !.tables = tables],
                visual, archify, <<>>, <<>>, tables)
    BY DEF Carries, BlockFields
  <1>7. Carries([b EXCEPT !.text = TRUE, !.inferred = inferred, !.tables = tables],
                None, None, <<>>, <<>>, tables)
    BY DEF Carries, BlockFields
  <1>8. /\ Carries([b EXCEPT !.text = TRUE, !.tables = tables], None, None, <<>>, <<>>, tables)
        /\ Carries([b EXCEPT !.text = TRUE, !.figures = figures], None, None, <<>>, figures, <<>>)
    BY DEF Carries, BlockFields
  <1>. QED
    BY <1>1, <1>2, <1>3, <1>4, <1>5, <1>6, <1>7, <1>8

\* No block, or one that shows these items, its diagrams drawn from D.
IsPiece(D, s, equations, figures, tables) ==
  \/ s = <<>>
  \/ \E b : /\ s = <<b>> /\ IsBlock(D, b)
            /\ b.equations = equations /\ b.figures = figures /\ b.tables = tables

LEMMA PlainPiece ==
  ASSUME NEW D, NEW b, NEW equations, NEW figures, NEW tables,
         Carries(b, None, None, equations, figures, tables),
         AreItems(equations), AreItems(figures), AreItems(tables)
  PROVE  IsPiece(D, <<b>>, equations, figures, tables)
  BY DEF IsPiece, Carries, IsBlock

LEMMA ClaimPieces ==
  ASSUME NEW D, NEW id, NEW claims
  PROVE  IsPiece(D, Assembly!ClaimBlocks(id, claims), <<>>, <<>>, <<>>)
  <1>1. IsPiece(D, <<[Assembly!Block(id, Assembly!Cited(claims)) EXCEPT
                     !.text = TRUE, !.inferred = Assembly!SomeInferred(claims)]>>, <<>>, <<>>, <<>>)
    BY NewBlock, Filled, PlainPiece, Empties
  <1>2. IsPiece(D, <<>>, <<>>, <<>>, <<>>)
    BY DEF IsPiece
  <1>. QED
    BY <1>1, <1>2 DEF Assembly!ClaimBlocks

LEMMA OverviewPiece ==
  ASSUME NEW D, NEW doc, NEW a
  PROVE  IsPiece(D, Assembly!OverviewBlocks(doc, a), <<>>, <<>>, <<>>)
  <1>1. IsPiece(D, <<[Assembly!Block("overview", doc.opening \cup Assembly!Cited(a.contributions)) EXCEPT
                     !.text = TRUE]>>, <<>>, <<>>, <<>>)
    BY NewBlock, Filled, PlainPiece, Empties
  <1>2. IsPiece(D, <<>>, <<>>, <<>>, <<>>)
    BY DEF IsPiece
  <1>. QED
    BY <1>1, <1>2 DEF Assembly!OverviewBlocks

LEMMA TablePieces ==
  ASSUME NEW D, NEW tables, IsList(tables)
  PROVE  IsPiece(D, Assembly!TableBlocks(tables), <<>>, <<>>, Assembly!Bindings(tables))
  <1>. DEFINE shown == Assembly!Bindings(tables)
  <1>1. AreItems(shown)
    BY Binds
  <1>. HIDE DEF shown
  <1>2. IsPiece(D, <<[Assembly!Block("tables", Assembly!Cited(tables)) EXCEPT
                     !.text = TRUE, !.tables = shown]>>, <<>>, <<>>, shown)
    BY <1>1, NewBlock, Filled, PlainPiece, Empties
  <1>3. IsPiece(D, <<>>, <<>>, <<>>, shown)
    BY DEF IsPiece
  <1>. QED
    BY <1>2, <1>3, Zenon DEF Assembly!TableBlocks, shown

LEMMA FigurePieces ==
  ASSUME NEW D, NEW figures, IsList(figures)
  PROVE  IsPiece(D, Assembly!FigureBlocks(figures), <<>>, Assembly!FigureBindings(figures), <<>>)
  <1>. DEFINE shown == Assembly!FigureBindings(figures)
  <1>1. AreItems(shown)
    BY FigureBinds
  <1>. HIDE DEF shown
  <1>2. IsPiece(D, <<[Assembly!Block("figures", Assembly!Cited(figures)) EXCEPT
                     !.text = TRUE, !.figures = shown]>>, <<>>, shown, <<>>)
    BY <1>1, NewBlock, Filled, PlainPiece, Empties
  <1>3. IsPiece(D, <<>>, <<>>, shown, <<>>)
    BY DEF IsPiece
  <1>. QED
    BY <1>2, <1>3, Zenon DEF Assembly!FigureBlocks, shown

\* A function on the places of a list is a list.
LEMMA Mapped ==
  ASSUME NEW n \in Nat, NEW s, s = [i \in 1 .. n |-> s[i]]
  PROVE  IsList(s) /\ Len(s) = n /\ DOMAIN s = 1 .. n /\ Range(s) = {s[i] : i \in 1 .. n}
  <1>. DEFINE X == {s[i] : i \in 1 .. n}
  <1>1. s \in [1 .. n -> X]
    OBVIOUS
  <1>2. s \in Seq(X) /\ Len(s) = n
    <2>. HIDE DEF X
    <2>. QED
      BY <1>1
  <1>. HIDE DEF X
  <1>3. IsList(s) /\ DOMAIN s = 1 .. Len(s) /\ Range(s) = {s[i] : i \in 1 .. Len(s)}
    BY <1>2, Lists
  <1>. QED
    BY <1>2, <1>3

LEMMA RowEdges ==
  ASSUME NEW nodes, IsList(nodes), nodes # <<>>
  PROVE  LET edges == Assembly!Sequential(nodes)
         IN IsList(edges) /\ \A x \in Range(edges) : IsEdge(x) /\ x.cites = {}
  <1>. DEFINE edges == Assembly!Sequential(nodes)
              m == Len(nodes) - 1
              edge(i) == [source |-> nodes[i].id, target |-> nodes[i + 1].id, cites |-> {}, inferred |-> TRUE]
  <1>1. m \in Nat
    <2>1. nodes \in Seq(Range(nodes)) /\ nodes # <<>>
      BY DEF IsList
    <2>2. Len(nodes) \in Nat /\ Len(nodes) # 0
      BY <2>1, EmptySeq
    <2>. QED
      BY <2>2
  <1>2. edges = [i \in 1 .. m |-> edge(i)]
    BY DEF Assembly!Sequential
  <1>3. \A i \in 1 .. m : IsEdge(edge(i)) /\ edge(i).cites = {}
    BY DEF IsEdge
  <1>. HIDE DEF edges, m, edge
  <1>4. edges = [i \in 1 .. m |-> edges[i]]
    BY <1>2
  <1>5. IsList(edges) /\ Range(edges) = {edges[i] : i \in 1 .. m}
    BY <1>1, <1>4, Mapped
  <1>6. \A i \in 1 .. m : edges[i] = edge(i)
    BY <1>2
  <1>7. \A x \in Range(edges) : IsEdge(x) /\ x.cites = {}
    BY <1>3, <1>5, <1>6
  <1>. QED
    BY <1>5, <1>7 DEF edges

LEMMA Diagrams ==
  ASSUME NEW nodes, NEW edges, IsList(nodes), IsList(edges),
         \A x \in Range(nodes) : IsNode(x), \A x \in Range(edges) : IsEdge(x)
  PROVE  LET d == Assembly!Diagram(nodes, edges)
         IN /\ IsDiagram(d)
            /\ Assembly!Archify(d) # None => IsArchify(Assembly!Archify(d), d)
  <1>. DEFINE d == Assembly!Diagram(nodes, edges)
              place(i) == IF i < Assembly!WorkflowColumns THEN i ELSE Assembly!WorkflowColumns
              column == [i \in DOMAIN nodes |-> place(i)]
  <1>1. d = [nodes |-> nodes, edges |-> edges]
    BY DEF Assembly!Diagram
  <1>. HIDE DEF d
  <1>2. d.nodes = nodes /\ d.edges = edges /\ d = [nodes |-> d.nodes, edges |-> d.edges]
    BY <1>1
  <1>3. IsDiagram(d)
    BY <1>2 DEF IsDiagram
  <1>4. ASSUME Assembly!Archify(d) # None PROVE IsArchify(Assembly!Archify(d), d)
    <2>. DEFINE cites == Assembly!Cited(d.nodes) \cup Assembly!Cited(d.edges)
                made == Assembly!Archify(d)
    <2>1. /\ made = [column |-> column, graph |-> d, cites |-> cites]
          /\ ~ (Len(nodes) > Assembly!WorkflowColumns) /\ Assembly!ValidGraph(d)
      BY <1>2, <1>4 DEF Assembly!Archify
    <2>2. Len(nodes) \in Nat /\ DOMAIN nodes = 1 .. Len(nodes)
      BY Lists DEF IsList
    <2>3. \A i \in DOMAIN nodes : place(i) = i
      BY <2>1, <2>2 DEF Assembly!WorkflowColumns
    <2>. HIDE DEF place
    <2>4. DOMAIN column = DOMAIN nodes /\ \A i \in DOMAIN nodes : column[i] = i
      BY <2>3
    <2>. HIDE DEF column
    <2>5. IsInjective(column)
      BY <2>4 DEF IsInjective
    <2>. HIDE DEF made, cites
    <2>6. made.column = column /\ made.graph = d /\ made.cites = cites
      BY <2>1
    <2>. QED
      BY <2>1, <2>5, <2>6 DEF IsArchify, made, cites
  <1>. QED
    BY <1>3, <1>4 DEF d

\* A block with a diagram.
LEMMA DrawnPiece ==
  ASSUME NEW D, NEW b, NEW nodes, NEW edges, NEW equations, NEW figures, NEW tables, NEW visual, NEW archify,
         Carries(b, visual, archify, equations, figures, tables),
         \/ visual = None /\ archify = None
         \/ /\ visual = Assembly!Diagram(nodes, edges)
            /\ archify = Assembly!Archify(Assembly!Diagram(nodes, edges)),
         IsList(nodes), IsList(edges),
         \A x \in Range(nodes) : IsNode(x) /\ x.cites \subseteq D,
         \A x \in Range(edges) : IsEdge(x) /\ x.cites \subseteq D,
         AreItems(equations), AreItems(figures), AreItems(tables)
  PROVE  IsPiece(D, <<b>>, equations, figures, tables)
  <1>. DEFINE d == Assembly!Diagram(nodes, edges)
  <1>3. IsDiagram(d) /\ (Assembly!Archify(d) # None => IsArchify(Assembly!Archify(d), d))
    BY Diagrams
  <1>4. Assembly!Cited(d.nodes) \cup Assembly!Cited(d.edges) \subseteq D
    <2>1. d.nodes = nodes /\ d.edges = edges
      BY DEF Assembly!Diagram
    <2>2. \A s : Assembly!Cited(s) = UNION {x.cites : x \in Range(s)}
      BY AssemblyFilters DEF Assembly!Cited
    <2>. HIDE DEF d
    <2>. QED
      BY <2>1, <2>2
  <1>5. \/ visual = None /\ archify = None
        \/ visual = d /\ archify = Assembly!Archify(d)
    OBVIOUS
  <1>. HIDE DEF d
  <1>1. /\ visual # None => IsDiagram(visual)
        /\ archify # None => IsArchify(archify, visual) /\ archify.cites \subseteq D
    BY <1>3, <1>4, <1>5 DEF IsArchify
  <1>2. IsBlock(D, b) /\ b.equations = equations /\ b.figures = figures /\ b.tables = tables
    BY <1>1 DEF Carries, IsBlock
  <1>. QED
    BY <1>2 DEF IsPiece

\* The steps of a method, as nodes and their edges.
LEMMA MethodDiagram ==
  ASSUME NEW m, IsList(m.steps), \A x \in Range(m.steps) : IsNode(x), IsList(m.relations)
  PROVE  LET nodes == Assembly!MethodNodes(m)
             edges == Assembly!MethodEdges(m)
         IN /\ IsList(nodes) /\ nodes # <<>> /\ \A x \in Range(nodes) : IsNode(x)
            /\ IsList(edges) /\ \A x \in Range(edges) : IsEdge(x)
            /\ \A x \in Range(nodes) \cup Range(edges) : x.cites \subseteq m.cites \cup Assembly!Cited(m.steps)
  <1>. DEFINE D == m.cites \cup Assembly!Cited(m.steps)
              nodes == Assembly!MethodNodes(m)
              edges == Assembly!MethodEdges(m)
              summary == [id |-> "summary", cites |-> m.cites, inferred |-> m.inferred]
              stated(i) == [source |-> m.relations[i][1], target |-> m.relations[i][2],
                            cites |-> m.cites, inferred |-> m.inferred]
              given == [i \in DOMAIN m.relations |-> stated(i)]
  <1>0. m.cites \subseteq D /\ \A x \in Range(m.steps) : x.cites \subseteq D
    BY AssemblyFilters DEF Assembly!Cited
  <1>. HIDE DEF D
  <1>1. IsList(nodes) /\ nodes # <<>> /\ \A x \in Range(nodes) : IsNode(x) /\ x.cites \subseteq D
    <2>1. IsNode(summary) /\ summary.cites \subseteq D
      BY <1>0 DEF IsNode
    <2>. HIDE DEF summary
    <2>2. IsList(<<summary>>) /\ Range(<<summary>>) = {summary} /\ <<summary>> # <<>>
      BY Singles, Empties
    <2>3. nodes = IF m.steps = <<>> THEN <<summary>> ELSE m.steps
      BY DEF Assembly!MethodNodes, summary
    <2>. HIDE DEF nodes
    <2>. QED
      BY <1>0, <2>1, <2>2, <2>3
  <1>2. IsList(given) /\ \A x \in Range(given) : IsEdge(x) /\ x.cites \subseteq D
    <2>1. Len(m.relations) \in Nat /\ DOMAIN m.relations = 1 .. Len(m.relations)
      BY Lists DEF IsList
    <2>2. \A i \in 1 .. Len(m.relations) : IsEdge(stated(i)) /\ stated(i).cites \subseteq D
      BY <1>0 DEF IsEdge
    <2>. HIDE DEF stated
    <2>3. given = [i \in 1 .. Len(m.relations) |-> given[i]]
          /\ \A i \in 1 .. Len(m.relations) : given[i] = stated(i)
      BY <2>1
    <2>. HIDE DEF given
    <2>4. IsList(given) /\ Range(given) = {given[i] : i \in 1 .. Len(m.relations)}
      BY <2>1, <2>3, Mapped
    <2>. QED
      BY <2>2, <2>3, <2>4
  <1>3. edges = IF m.relations = <<>> THEN Assembly!Sequential(nodes) ELSE given
    BY DEF Assembly!MethodEdges
  <1>. HIDE DEF nodes, edges, given
  <1>4. IsList(Assembly!Sequential(nodes))
        /\ \A x \in Range(Assembly!Sequential(nodes)) : IsEdge(x) /\ x.cites = {}
    BY <1>1, RowEdges
  <1>5. IsList(edges) /\ \A x \in Range(edges) : IsEdge(x) /\ x.cites \subseteq D
    BY <1>2, <1>3, <1>4
  <1>. QED
    BY <1>1, <1>5 DEF nodes, edges, D

\* The method takes the first equations, and no figure.
LEMMA MethodPiece ==
  ASSUME NEW doc, NEW a, IsList(doc.figures), IsList(a.equations), ~Assembly!Raises(doc, a),
         a.method # None =>
           IsList(a.method.steps) /\ (\A x \in Range(a.method.steps) : IsNode(x)) /\ IsList(a.method.relations)
  PROVE  /\ a.method = None => Assembly!MethodBlocks(doc, a) = <<>>
         /\ a.method # None => Assembly!MethodBlocks(doc, a) # <<>>
         /\ IsPiece(Assembly!DrawnOn(a), Assembly!MethodBlocks(doc, a),
                    Assembly!Bindings(Assembly!Prefix(a.equations, Assembly!MethodEquations)), <<>>, <<>>)
  <1>. DEFINE E == Assembly!Bindings(Assembly!Prefix(a.equations, Assembly!MethodEquations))
              piece == Assembly!MethodBlocks(doc, a)
              D == Assembly!DrawnOn(a)
  <1>1. CASE a.method = None
    <2>1. piece = <<>>
      BY <1>1 DEF Assembly!MethodBlocks
    <2>. QED
      BY <1>1, <2>1 DEF IsPiece
  <1>2. CASE a.method # None
    <2>. DEFINE m == a.method
                nodes == Assembly!MethodNodes(m)
                edges == Assembly!MethodEdges(m)
                d == Assembly!Diagram(nodes, edges)
                none == Assembly!FigureBindings(Assembly!MethodFigures(doc))
                first == Assembly!Explained(Assembly!Prefix(a.equations, Assembly!MethodEquations))
                new == Assembly!Block("method", m.cites \cup Assembly!Cited(d.nodes))
                b == [new EXCEPT !.text = TRUE, !.visual = d, !.archify = Assembly!Archify(d),
                                 !.inferred = m.inferred, !.equations = first, !.figures = none]
    <2>1. /\ IsList(nodes) /\ \A x \in Range(nodes) : IsNode(x) /\ x.cites \subseteq D
          /\ IsList(edges) /\ \A x \in Range(edges) : IsEdge(x) /\ x.cites \subseteq D
      <3>1. m.cites \cup Assembly!Cited(m.steps) \subseteq D
        BY <1>2 DEF Assembly!DrawnOn
      <3>2. /\ IsList(nodes) /\ \A x \in Range(nodes) : IsNode(x)
            /\ IsList(edges) /\ \A x \in Range(edges) : IsEdge(x)
            /\ \A x \in Range(nodes) \cup Range(edges) :
                 x.cites \subseteq m.cites \cup Assembly!Cited(m.steps)
        BY <1>2, MethodDiagram
      <3>. HIDE DEF nodes, edges, m, D
      <3>. QED
        BY <3>1, <3>2
    <2>2. none = <<>>
      <3>1. Assembly!MethodFigures(doc) = <<>>
        BY <1>2 DEF Assembly!Raises
      <3>. QED
        BY <3>1 DEF Assembly!FigureBindings
    <2>3. first = E /\ AreItems(E)
      <3>1. IsList(Assembly!Prefix(a.equations, Assembly!MethodEquations))
        BY PrefixIs DEF Assembly!MethodEquations
      <3>. QED
        BY <3>1, Binds
    <2>4. piece = <<b>>
      BY <1>2 DEF Assembly!MethodBlocks
    <2>5. Carries(new, None, None, <<>>, <<>>, <<>>)
      BY NewBlock
    <2>. HIDE DEF new, none, first, E, nodes, edges, D
    <2>6. Carries(b, d, Assembly!Archify(d), first, none, <<>>)
      <3>. HIDE DEF d, m
      <3>. QED
        BY <2>5, Filled
    <2>. HIDE DEF b, m, piece
    <2>7. IsPiece(D, <<b>>, first, none, <<>>)
      <3>1. AreItems(first) /\ AreItems(none) /\ AreItems(<<>>)
        BY <2>2, <2>3, Empties
      <3>. QED
        BY <2>1, <2>6, <3>1, DrawnPiece
    <2>8. piece # <<>>
      BY <2>4, Empties
    <2>9. IsPiece(D, piece, E, <<>>, <<>>)
      BY <2>2, <2>3, <2>4, <2>7
    <2>. QED
      BY <1>2, <2>8, <2>9 DEF piece, E, D
  <1>. QED
    BY <1>1, <1>2

LEMMA TablesListed ==
  ASSUME NEW doc, IsList(doc.tables)
  PROVE  IsList(Assembly!ImportantTables(doc))
  <1>. DEFINE items == doc.tables
              n == Len(items)
              X == Range(items)
              Takes(t, s) == t.structured /\ (t.keyed \/ Len(s) < 2)
              Runs(f, m) == f = [i \in 0 .. m |->
                                   IF i = 0 THEN <<>>
                                   ELSE IF Takes(items[i], f[i - 1]) THEN Append(f[i - 1], items[i]) ELSE f[i - 1]]
              Good(f, k) == f[k] \in Seq(X)
              T == {m \in 0 .. n : \E f : Runs(f, m) /\ \A k \in 0 .. m : Good(f, k)}
  <1>1. n \in Nat /\ \A i \in 1 .. n : items[i] \in X
    BY Lists DEF IsList
  <1>. HIDE DEF X, Takes
  <1>2. 0 \in T
    <2>. DEFINE f == [i \in 0 .. 0 |-> <<>>]
    <2>1. Runs(f, 0)
      OBVIOUS
    <2>2. f[0] = <<>> /\ <<>> \in Seq(X)
      OBVIOUS
    <2>3. \A k \in 0 .. 0 : Good(f, k)
      <3>1. \A k \in 0 .. 0 : k = 0
        OBVIOUS
      <3>. HIDE DEF f
      <3>. QED
        BY <2>2, <3>1
    <2>. HIDE DEF Runs, Good, f
    <2>. QED
      BY <1>1, <2>1, <2>3
  <1>3. ASSUME NEW m \in 1 .. n, m - 1 \in T PROVE m \in T
    <2>1. PICK f : Runs(f, m - 1) /\ \A k \in 0 .. (m - 1) : Good(f, k)
      <3>. HIDE DEF Runs, Good
      <3>. QED
        BY <1>3
    <2>. DEFINE last == f[m - 1]
                next == IF Takes(items[m], last) THEN Append(last, items[m]) ELSE last
                g == [i \in 0 .. m |-> IF i = m THEN next ELSE f[i]]
    <2>2. m - 1 \in 0 .. (m - 1) /\ m \in 0 .. m /\ m \in Nat /\ m \in 0 .. n
      BY <1>1
    <2>3. g[m] = next /\ \A k \in 0 .. (m - 1) : g[k] = f[k]
      BY <2>2
    <2>4. Runs(g, m)
      <3>1. ASSUME NEW i \in 0 .. m
            PROVE  g[i] = IF i = 0 THEN <<>>
                          ELSE IF Takes(items[i], g[i - 1]) THEN Append(g[i - 1], items[i]) ELSE g[i - 1]
        <4>1. CASE i = m
          <5>1. m # 0 /\ g[m - 1] = last
            BY <2>2, <2>3
          <5>. HIDE DEF g
          <5>. QED
            BY <2>3, <4>1, <5>1
        <4>2. CASE i # m
          <5>1. i \in 0 .. (m - 1) /\ g[i] = f[i]
            BY <2>3, <4>2
          <5>2. f[i] = IF i = 0 THEN <<>>
                       ELSE IF Takes(items[i], f[i - 1]) THEN Append(f[i - 1], items[i]) ELSE f[i - 1]
            BY <2>1, <5>1
          <5>3. i # 0 => g[i - 1] = f[i - 1]
            BY <2>3, <5>1
          <5>. HIDE DEF g
          <5>. QED
            BY <5>1, <5>2, <5>3
        <4>. QED
          BY <4>1, <4>2
      <3>2. g = [i \in 0 .. m |-> g[i]]
        OBVIOUS
      <3>. HIDE DEF g
      <3>. QED
        BY <3>1, <3>2
    <2>5. last \in Seq(X)
      BY <2>1, <2>2
    <2>6. next \in Seq(X)
      <3>1. items[m] \in X
        BY <1>1
      <3>. HIDE DEF last
      <3>. QED
        BY <2>5, <3>1
    <2>7. ASSUME NEW k \in 0 .. m PROVE Good(g, k)
      <3>. HIDE DEF g, next
      <3>1. CASE k = m
        BY <2>3, <2>6, <3>1
      <3>2. CASE k # m
        <4>1. k \in 0 .. (m - 1)
          BY <3>2
        <4>2. g[k] = f[k]
          BY <2>3, <4>1
        <4>. QED
          BY <2>1, <4>1, <4>2
      <3>. QED
        BY <3>1, <3>2
    <2>. HIDE DEF Runs, Good, g
    <2>. QED
      BY <2>2, <2>4, <2>7
  <1>4. 0 .. n \subseteq T
    <2>. HIDE DEF T, n
    <2>. QED
      BY <1>1, <1>2, <1>3, BoundedInduction
  <1>5. \E f : Runs(f, n)
    <2>1. n \in T
      <3>. HIDE DEF T, n
      <3>. QED
        BY <1>1, <1>4
    <2>. HIDE DEF Runs, Good, n
    <2>. QED
      BY <2>1
  <1>. DEFINE scored == CHOOSE g : Runs(g, n)
  <1>6. Runs(scored, n)
    <2>. HIDE DEF Runs, n
    <2>. QED
      BY <1>5
  <1>7. Assembly!ImportantTables(doc) = Assembly!Prefix(scored[n], 4)
    BY DEF Assembly!ImportantTables, Takes
  <1>. HIDE DEF scored
  <1>8. scored[n] \in Seq(X)
    <2>. DEFINE U == {i \in 0 .. n : scored[i] \in Seq(X)}
    <2>1. 0 \in U
      BY <1>1, <1>6
    <2>2. ASSUME NEW i \in 1 .. n, i - 1 \in U PROVE i \in U
      <3>1. i \in 0 .. n /\ i # 0 /\ scored[i - 1] \in Seq(X) /\ items[i] \in X
        BY <1>1, <2>2
      <3>2. scored[i] = IF Takes(items[i], scored[i - 1]) THEN Append(scored[i - 1], items[i]) ELSE scored[i - 1]
        BY <1>6, <3>1
      <3>3. Append(scored[i - 1], items[i]) \in Seq(X)
        BY <3>1
      <3>4. scored[i] \in Seq(X)
        BY <3>1, <3>2, <3>3
      <3>. QED
        BY <3>1, <3>4
    <2>3. 0 .. n \subseteq U
      <3>. HIDE DEF U, n, Runs
      <3>. QED
        BY <1>1, <2>1, <2>2, BoundedInduction
    <2>. QED
      BY <1>1, <2>3
  <1>9. IsList(scored[n])
    BY <1>8, Lists
  <1>. QED
    BY <1>7, <1>9, PrefixIs

LEMMA ResultPiece ==
  ASSUME NEW D, NEW doc, NEW a, IsList(doc.tables)
  PROVE  IsPiece(D, Assembly!ResultBlocks(doc, a), <<>>, <<>>,
                 Assembly!Bindings(Assembly!Prefix(Assembly!ImportantTables(doc), 1)))
  <1>. DEFINE shown == Assembly!Bindings(Assembly!Prefix(Assembly!ImportantTables(doc), 1))
  <1>1. AreItems(shown)
    BY TablesListed, PrefixIs, Binds
  <1>. HIDE DEF shown
  <1>2. IsPiece(D, <<[Assembly!Block("results", Assembly!Cited(a.results)) EXCEPT
                     !.text = TRUE, !.inferred = Assembly!SomeInferred(a.results), !.tables = shown]>>,
                <<>>, <<>>, shown)
    BY <1>1, NewBlock, Filled, PlainPiece, Empties
  <1>3. IsPiece(D, <<>>, <<>>, <<>>, shown)
    BY DEF IsPiece
  <1>. QED
    BY <1>2, <1>3, Zenon DEF Assembly!ResultBlocks, shown

\* A node that cites what its claim does.
IsStage(x, claim) == IsNode(x) /\ x.cites = claim.cites
LEMMA StageNodes ==
  ASSUME NEW id, NEW claim, NEW inferred, NEW condition
  PROVE  LET s == Assembly!When(condition, Assembly!Stage(id, claim, inferred))
             t == Assembly!Stage(id, claim, inferred)
         IN /\ IsList(s) /\ \A x \in Range(s) : IsStage(x, claim)
            /\ IsList(t) /\ Len(t) = 1 /\ \A x \in Range(t) : IsStage(x, claim)
  <1>. DEFINE x == [id |-> id, cites |-> claim.cites, inferred |-> inferred]
              t == Assembly!Stage(id, claim, inferred)
  <1>1. IsStage(x, claim) /\ t = <<x>>
    BY DEF IsNode, IsStage, Assembly!Stage
  <1>. HIDE DEF x, t
  <1>2. IsList(t) /\ Len(t) = 1 /\ \A y \in Range(t) : IsStage(y, claim)
    BY <1>1, Singles
  <1>3. Assembly!When(condition, t) = t \/ Assembly!When(condition, t) = <<>>
    BY DEF Assembly!When
  <1>4. IsList(<<>>) /\ \A y \in Range(<<>>) : IsStage(y, claim)
    BY Empties
  <1>. QED
    BY <1>2, <1>3, <1>4 DEF t

\* The result shown with an experiment is the first of the analysis.
LEMMA FirstResult ==
  ASSUME NEW a, IsList(a.results), a.results # <<>>, NEW e
  PROVE  Head(a.results \o <<e>>).cites \subseteq Assembly!DrawnOn(a)
  <1>. DEFINE r == a.results
              X == Range(r) \cup {e}
  <1>1. /\ Len(r) \in Nat /\ Len(r) # 0 /\ r \in Seq(Range(r))
        /\ Range(r) = {r[i] : i \in 1 .. Len(r)}
    <2>1. r \in Seq(Range(r)) /\ r # <<>>
      BY DEF IsList
    <2>2. Len(r) \in Nat /\ Len(r) # 0
      BY <2>1, EmptySeq
    <2>. QED
      BY <2>1, <2>2, Lists DEF IsList
  <1>2. r \in Seq(X) /\ <<e>> \in Seq(X)
    <2>1. Range(r) \subseteq X /\ e \in X
      OBVIOUS
    <2>. HIDE DEF X, r
    <2>. QED
      BY <1>1, <2>1
  <1>. HIDE DEF X, r
  <1>3. /\ r \o <<e>> \in Seq(X) /\ Len(r \o <<e>>) = Len(r) + Len(<<e>>)
        /\ (r \o <<e>>)[1] = r[1]
    BY <1>1, <1>2, ConcatProperties
  <1>4. Head(r \o <<e>>) = r[1]
    BY <1>3
  <1>5. r[1] \in Range(r)
    BY <1>1
  <1>6. Assembly!Cited(r) = UNION {x.cites : x \in Range(r)}
    BY AssemblyFilters DEF Assembly!Cited
  <1>7. Assembly!Cited(r) \subseteq Assembly!DrawnOn(a)
    BY DEF Assembly!DrawnOn, r
  <1>. QED
    BY <1>4, <1>5, <1>6, <1>7 DEF r

LEMMA ExperimentPiece ==
  ASSUME NEW doc, NEW a, IsList(doc.tables), IsList(a.experiments), IsList(a.results)
  PROVE  IsPiece(Assembly!DrawnOn(a), Assembly!ExperimentBlocks(doc, a), <<>>, <<>>,
                 Assembly!Bindings(Assembly!Prefix(Assembly!ImportantTables(doc), 2)))
  <1>. DEFINE shown == Assembly!Bindings(Assembly!Prefix(Assembly!ImportantTables(doc), 2))
              piece == Assembly!ExperimentBlocks(doc, a)
              D == Assembly!DrawnOn(a)
  <1>1. AreItems(shown)
    BY TablesListed, PrefixIs, Binds
  <1>2. CASE a.experiments = <<>>
    <2>1. piece = <<>>
      BY <1>2 DEF Assembly!ExperimentBlocks
    <2>. QED
      BY <2>1 DEF IsPiece
  <1>3. CASE a.experiments # <<>>
    <2>. DEFINE e == a.experiments[1]
                s1 == Assembly!When(e.datasets, Assembly!Stage("dataset", e, e.inferred))
                s2 == Assembly!Stage("setup", e, e.inferred)
                s3 == Assembly!When(e.metrics, Assembly!Stage("evaluation", e, e.inferred))
                s4 == Assembly!When(a.results # <<>>,
                                    Assembly!Stage("result", Head(a.results \o <<e>>), e.inferred))
                nodes == s1 \o s2 \o s3 \o s4
                d == Assembly!Diagram(nodes, Assembly!Sequential(nodes))
                visual == IF Len(nodes) > 1 THEN d ELSE None
                archify == IF Len(nodes) > 1 THEN Assembly!Archify(d) ELSE None
                new == Assembly!Block("experiments", e.cites)
                b == [new EXCEPT !.text = TRUE, !.inferred = e.inferred, !.visual = visual,
                                 !.archify = archify, !.tables = shown]
                Fits(x) == IsNode(x) /\ x.cites \subseteq D
    <2>1. piece = <<b>>
      BY <1>3, Zenon DEF Assembly!ExperimentBlocks
    <2>0. e.cites \subseteq D
      <3>1. e \in Range(a.experiments)
        <4>1. Len(a.experiments) \in Nat /\ Len(a.experiments) # 0
          BY <1>3, EmptySeq DEF IsList
        <4>2. Range(a.experiments) = {a.experiments[i] : i \in 1 .. Len(a.experiments)}
          BY Lists, ZenonT(60) DEF IsList
        <4>. QED
          BY <4>1, <4>2
      <3>2. \A x \in Range(a.experiments) : x.cites \subseteq Assembly!Cited(a.experiments)
        BY AssemblyFilters DEF Assembly!Cited
      <3>3. Assembly!Cited(a.experiments) \subseteq D
        BY DEF Assembly!DrawnOn
      <3>. HIDE DEF e, D
      <3>. QED
        BY <3>1, <3>2, <3>3
    <2>. HIDE DEF D
    <2>2. /\ IsList(s1) /\ \A x \in Range(s1) : Fits(x)
          /\ IsList(s2) /\ Len(s2) = 1 /\ \A x \in Range(s2) : Fits(x)
          /\ IsList(s3) /\ \A x \in Range(s3) : Fits(x)
          /\ IsList(s4) /\ \A x \in Range(s4) : Fits(x)
      <3>1. \A x : IsStage(x, e) => Fits(x)
        <4>. HIDE DEF e
        <4>. QED
          BY <2>0 DEF IsStage
      <3>2. IsList(s1) /\ \A x \in Range(s1) : Fits(x)
        <4>. HIDE DEF e, Fits
        <4>1. IsList(s1) /\ \A x \in Range(s1) : IsStage(x, e)
          BY StageNodes
        <4>. QED
          BY <3>1, <4>1
      <3>3. IsList(s2) /\ Len(s2) = 1 /\ \A x \in Range(s2) : Fits(x)
        <4>. HIDE DEF e, Fits
        <4>1. IsList(s2) /\ Len(s2) = 1 /\ \A x \in Range(s2) : IsStage(x, e)
          BY StageNodes
        <4>. QED
          BY <3>1, <4>1
      <3>4. IsList(s3) /\ \A x \in Range(s3) : Fits(x)
        <4>. HIDE DEF e, Fits
        <4>1. IsList(s3) /\ \A x \in Range(s3) : IsStage(x, e)
          BY StageNodes
        <4>. QED
          BY <3>1, <4>1
      <3>5. IsList(s4) /\ \A x \in Range(s4) : Fits(x)
        <4>. DEFINE claim == Head(a.results \o <<e>>)
                    some == a.results # <<>>
        <4>1. s4 = Assembly!When(some, Assembly!Stage("result", claim, e.inferred))
          OBVIOUS
        <4>2. some => claim.cites \subseteq D
          BY FirstResult DEF D
        <4>3. ~some => s4 = <<>>
          BY DEF Assembly!When
        <4>. HIDE DEF e, claim, some, s4
        <4>4. IsList(s4) /\ \A x \in Range(s4) : IsStage(x, claim)
          BY <4>1, StageNodes
        <4>. QED
          BY <4>2, <4>3, <4>4, Empties DEF IsStage
      <3>. QED
        BY <3>2, <3>3, <3>4, <3>5
    <2>. HIDE DEF s1, s2, s3, s4
    <2>3. IsList(nodes) /\ nodes # <<>> /\ \A x \in Range(nodes) : Fits(x)
      <3>1. /\ IsList(s1 \o s2) /\ Range(s1 \o s2) = Range(s1) \cup Range(s2)
            /\ Len(s1 \o s2) = Len(s1) + Len(s2)
        BY <2>2, JoinedLists
      <3>2. /\ IsList(s1 \o s2 \o s3) /\ Range(s1 \o s2 \o s3) = Range(s1 \o s2) \cup Range(s3)
            /\ Len(s1 \o s2 \o s3) = Len(s1 \o s2) + Len(s3)
        BY <2>2, <3>1, JoinedLists
      <3>3. /\ IsList(nodes) /\ Range(nodes) = Range(s1 \o s2 \o s3) \cup Range(s4)
            /\ Len(nodes) = Len(s1 \o s2 \o s3) + Len(s4)
        BY <2>2, <3>2, JoinedLists
      <3>4. Len(s1) \in Nat /\ Len(s3) \in Nat /\ Len(s4) \in Nat
        BY <2>2, Lists DEF IsList
      <3>5. Len(nodes) # 0
        <4>. HIDE DEF nodes
        <4>. QED
          BY <2>2, <3>1, <3>2, <3>3, <3>4
      <3>6. \A x \in Range(nodes) : Fits(x)
        <4>. HIDE DEF nodes
        <4>. QED
          BY <2>2, <3>1, <3>2, <3>3
      <3>. HIDE DEF nodes
      <3>. QED
        BY <3>3, <3>5, <3>6, Empties
    <2>4. Carries(new, None, None, <<>>, <<>>, <<>>)
      BY NewBlock
    <2>. HIDE DEF new, shown, nodes, e
    <2>5. Carries(b, visual, archify, <<>>, <<>>, shown)
      <3>. HIDE DEF visual, archify
      <3>. QED
        BY <2>4, Filled
    <2>6. IsList(Assembly!Sequential(nodes))
          /\ \A x \in Range(Assembly!Sequential(nodes)) : IsEdge(x) /\ x.cites \subseteq D
      BY <2>3, RowEdges
    <2>7. \/ visual = None /\ archify = None
          \/ visual = d /\ archify = Assembly!Archify(d)
      OBVIOUS
    <2>. HIDE DEF b, piece, visual, archify
    <2>8. IsPiece(D, <<b>>, <<>>, <<>>, shown)
      BY <1>1, <2>3, <2>5, <2>6, <2>7, DrawnPiece, Empties
    <2>. QED
      BY <2>1, <2>8 DEF piece, shown, D
  <1>. QED
    BY <1>2, <1>3

\* The equations the method left, or those of the document.
LEMMA EquationPiece ==
  ASSUME NEW D, NEW doc, NEW a, IsList(doc.equations), IsList(a.equations)
  PROVE  LET left == Assembly!LeftoverEquations(a)
         IN /\ IsList(left)
            /\ a.equations = <<>> =>
                 \E E : IsPiece(D, Assembly!EquationBlocks(doc, a), E, <<>>, <<>>)
            /\ a.equations # <<>> =>
                 /\ IsPiece(D, Assembly!EquationBlocks(doc, a), Assembly!Bindings(left), <<>>, <<>>)
                 /\ left # <<>> => Assembly!EquationBlocks(doc, a) # <<>>
  <1>. DEFINE left == Assembly!LeftoverEquations(a)
              rest == Assembly!Those(Assembly!Prefix(doc.equations, 6), Assembly!Bound)
              piece == Assembly!EquationBlocks(doc, a)
              first == Assembly!Explained(left)
              second == Assembly!Explained(rest)
              b1 == [Assembly!Block("equations", Assembly!Cited(first)) EXCEPT !.text = TRUE, !.equations = first]
              b2 == [Assembly!Block("equations", {}) EXCEPT !.status = "FAILED", !.validator = "REJECTED"]
              b3 == [Assembly!Block("equations", Assembly!Cited(second)) EXCEPT !.equations = second]
  <1>1. IsList(left)
    <2>. DEFINE S == {x \in Range(a.equations) :
                        x.id \notin IF a.method = None THEN {}
                                    ELSE Assembly!IdsOf(Assembly!Prefix(a.equations, Assembly!MethodEquations))}
    <2>1. left = Among(a.equations, S)
      BY AssemblyFilters DEF Assembly!LeftoverEquations, Assembly!Those
    <2>. HIDE DEF left, S
    <2>. QED
      BY <2>1, AmongIs
  <1>2. IsList(rest)
    <2>. DEFINE p == Assembly!Prefix(doc.equations, 6)
                S == {x \in Range(p) : Assembly!Bound(x)}
    <2>1. rest = Among(p, S)
      BY AssemblyFilters DEF Assembly!Those
    <2>2. IsList(p)
      BY PrefixIs
    <2>. HIDE DEF rest, S, p
    <2>. QED
      BY <2>1, <2>2, AmongIs
  <1>. HIDE DEF left, rest
  <1>3. /\ AreItems(first) /\ first = Assembly!Bindings(left) /\ AreItems(second)
        /\ left # <<>> => first # <<>>
    <2>1. /\ first = Assembly!Bindings(left) /\ AreItems(first) /\ Len(first) = Len(left)
          /\ AreItems(second)
      BY <1>1, <1>2, Binds
    <2>2. left # <<>> => Len(left) # 0
      <3>1. left \in Seq(Range(left))
        BY <1>1 DEF IsList
      <3>. QED
        BY <3>1, EmptySeq
    <2>. HIDE DEF first
    <2>. QED
      BY <2>1, <2>2, Empties
  <1>4. piece = IF a.equations # <<>>
                  THEN IF first = <<>> THEN <<>> ELSE <<b1>>
                  ELSE IF doc.equations = <<>> THEN <<>>
                       ELSE IF second = <<>> THEN <<b2>> ELSE <<b3>>
    BY Zenon DEF Assembly!EquationBlocks, left, rest
  <1>. HIDE DEF first, second
  <1>5. IsPiece(D, <<b1>>, first, <<>>, <<>>)
    BY <1>3, NewBlock, Filled, PlainPiece, Empties
  <1>6. IsPiece(D, <<b2>>, <<>>, <<>>, <<>>)
    BY NewBlock, Filled, PlainPiece, Empties
  <1>7. IsPiece(D, <<b3>>, second, <<>>, <<>>)
    BY <1>3, NewBlock, Filled, PlainPiece, Empties
  <1>8. \A E : IsPiece(D, <<>>, E, <<>>, <<>>)
    BY DEF IsPiece
  <1>9. \A b : <<b>> # <<>>
    OBVIOUS
  <1>. HIDE DEF b1, b2, b3, piece
  <1>10. a.equations = <<>> => \E E : IsPiece(D, piece, E, <<>>, <<>>)
    BY <1>4, <1>6, <1>7, <1>8
  <1>11. a.equations # <<>> => /\ IsPiece(D, piece, first, <<>>, <<>>)
                               /\ left # <<>> => piece # <<>>
    BY <1>3, <1>4, <1>5, <1>8, <1>9
  <1>. QED
    BY <1>1, <1>3, <1>10, <1>11 DEF left, piece

---------------------------------------------------------------------------
(* The interactive paper: its blocks. *)

LEMMA PaperIs ==
  ASSUME NEW doc, NEW a, Assembly!IsPaper(doc, a)
  PROVE  /\ IsList(doc.figures) /\ IsList(doc.tables) /\ IsList(doc.equations) /\ IsList(a.equations)
         /\ IsList(a.experiments) /\ IsList(a.results)
         /\ \A f \in Range(doc.figures) : f.visual # None => Assembly!IsVisual(f.visual)
         /\ OwnIds(doc.figures) /\ OwnIds(a.equations)
         /\ a.method # None =>
              /\ IsList(a.method.steps) /\ IsList(a.method.relations)
              /\ \A x \in Range(a.method.steps) : IsNode(x)
  <1>1. /\ IsList(doc.figures) /\ IsList(doc.tables) /\ IsList(doc.equations) /\ IsList(a.equations)
        /\ IsList(a.experiments) /\ IsList(a.results)
        /\ \A f \in Range(doc.figures) : f.visual # None => Assembly!IsVisual(f.visual)
        /\ a.method # None =>
              /\ IsList(a.method.steps) /\ IsList(a.method.relations)
              /\ \A x \in Range(a.method.steps) : IsNode(x)
    BY AssemblyFilters DEF Assembly!IsPaper, IsList, IsNode
  <1>2. DOMAIN doc.figures = 1 .. Len(doc.figures) /\ DOMAIN a.equations = 1 .. Len(a.equations)
    BY <1>1, Lists DEF IsList
  <1>3. OwnIds(doc.figures) /\ OwnIds(a.equations)
    BY <1>2 DEF Assembly!IsPaper, OwnIds
  <1>. QED
    BY <1>1, <1>3

LEMMA PieceIs ==
  ASSUME NEW D, NEW s, NEW equations, NEW figures, NEW tables, IsPiece(D, s, equations, figures, tables)
  PROVE  /\ IsList(s) /\ (s # <<>> => Range(s) # {})
         /\ \A b, c \in Range(s) : b = c
         /\ \A b \in Range(s) : /\ IsBlock(D, b) /\ b.equations = equations
                                /\ b.figures = figures /\ b.tables = tables
  <1>1. CASE s = <<>>
    BY <1>1, Empties
  <1>2. ASSUME NEW b, s = <<b>>, IsBlock(D, b),
               b.equations = equations, b.figures = figures, b.tables = tables
        PROVE  /\ IsList(s) /\ (s # <<>> => Range(s) # {})
               /\ \A x, c \in Range(s) : x = c
               /\ \A x \in Range(s) : /\ IsBlock(D, x) /\ x.equations = equations
                                      /\ x.figures = figures /\ x.tables = tables
    <2>1. IsList(s) /\ Range(s) = {b}
      BY <1>2, Singles
    <2>. QED
      BY <1>2, <2>1
  <1>. QED
    BY <1>1, <1>2 DEF IsPiece

\* The pieces of the body, and what they show.
LEMMA BodyIs ==
  ASSUME NEW doc, NEW a, Assembly!IsPaper(doc, a), ~Assembly!Raises(doc, a)
  PROVE  LET body == Assembly!Body(doc, a)
             method == Range(Assembly!MethodBlocks(doc, a))
             equations == Range(Assembly!EquationBlocks(doc, a))
             D == Assembly!DrawnOn(a)
         IN /\ IsList(body) /\ method \cup equations \subseteq Range(body)
            /\ \A b \in Range(body) : /\ IsBlock(D, b) /\ b.figures = <<>>
                                      /\ b \in method \cup equations \/ b.equations = <<>>
  <1>. DEFINE p1 == Assembly!OverviewBlocks(doc, a)
              p2 == Assembly!ClaimBlocks("problem", a.problem)
              p3 == Assembly!ClaimBlocks("motivation", a.motivation)
              p4 == Assembly!ClaimBlocks("gap", a.gap)
              p5 == Assembly!MethodBlocks(doc, a)
              p6 == Assembly!EquationBlocks(doc, a)
              p7 == Assembly!ExperimentBlocks(doc, a)
              p8 == Assembly!ResultBlocks(doc, a)
              D == Assembly!DrawnOn(a)
              Plain(p) == /\ IsList(p)
                          /\ \A b \in Range(p) : IsBlock(D, b) /\ b.figures = <<>> /\ b.equations = <<>>
              Fine(p) == IsList(p) /\ \A b \in Range(p) : IsBlock(D, b) /\ b.figures = <<>>
  <1>1. Plain(p1) /\ Plain(p2) /\ Plain(p3) /\ Plain(p4)
    <2>. HIDE DEF D
    <2>1. IsPiece(D, p1, <<>>, <<>>, <<>>)
      BY OverviewPiece
    <2>2. /\ IsPiece(D, p2, <<>>, <<>>, <<>>) /\ IsPiece(D, p3, <<>>, <<>>, <<>>)
          /\ IsPiece(D, p4, <<>>, <<>>, <<>>)
      BY ClaimPieces
    <2>. HIDE DEF p1, p2, p3, p4
    <2>. QED
      BY <2>1, <2>2, PieceIs
  <1>2. Fine(p5)
    BY PaperIs, MethodPiece, PieceIs
  <1>3. Fine(p6)
    <2>1. \E E : IsPiece(D, p6, E, <<>>, <<>>)
      <3>1. IsList(doc.equations) /\ IsList(a.equations)
        BY PaperIs
      <3>. HIDE DEF D
      <3>2. a.equations = <<>> => \E E : IsPiece(D, p6, E, <<>>, <<>>)
        BY <3>1, EquationPiece
      <3>3. a.equations # <<>> =>
              IsPiece(D, p6, Assembly!Bindings(Assembly!LeftoverEquations(a)), <<>>, <<>>)
        BY <3>1, EquationPiece
      <3>. QED
        BY <3>2, <3>3
    <2>. HIDE DEF p6, D
    <2>. QED
      BY <2>1, PieceIs
  <1>4. Plain(p7) /\ Plain(p8)
    <2>1. IsList(doc.tables) /\ IsList(a.experiments) /\ IsList(a.results)
      BY PaperIs
    <2>2. \E T : IsPiece(D, p7, <<>>, <<>>, T)
      BY <2>1, ExperimentPiece
    <2>3. \E T : IsPiece(D, p8, <<>>, <<>>, T)
      <3>. HIDE DEF D
      <3>. QED
        BY <2>1, ResultPiece
    <2>. HIDE DEF p7, p8, D
    <2>. QED
      BY <2>2, <2>3, PieceIs
  <1>5. Assembly!Body(doc, a) = p1 \o p2 \o p3 \o p4 \o p5 \o p6 \o p7 \o p8
    BY DEF Assembly!Body
  <1>. HIDE DEF p1, p2, p3, p4, p5, p6, p7, p8, D
  <1>. DEFINE j4 == p1 \o p2 \o p3 \o p4
              j6 == j4 \o p5 \o p6
              j8 == j6 \o p7 \o p8
  <1>6. Plain(j4)
    <2>1. IsList(p1 \o p2) /\ Range(p1 \o p2) = Range(p1) \cup Range(p2)
      BY <1>1, JoinedLists
    <2>2. IsList(p1 \o p2 \o p3) /\ Range(p1 \o p2 \o p3) = Range(p1 \o p2) \cup Range(p3)
      BY <1>1, <2>1, JoinedLists
    <2>3. IsList(j4) /\ Range(j4) = Range(p1 \o p2 \o p3) \cup Range(p4)
      BY <1>1, <2>2, JoinedLists
    <2>. HIDE DEF j4
    <2>. QED
      BY <1>1, <2>1, <2>2, <2>3
  <1>. HIDE DEF j4
  <1>7. IsList(j6) /\ Range(j6) = Range(j4) \cup Range(p5) \cup Range(p6)
    <2>1. IsList(j4 \o p5) /\ Range(j4 \o p5) = Range(j4) \cup Range(p5)
      BY <1>2, <1>6, JoinedLists
    <2>2. IsList(j6) /\ Range(j6) = Range(j4 \o p5) \cup Range(p6)
      BY <1>3, <2>1, JoinedLists
    <2>. HIDE DEF j6
    <2>. QED
      BY <2>1, <2>2
  <1>. HIDE DEF j6
  <1>8. IsList(j8) /\ Range(j8) = Range(j6) \cup Range(p7) \cup Range(p8)
    <2>1. IsList(j6 \o p7) /\ Range(j6 \o p7) = Range(j6) \cup Range(p7)
      BY <1>4, <1>7, JoinedLists
    <2>2. IsList(j8) /\ Range(j8) = Range(j6 \o p7) \cup Range(p8)
      BY <1>4, <2>1, JoinedLists
    <2>. HIDE DEF j8
    <2>. QED
      BY <2>1, <2>2
  <1>9. Assembly!Body(doc, a) = j8
    BY <1>5 DEF j4, j6
  <1>. HIDE DEF j8
  <1>10. /\ IsList(j8) /\ Range(p5) \cup Range(p6) \subseteq Range(j8)
         /\ \A b \in Range(j8) : /\ IsBlock(D, b) /\ b.figures = <<>>
                                 /\ b \in Range(p5) \cup Range(p6) \/ b.equations = <<>>
    BY <1>2, <1>3, <1>4, <1>6, <1>7, <1>8
  <1>. QED
    BY <1>9, <1>10 DEF p5, p6, D

\* All blocks: the body, the tables and the figures left, and the end.
LEMMA BlocksAre ==
  ASSUME NEW doc, NEW a, Assembly!IsPaper(doc, a), ~Assembly!Raises(doc, a)
  PROVE  LET body == Assembly!Body(doc, a)
             blocks == Assembly!Blocks(doc, a)
             left == Assembly!LeftoverTables(doc, body)
             shown == Assembly!LeftoverFigures(doc, Assembly!Tabled(doc, a))
             tables == Range(Assembly!TableBlocks(left))
             figures == Range(Assembly!FigureBlocks(shown))
             D == Assembly!DrawnOn(a)
         IN /\ IsList(Assembly!Tabled(doc, a))
            /\ Range(Assembly!Tabled(doc, a)) = Range(body) \cup tables
            /\ \A b \in Range(Assembly!Tabled(doc, a)) : b.figures = <<>>
            /\ IsList(left) /\ IsList(shown) /\ Range(shown) \subseteq Range(doc.figures)
            /\ IsPiece(D, Assembly!TableBlocks(left), <<>>, <<>>, Assembly!Bindings(left))
            /\ IsPiece(D, Assembly!FigureBlocks(shown), <<>>, Assembly!FigureBindings(shown), <<>>)
            /\ IsList(blocks) /\ Range(body) \cup tables \cup figures \subseteq Range(blocks)
            /\ \A b \in Range(blocks) : /\ IsBlock(D, b)
                                        /\ b \in Range(body) \/ b.equations = <<>>
                                        /\ b \in figures \/ b.figures = <<>>
  <1>. DEFINE body == Assembly!Body(doc, a)
              blocks == Assembly!Blocks(doc, a)
              left == Assembly!LeftoverTables(doc, body)
              shown == Assembly!LeftoverFigures(doc, Assembly!Tabled(doc, a))
              p9 == Assembly!TableBlocks(left)
              p10 == Assembly!FigureBlocks(shown)
              p11 == Assembly!ClaimBlocks("limitations", a.limitations)
              p12 == Assembly!ClaimBlocks("takeaways", a.future)
              D == Assembly!DrawnOn(a)
  <1>1. IsList(body) /\ \A b \in Range(body) : IsBlock(D, b) /\ b.figures = <<>>
    BY BodyIs
  <1>2. IsList(left)
    <2>. DEFINE items == Assembly!ImportantTables(doc)
                S == {t \in Range(items) : \A b \in Assembly!Range(body) : t.id \notin Assembly!IdsOf(b.tables)}
    <2>1. left = Among(items, S)
      BY AssemblyFilters DEF Assembly!LeftoverTables, Assembly!Those
    <2>2. IsList(items)
      BY PaperIs, TablesListed
    <2>. HIDE DEF left, items, S
    <2>. QED
      BY <2>1, <2>2, AmongIs
  <1>3. IsList(shown) /\ Range(shown) \subseteq Range(doc.figures)
    <2>. DEFINE items == doc.figures
                S == {f \in Range(items) : /\ Assembly!Shown(f)
                                           /\ \A b \in Assembly!Range(Assembly!Tabled(doc, a)) :
                                                f.id \notin Assembly!IdsOf(b.figures)}
    <2>1. shown = Assembly!Prefix(Among(items, S), 4)
      BY AssemblyFilters DEF Assembly!LeftoverFigures, Assembly!Those
    <2>2. IsList(items)
      BY PaperIs
    <2>. HIDE DEF shown, items, S
    <2>. DEFINE kept == Among(items, S)
    <2>3. /\ IsList(kept) /\ DOMAIN kept = 1 .. Len(kept)
          /\ \A x \in Range(kept) : x \in Range(items)
      BY <2>2, AmongIs
    <2>4. \A n \in 1 .. Len(kept) : kept[n] \in Range(items)
      BY <2>3 DEF Range
    <2>. HIDE DEF kept
    <2>5. /\ IsList(shown) /\ Range(shown) = {kept[n] : n \in 1 .. Len(shown)}
          /\ \A n \in 1 .. Len(shown) : n \in 1 .. Len(kept)
      <3>1. IsList(kept) /\ shown = Assembly!Prefix(kept, 4) /\ 4 \in Nat
        BY <2>1, <2>3 DEF kept
      <3>. QED
        BY <3>1, PrefixIs
    <2>6. Range(shown) \subseteq Range(items)
      BY <2>4, <2>5
    <2>. QED
      BY <2>5, <2>6 DEF items
  <1>. HIDE DEF left, shown, D
  <1>4. /\ IsPiece(D, p9, <<>>, <<>>, Assembly!Bindings(left))
        /\ IsPiece(D, p10, <<>>, Assembly!FigureBindings(shown), <<>>)
    BY <1>2, <1>3, TablePieces, FigurePieces
  <1>5. IsPiece(D, p11, <<>>, <<>>, <<>>) /\ IsPiece(D, p12, <<>>, <<>>, <<>>)
    BY ClaimPieces
  <1>6. Assembly!Tabled(doc, a) = body \o p9 /\ blocks = body \o p9 \o p10 \o p11 \o p12
    BY DEF Assembly!Tabled, Assembly!Blocks, left, shown
  <1>. HIDE DEF p9, p10, p11, p12, body, blocks
  <1>7. /\ IsList(p9) /\ IsList(p10) /\ IsList(p11) /\ IsList(p12)
        /\ \A b \in Range(p9) : IsBlock(D, b) /\ b.equations = <<>> /\ b.figures = <<>>
        /\ \A b \in Range(p10) : IsBlock(D, b) /\ b.equations = <<>>
        /\ \A b \in Range(p11) \cup Range(p12) : IsBlock(D, b) /\ b.equations = <<>> /\ b.figures = <<>>
    BY <1>4, <1>5, PieceIs
  <1>8. IsList(body \o p9) /\ Range(body \o p9) = Range(body) \cup Range(p9)
    BY <1>1, <1>7, JoinedLists
  <1>9. IsList(body \o p9 \o p10) /\ Range(body \o p9 \o p10) = Range(body \o p9) \cup Range(p10)
    BY <1>7, <1>8, JoinedLists
  <1>10. IsList(body \o p9 \o p10 \o p11)
         /\ Range(body \o p9 \o p10 \o p11) = Range(body \o p9 \o p10) \cup Range(p11)
    BY <1>7, <1>9, JoinedLists
  <1>11. IsList(body \o p9 \o p10 \o p11 \o p12)
         /\ Range(body \o p9 \o p10 \o p11 \o p12) = Range(body \o p9 \o p10 \o p11) \cup Range(p12)
    BY <1>7, <1>10, JoinedLists
  <1>12. Range(blocks) = Range(body) \cup Range(p9) \cup Range(p10) \cup Range(p11) \cup Range(p12)
    BY <1>6, <1>8, <1>9, <1>10, <1>11
  <1>13. /\ IsList(Assembly!Tabled(doc, a))
         /\ Range(Assembly!Tabled(doc, a)) = Range(body) \cup Range(p9)
         /\ \A b \in Range(Assembly!Tabled(doc, a)) : b.figures = <<>>
    BY <1>1, <1>6, <1>7, <1>8
  <1>14. /\ IsList(blocks) /\ Range(body) \cup Range(p9) \cup Range(p10) \subseteq Range(blocks)
         /\ \A b \in Range(blocks) : /\ IsBlock(D, b)
                                     /\ b \in Range(body) \/ b.equations = <<>>
                                     /\ b \in Range(p10) \/ b.figures = <<>>
    <2>1. IsList(blocks)
      BY <1>6, <1>11
    <2>. QED
      BY <1>1, <1>7, <1>12, <2>1
  <1>. QED
    BY <1>2, <1>3, <1>4, <1>13, <1>14 DEF p9, p10, left, shown, body, blocks, D

---------------------------------------------------------------------------
(* The interactive paper: its promises. *)

\* A filter is of what its test says.
LEMMA ThoseAre ==
  ASSUME NEW items, IsList(items), NEW S, NEW kept, kept = Assembly!Among(items, S)
  PROVE  /\ IsList(kept)
         /\ OwnIds(items) => OwnIds(kept)
         /\ \A x : x \in Range(kept) <=> x \in Range(items) /\ x \in S
  BY AssemblyFilters, AmongIs, AmongOwnIds

\* The figures of a block are figures of the document.
LEMMA BlockFigures ==
  ASSUME NEW doc, NEW a, Assembly!IsPaper(doc, a), ~Assembly!Raises(doc, a),
         NEW b \in Range(Assembly!Blocks(doc, a)), NEW g \in Range(b.figures)
  PROVE  IsFigure(g) /\ \E f \in Range(doc.figures) : IsBound(g, f)
  <1>. DEFINE shown == Assembly!LeftoverFigures(doc, Assembly!Tabled(doc, a))
              piece == Assembly!FigureBlocks(shown)
  <1>1. /\ IsList(shown) /\ Range(shown) \subseteq Range(doc.figures)
        /\ IsPiece(Assembly!DrawnOn(a), piece, <<>>, Assembly!FigureBindings(shown), <<>>)
        /\ b \in Range(piece) \/ b.figures = <<>>
    BY BlocksAre
  <1>. HIDE DEF shown, piece
  <1>2. b \in Range(piece)
    BY <1>1, Empties
  <1>3. b.figures = Assembly!FigureBindings(shown)
    BY <1>1, <1>2, PieceIs
  <1>4. IsFigure(g) /\ \E f \in Range(shown) : IsBound(g, f)
    BY <1>1, <1>3, FigureBinds
  <1>. QED
    BY <1>1, <1>4

\* What is validated is grounded, and listed where it shows something.
LEMMA GroundedPaper ==
  ASSUME NEW doc, NEW a, NEW available, Assembly!IsPaper(doc, a), ~Assembly!Raises(doc, a)
  PROVE  Assembly!PaperIsGrounded(doc, a, available)
  <1>. DEFINE blocks == Assembly!Blocks(doc, a)
              check(b) == Assembly!SanitizeBlock(b, doc, available)
              checked == [i \in DOMAIN blocks |-> check(blocks[i])]
              S == {b \in Assembly!Range(checked) : Assembly!Ready(b)}
              ready == Assembly!Among(checked, S)
              outline == [i \in DOMAIN ready |-> ready[i].id]
              paper == Assembly!Assemble(doc, a, available)
              Sound(c) == /\ Assembly!Grounded(c, doc, available) /\ Assembly!Arranged(c, a)
                          /\ \A f \in Range(c.figures) : Assembly!Reread(f, doc)
                          /\ Assembly!Ready(c) => Assembly!ShowsSomething(c)
  <1>0. IsList(doc.figures) /\ IsList(doc.tables)
    BY PaperIs
  <1>1. IsList(blocks) /\ \A b \in Range(blocks) : IsBlock(Assembly!DrawnOn(a), b)
    BY BlocksAre
  <1>2. /\ Len(blocks) \in Nat /\ DOMAIN blocks = 1 .. Len(blocks)
        /\ Range(blocks) = {blocks[i] : i \in 1 .. Len(blocks)}
    BY <1>1, Lists DEF IsList
  <1>3. paper.blocks = checked /\ paper.outline = outline
    <2>1. /\ Assembly!Those(checked, Assembly!Ready) = ready
      BY DEF Assembly!Those
    <2>2. paper = [blocks |-> checked, outline |-> outline,
                   status |-> IF ready # <<>> THEN "READY" ELSE IF checked # <<>> THEN "FAILED" ELSE "PLANNED"]
      BY <2>1, Zenon DEF Assembly!Assemble, Assembly!Validated
    <2>. HIDE DEF paper, checked, outline, ready
    <2>. QED
      BY <2>2
  <1>4. ASSUME NEW i \in 1 .. Len(blocks) PROVE Sound(check(blocks[i]))
    <2>. DEFINE b == blocks[i]
                c == check(b)
    <2>1. b \in Range(blocks) /\ IsBlock(Assembly!DrawnOn(a), b)
      BY <1>1, <1>2
    <2>2. \A g \in Range(b.figures) :
            IsFigure(g) /\ \E f \in Range(doc.figures) : IsBound(g, f)
      BY <2>1, BlockFigures
    <2>. HIDE DEF b
    <2>3. /\ Assembly!Grounded(c, doc, available)
          /\ Assembly!Ready(c) => Assembly!ShowsSomething(c)
          /\ CutFrom(c, b)
      <3>. DEFINE D == Assembly!DrawnOn(a)
      <3>1. IsBlock(D, b)
        BY <2>1
      <3>. HIDE DEF D
      <3>. QED
        BY <1>0, <3>1, SanitizedBlock
    <2>. HIDE DEF c
    <2>4. Assembly!Arranged(c, a)
      BY <2>1, <2>3, ArrangedBlock
    <2>5. ASSUME NEW f \in Range(c.figures) PROVE Assembly!Reread(f, doc)
      <3>1. PICK g \in Range(b.figures) : g.id = f.id /\ (IsFigure(g) => f.seen = g.seen)
        BY <2>3 DEF CutFrom, StemsFrom
      <3>2. PICK x \in Range(doc.figures) : IsBound(g, x)
        BY <2>2
      <3>3. f.id = x.id /\ f.seen = Assembly!Analysed(x.visual)
        BY <2>2, <3>1, <3>2 DEF IsBound
      <3>4. x.visual # None => Assembly!IsVisual(x.visual)
        BY PaperIs
      <3>. QED
        BY <3>3, <3>4, RereadFigure
    <2>. QED
      BY <2>3, <2>4, <2>5 DEF b, c
  <1>. HIDE DEF check, blocks, Sound
  <1>5. /\ \A i \in 1 .. Len(blocks) : checked[i] = check(blocks[i])
        /\ checked = [i \in 1 .. Len(blocks) |-> checked[i]]
    BY <1>2
  <1>. HIDE DEF checked
  <1>6. IsList(checked) /\ Range(checked) = {checked[i] : i \in 1 .. Len(blocks)}
    BY <1>2, <1>5, Mapped
  <1>13. \A c \in Range(checked) : Sound(c)
    BY <1>4, <1>5, <1>6
  <1>7. \A c \in Range(checked) :
          /\ Assembly!Grounded(c, doc, available) /\ Assembly!Arranged(c, a)
          /\ \A f \in Assembly!Range(c.figures) : Assembly!Reread(f, doc)
          /\ Assembly!Ready(c) => Assembly!ShowsSomething(c)
    BY <1>13, AssemblyFilters DEF Sound
  <1>8. IsList(ready) /\ \A c \in Range(ready) : c \in Range(checked) /\ c \in S
    BY <1>6, ThoseAre
  <1>9. \A c \in S : Assembly!Ready(c)
    OBVIOUS
  <1>. HIDE DEF ready, S
  <1>10. DOMAIN ready = 1 .. Len(ready) /\ Range(ready) = {ready[i] : i \in 1 .. Len(ready)}
    BY <1>8, Lists DEF IsList
  <1>11. \A i \in DOMAIN outline : \E b \in Range(checked) : b.id = outline[i] /\ Assembly!ShowsSomething(b)
    <2>1. DOMAIN outline = 1 .. Len(ready) /\ \A i \in 1 .. Len(ready) : outline[i] = ready[i].id
      BY <1>10
    <2>2. \A i \in 1 .. Len(ready) : ready[i] \in Range(checked) /\ Assembly!ShowsSomething(ready[i])
      BY <1>7, <1>8, <1>9, <1>10
    <2>. HIDE DEF outline
    <2>. QED
      BY <2>1, <2>2
  <1>12. Assembly!Range(checked) = Range(checked)
    BY AssemblyFilters
  <1>. HIDE DEF outline, paper
  <1>. QED
    BY <1>3, <1>7, <1>11, <1>12 DEF Assembly!PaperIsGrounded, paper

\* The place of the only item with an id.
LEMMA OnePlace ==
  ASSUME NEW s, IsList(s), OwnIds(s), NEW x \in Range(s),
         NEW b, b = Assembly!Bindings(s) \/ b = Assembly!FigureBindings(s)
  PROVE  /\ Cardinality({i \in DOMAIN b : b[i].id = x.id}) = 1
         /\ x.id \in Assembly!IdsOf(b)
  <1>1. /\ DOMAIN b = 1 .. Len(s) /\ \A i \in 1 .. Len(s) : b[i].id = s[i].id
        /\ Assembly!IdsOf(b) = {s[i].id : i \in 1 .. Len(s)}
    <2>1. CASE b = Assembly!Bindings(s)
      BY <2>1, Binds
    <2>2. CASE b = Assembly!FigureBindings(s)
      BY <2>2, FigureBinds
    <2>. QED
      BY <2>1, <2>2
  <1>2. PICK k \in 1 .. Len(s) : s[k] = x
    BY Lists DEF IsList
  <1>3. {i \in DOMAIN b : b[i].id = x.id} = {k}
    BY <1>1, <1>2 DEF OwnIds
  <1>4. Cardinality({k}) = 1
    BY FS_Singleton
  <1>5. Cardinality({i \in DOMAIN b : b[i].id = x.id}) = 1
    BY <1>3, <1>4, Zenon
  <1>. QED
    BY <1>1, <1>2, <1>5

LEMMA NotInEmpty ==
  ASSUME NEW id
  PROVE  id \notin Assembly!IdsOf(<<>>)
  BY AssemblyFilters, Empties DEF Assembly!IdsOf

\* An equation is explained in one block, once.
LEMMA EquationsOnce ==
  ASSUME NEW doc, NEW a, Assembly!IsPaper(doc, a), ~Assembly!Raises(doc, a), NEW e \in Range(a.equations)
  PROVE  LET blocks == Range(Assembly!Blocks(doc, a))
         IN \E b \in blocks :
              /\ Cardinality({i \in DOMAIN b.equations : b.equations[i].id = e.id}) = 1
              /\ \A c \in blocks \ {b} : e.id \notin Assembly!IdsOf(c.equations)
  <1>. DEFINE blocks == Range(Assembly!Blocks(doc, a))
              prefix == Assembly!Prefix(a.equations, Assembly!MethodEquations)
              left == Assembly!LeftoverEquations(a)
              method == Assembly!MethodBlocks(doc, a)
              rest == Assembly!EquationBlocks(doc, a)
              taken == IF a.method = None THEN {} ELSE Assembly!IdsOf(prefix)
              D == Assembly!DrawnOn(a)
              Is1(b) == /\ Cardinality({i \in DOMAIN b.equations : b.equations[i].id = e.id}) = 1
                        /\ \A c \in blocks \ {b} : e.id \notin Assembly!IdsOf(c.equations)
  <1>1. /\ IsList(a.equations) /\ OwnIds(a.equations) /\ IsList(doc.equations) /\ IsList(doc.figures)
        /\ a.method # None =>
             /\ IsList(a.method.steps) /\ IsList(a.method.relations)
             /\ \A x \in Range(a.method.steps) : IsNode(x)
    BY PaperIs
  <1>2. a.equations # <<>>
    BY Empties
  <1>3. /\ IsPiece(D, method, Assembly!Bindings(prefix), <<>>, <<>>)
        /\ a.method = None => method = <<>>
        /\ a.method # None => method # <<>>
    BY <1>1, MethodPiece
  <1>4. /\ IsPiece(D, rest, Assembly!Bindings(left), <<>>, <<>>)
        /\ left # <<>> => rest # <<>>
    BY <1>1, <1>2, EquationPiece
  <1>5. /\ Range(method) \cup Range(rest) \subseteq blocks
        /\ \A b \in blocks : b \in Range(method) \cup Range(rest) \/ b.equations = <<>>
    BY BodyIs, BlocksAre
  <1>6. /\ IsList(prefix) /\ OwnIds(prefix) /\ Assembly!IdsOf(prefix) = {x.id : x \in Range(prefix)}
    <2>1. IsList(prefix) /\ OwnIds(prefix)
      <3>1. Assembly!MethodEquations \in Nat
        BY DEF Assembly!MethodEquations
      <3>. QED
        BY <1>1, <3>1, PrefixIs
    <2>. HIDE DEF prefix
    <2>. QED
      BY <2>1, AssemblyFilters DEF Assembly!IdsOf
  <1>. DEFINE S == {x \in Assembly!Range(a.equations) : x.id \notin taken}
  <1>7. /\ IsList(left) /\ OwnIds(left)
        /\ \A x : x \in Range(left) <=> x \in Range(a.equations) /\ x.id \notin taken
    <2>1. left = Assembly!Among(a.equations, S)
      BY DEF Assembly!LeftoverEquations, Assembly!Those
    <2>2. Assembly!Range(a.equations) = Range(a.equations)
      BY AssemblyFilters
    <2>3. \A x : x \in Range(a.equations) => (x \in S <=> x.id \notin taken)
      BY <2>2
    <2>. HIDE DEF left, S, taken
    <2>. QED
      BY <1>1, <2>1, <2>3, ThoseAre
  <1>8. Assembly!IdsOf(Assembly!Bindings(left)) = {x.id : x \in Range(left)}
        /\ Assembly!IdsOf(Assembly!Bindings(prefix)) = {x.id : x \in Range(prefix)}
    BY <1>6, <1>7, Binds, AssemblyFilters DEF Assembly!IdsOf
  <1>. HIDE DEF blocks, prefix, left, method, rest, S, D
  <1>9. /\ \A b, c \in Range(method) : b = c
        /\ \A b, c \in Range(rest) : b = c
        /\ \A b \in Range(method) : b.equations = Assembly!Bindings(prefix)
        /\ \A b \in Range(rest) : b.equations = Assembly!Bindings(left)
        /\ (method # <<>> => Range(method) # {}) /\ (rest # <<>> => Range(rest) # {})
    BY <1>3, <1>4, PieceIs
  <1>10. CASE e.id \in taken
    <2>1. a.method # None /\ e.id \in Assembly!IdsOf(prefix)
      BY <1>10
    <2>2. PICK x \in Range(prefix) : x.id = e.id
      BY <1>6, <2>1
    <2>3. PICK b \in Range(method) : TRUE
      BY <1>3, <1>9, <2>1
    <2>4. Cardinality({i \in DOMAIN b.equations : b.equations[i].id = e.id}) = 1
      <3>1. Cardinality({i \in DOMAIN Assembly!Bindings(prefix) : Assembly!Bindings(prefix)[i].id = x.id}) = 1
        BY <1>6, OnePlace
      <3>2. b.equations = Assembly!Bindings(prefix)
        BY <1>9
      <3>. QED
        BY <2>2, <3>1, <3>2, Zenon
    <2>5. ASSUME NEW c \in blocks \ {b} PROVE e.id \notin Assembly!IdsOf(c.equations)
      <3>1. CASE c.equations = <<>>
        BY <3>1, NotInEmpty
      <3>2. CASE c \in Range(rest)
        <4>1. c.equations = Assembly!Bindings(left)
          BY <1>9, <3>2
        <4>2. e.id \notin {y.id : y \in Range(left)}
          BY <1>7, <1>10
        <4>. QED
          BY <1>8, <4>1, <4>2
      <3>3. c \notin Range(method)
        BY <1>9, <2>5
      <3>. QED
        BY <1>5, <3>1, <3>2, <3>3
    <2>6. b \in blocks
      BY <1>5
    <2>7. Is1(b)
      BY <2>4, <2>5
    <2>. QED
      BY <2>6, <2>7 DEF blocks
  <1>11. CASE e.id \notin taken
    <2>1. e \in Range(left) /\ left # <<>>
      BY <1>7, <1>11, Empties
    <2>2. PICK b \in Range(rest) : TRUE
      BY <1>4, <1>9, <2>1
    <2>3. Cardinality({i \in DOMAIN b.equations : b.equations[i].id = e.id}) = 1
      <3>1. Cardinality({i \in DOMAIN Assembly!Bindings(left) : Assembly!Bindings(left)[i].id = e.id}) = 1
        BY <1>7, <2>1, OnePlace
      <3>2. b.equations = Assembly!Bindings(left)
        BY <1>9
      <3>. QED
        BY <3>1, <3>2, Zenon
    <2>4. ASSUME NEW c \in blocks \ {b} PROVE e.id \notin Assembly!IdsOf(c.equations)
      <3>1. CASE c.equations = <<>>
        BY <3>1, NotInEmpty
      <3>2. CASE c \in Range(method)
        <4>1. c.equations = Assembly!Bindings(prefix) /\ a.method # None
          BY <1>3, <1>9, <3>2, Empties
        <4>2. e.id \notin Assembly!IdsOf(prefix)
          BY <1>11, <4>1
        <4>. QED
          BY <1>6, <1>8, <4>1, <4>2
      <3>3. c \notin Range(rest)
        BY <1>9, <2>4
      <3>. QED
        BY <1>5, <3>1, <3>2, <3>3
    <2>5. b \in blocks
      BY <1>5
    <2>6. Is1(b)
      BY <2>3, <2>4
    <2>. QED
      BY <2>5, <2>6 DEF blocks
  <1>. QED
    BY <1>10, <1>11

\* A figure of the last block is in no other, and once in this one.
LEMMA FiguresOnce ==
  ASSUME NEW doc, NEW a, Assembly!IsPaper(doc, a), ~Assembly!Raises(doc, a)
  PROVE  LET blocks == Range(Assembly!Blocks(doc, a))
             showable == Assembly!Those(doc.figures, Assembly!Shown)
             shown == Assembly!Prefix(showable, 4)
         IN /\ IsList(showable)
            /\ \A x \in Range(shown) : \E b \in blocks :
                 /\ Cardinality({i \in DOMAIN b.figures : b.figures[i].id = x.id}) = 1
                 /\ \A c \in blocks \ {b} : x.id \notin Assembly!IdsOf(c.figures)
            /\ \A b \in blocks : \A id : id \in Assembly!IdsOf(b.figures) => \E x \in Range(shown) : x.id = id
  <1>. DEFINE blocks == Range(Assembly!Blocks(doc, a))
              tabled == Assembly!Tabled(doc, a)
              showable == Assembly!Those(doc.figures, Assembly!Shown)
              shown == Assembly!Prefix(showable, 4)
              last == Assembly!FigureBlocks(shown)
              S == {f \in Assembly!Range(doc.figures) : Assembly!Shown(f)}
              L == {f \in Assembly!Range(doc.figures) :
                      /\ Assembly!Shown(f)
                      /\ \A b \in Assembly!Range(tabled) : f.id \notin Assembly!IdsOf(b.figures)}
  <1>1. IsList(doc.figures) /\ OwnIds(doc.figures)
    BY PaperIs
  <1>2. showable = Assembly!Among(doc.figures, S)
    BY DEF Assembly!Those
  <1>3. Assembly!LeftoverFigures(doc, tabled) = Assembly!Prefix(Assembly!Among(doc.figures, L), 4)
    BY DEF Assembly!LeftoverFigures, Assembly!Those
  <1>4. S = L
    <2>1. \A b \in Assembly!Range(tabled) : b.figures = <<>>
      BY BlocksAre, AssemblyFilters
    <2>2. \A b \in Assembly!Range(tabled) : \A id : id \notin Assembly!IdsOf(b.figures)
      BY <2>1, NotInEmpty
    <2>. HIDE DEF tabled
    <2>. QED
      BY <2>2
  <1>5. Assembly!LeftoverFigures(doc, tabled) = shown
    <2>1. Assembly!Among(doc.figures, L) = showable
      BY <1>2, <1>4, Zenon
    <2>. QED
      BY <1>3, <2>1, Zenon
  <1>6. IsList(showable) /\ OwnIds(showable)
    <2>. HIDE DEF S, showable
    <2>. QED
      BY <1>1, <1>2, ThoseAre
  <1>. HIDE DEF showable, S, L
  <1>7. IsList(shown) /\ OwnIds(shown)
    BY <1>6, PrefixIs
  <1>8. /\ IsPiece(Assembly!DrawnOn(a), last, <<>>, Assembly!FigureBindings(shown), <<>>)
        /\ Range(last) \subseteq blocks
        /\ \A b \in blocks : b \in Range(last) \/ b.figures = <<>>
    <2>1. LET l == Assembly!LeftoverFigures(doc, tabled)
          IN /\ IsPiece(Assembly!DrawnOn(a), Assembly!FigureBlocks(l), <<>>, Assembly!FigureBindings(l), <<>>)
             /\ Range(Assembly!FigureBlocks(l)) \subseteq blocks
             /\ \A b \in blocks : b \in Range(Assembly!FigureBlocks(l)) \/ b.figures = <<>>
      BY BlocksAre
    <2>. HIDE DEF shown, blocks
    <2>. QED
      BY <1>5, <2>1, Zenon DEF last
  <1>9. Assembly!IdsOf(Assembly!FigureBindings(shown)) = {x.id : x \in Range(shown)}
    <2>. HIDE DEF shown
    <2>. QED
      BY <1>7, FigureBinds, AssemblyFilters DEF Assembly!IdsOf
  <1>10. shown # <<>> => last # <<>>
    BY DEF Assembly!FigureBlocks
  <1>. HIDE DEF shown, last, blocks
  <1>11. /\ \A b, c \in Range(last) : b = c
         /\ \A b \in Range(last) : b.figures = Assembly!FigureBindings(shown)
         /\ last # <<>> => Range(last) # {}
    BY <1>8, PieceIs
  <1>12. ASSUME NEW x \in Range(shown)
         PROVE  \E b \in blocks :
                  /\ Cardinality({i \in DOMAIN b.figures : b.figures[i].id = x.id}) = 1
                  /\ \A c \in blocks \ {b} : x.id \notin Assembly!IdsOf(c.figures)
    <2>1. shown # <<>>
      BY Empties
    <2>2. PICK b \in Range(last) : TRUE
      BY <1>10, <1>11, <2>1
    <2>3. Cardinality({i \in DOMAIN b.figures : b.figures[i].id = x.id}) = 1
      <3>1. Cardinality({i \in DOMAIN Assembly!FigureBindings(shown) : Assembly!FigureBindings(shown)[i].id = x.id}) = 1
        BY <1>7, OnePlace
      <3>2. b.figures = Assembly!FigureBindings(shown)
        BY <1>11
      <3>. QED
        BY <3>1, <3>2, Zenon
    <2>4. \A c \in blocks \ {b} : x.id \notin Assembly!IdsOf(c.figures)
      <3>1. \A c \in blocks \ {b} : c.figures = <<>>
        BY <1>8, <1>11
      <3>. QED
        BY <3>1, NotInEmpty
    <2>5. b \in blocks
      BY <1>8
    <2>. QED
      BY <2>3, <2>4, <2>5
  <1>13. ASSUME NEW b \in blocks, NEW id, id \in Assembly!IdsOf(b.figures)
         PROVE  \E x \in Range(shown) : x.id = id
    <2>1. b \in Range(last)
      BY <1>8, <1>13, NotInEmpty
    <2>2. id \in {x.id : x \in Range(shown)}
      BY <1>9, <1>11, <1>13, <2>1
    <2>. QED
      BY <2>2
  <1>. QED
    BY <1>6, <1>12, <1>13 DEF shown, showable, blocks

LEMMA TablesSomewhere ==
  ASSUME NEW doc, NEW a, Assembly!IsPaper(doc, a), ~Assembly!Raises(doc, a),
         NEW t \in Range(Assembly!ImportantTables(doc))
  PROVE  \E b \in Range(Assembly!Blocks(doc, a)) : t.id \in Assembly!IdsOf(b.tables)
  <1>. DEFINE body == Assembly!Body(doc, a)
              items == Assembly!ImportantTables(doc)
              left == Assembly!LeftoverTables(doc, body)
              piece == Assembly!TableBlocks(left)
              S == {x \in Assembly!Range(items) : \A b \in Assembly!Range(body) : x.id \notin Assembly!IdsOf(b.tables)}
  <1>1. /\ Range(body) \cup Range(piece) \subseteq Range(Assembly!Blocks(doc, a))
        /\ IsPiece(Assembly!DrawnOn(a), piece, <<>>, <<>>, Assembly!Bindings(left)) /\ IsList(left)
    BY BlocksAre
  <1>2. CASE \E b \in Range(body) : t.id \in Assembly!IdsOf(b.tables)
    BY <1>1, <1>2
  <1>3. CASE ~ \E b \in Range(body) : t.id \in Assembly!IdsOf(b.tables)
    <2>1. left = Assembly!Among(items, S)
      BY DEF Assembly!LeftoverTables, Assembly!Those
    <2>2. IsList(items)
      BY PaperIs, TablesListed
    <2>3. t \in S
      BY <1>3, AssemblyFilters
    <2>4. t \in Range(left)
      <3>. HIDE DEF left, S, items
      <3>1. t \in Range(items)
        BY DEF items
      <3>. QED
        BY <2>1, <2>2, <2>3, <3>1, ThoseAre
    <2>. HIDE DEF left, S, items, body
    <2>5. piece # <<>>
      <3>1. left # <<>>
        BY <2>4, Empties
      <3>. QED
        BY <3>1 DEF Assembly!TableBlocks
    <2>6. t.id \in Assembly!IdsOf(Assembly!Bindings(left))
      <3>1. Assembly!IdsOf(Assembly!Bindings(left)) = {x.id : x \in Range(left)}
        BY <1>1, Binds, AssemblyFilters DEF Assembly!IdsOf
      <3>. QED
        BY <2>4, <3>1
    <2>. HIDE DEF piece
    <2>7. Range(piece) # {} /\ \A b \in Range(piece) : b.tables = Assembly!Bindings(left)
      BY <1>1, <2>5, PieceIs
    <2>. QED
      BY <1>1, <2>6, <2>7
  <1>. QED
    BY <1>2, <1>3

\* No equation, figure or table is lost, and none of the first two repeated.
LEMMA NothingLost ==
  ASSUME NEW doc, NEW a, Assembly!IsPaper(doc, a), ~Assembly!Raises(doc, a)
  PROVE  Assembly!NothingIsLost(doc, a)
  <1>. DEFINE paper == Assembly!Range(Assembly!Blocks(doc, a))
              showable == Assembly!Those(doc.figures, Assembly!Shown)
              shown == Assembly!Prefix(showable, 4)
              OneEquation(id) == \E b \in paper :
                /\ Cardinality({i \in DOMAIN b.equations : b.equations[i].id = id}) = 1
                /\ \A c \in paper \ {b} : id \notin Assembly!IdsOf(c.equations)
              OneFigure(id) == \E b \in paper :
                /\ Cardinality({i \in DOMAIN b.figures : b.figures[i].id = id}) = 1
                /\ \A c \in paper \ {b} : id \notin Assembly!IdsOf(c.figures)
              SomeFigure(id) == \E b \in paper : id \in Assembly!IdsOf(b.figures)
  <1>0. \A s : Assembly!Range(s) = Range(s)
    BY AssemblyFilters
  <1>1. \A e \in Assembly!Range(a.equations) : OneEquation(e.id)
    BY <1>0, EquationsOnce, Zenon
  <1>2. /\ IsList(showable) /\ \A x \in Range(shown) : OneFigure(x.id)
        /\ \A id : SomeFigure(id) => \E x \in Range(shown) : x.id = id
    BY <1>0, FiguresOnce, Zenon
  <1>3. \A t \in Assembly!Range(Assembly!ImportantTables(doc)) :
          \E b \in paper : t.id \in Assembly!IdsOf(b.tables)
    BY <1>0, TablesSomewhere
  <1>4. ASSUME NEW f \in Assembly!Range(showable)
        PROVE  IF Len(showable) <= 4 THEN OneFigure(f.id) ELSE SomeFigure(f.id) => OneFigure(f.id)
    <2>. HIDE DEF OneFigure, SomeFigure, showable
    <2>1. CASE Len(showable) <= 4
      <3>1. /\ Len(shown) = Len(showable)
            /\ Range(shown) = {showable[i] : i \in 1 .. Len(shown)}
        BY <1>2, <2>1, PrefixIs
      <3>2. Len(showable) \in Nat /\ Range(showable) = {showable[i] : i \in 1 .. Len(showable)}
        BY <1>2, Lists DEF IsList
      <3>. HIDE DEF shown
      <3>3. f \in Range(shown)
        BY <1>0, <3>1, <3>2
      <3>. QED
        BY <1>2, <2>1, <3>3
    <2>2. SomeFigure(f.id) => OneFigure(f.id)
      <3>. HIDE DEF shown
      <3>1. SUFFICES ASSUME SomeFigure(f.id) PROVE OneFigure(f.id)
        OBVIOUS
      <3>2. PICK x \in Range(shown) : x.id = f.id
        BY <1>2, <3>1
      <3>3. OneFigure(x.id)
        BY <1>2
      <3>. QED
        BY <3>2, <3>3
    <2>. QED
      BY <2>1, <2>2
  <1>5. \A id : Assembly!Once(id, Assembly!Blocks(doc, a), LAMBDA b : b.equations) <=> OneEquation(id)
    BY AssemblyFilters DEF Assembly!Once
  <1>6. \A id : Assembly!Once(id, Assembly!Blocks(doc, a), LAMBDA b : b.figures) <=> OneFigure(id)
    BY AssemblyFilters DEF Assembly!Once
  <1>. HIDE DEF OneEquation, OneFigure, SomeFigure
  <1>. QED
    BY <1>1, <1>3, <1>4, <1>5, <1>6, Zenon DEF Assembly!NothingIsLost, Assembly!Somewhere, SomeFigure

\* What validation looks at of a block cites evidence of the document, and the
\* diagram has no loose ends; what it does not look at cites what the analysis and the
\* visual model cited: the Archify graph keeps the nodes of the diagram, and a figure
\* what was read in that figure.  The outline leads to blocks that show something;
\* equations and figures are shown once, and every important table is shown.
THEOREM PaperSafe ==
  RulesSpec => []PaperIsGrounded
  <1>1. Init => (Is("paper") => input.of \in Assembled)
    BY DEF Init, Is
  <1>2. (Is("paper") => input.of \in Assembled) /\ [Next]_input => (Is("paper") => input.of \in Assembled)'
    BY DEF Next, Is
  <1>3. (Is("paper") => input.of \in Assembled) => PaperIsGrounded
    BY PapersAssumption, GroundedPaper, NothingLost DEF PaperIsGrounded, Assembled
  <1>. QED
    BY <1>1, <1>2, <1>3, PTL DEF RulesSpec

---------------------------------------------------------------------------
(* The views: charts and comparisons. *)

\* A module that is instantiated filters as this one does.
LEMMA ViewsFilters ==
  ASSUME NEW s, NEW S
  PROVE  Views!Among(s, S) = Among(s, S) /\ Views!Range(s) = Range(s)
         /\ Views!IsInjective(s) = IsInjective(s)
         /\ Views!Cardinality(S) = Cardinality(S)
  BY DEF Views!Among, Among, Views!Range, Range, Views!IsInjective, IsInjective,
         Views!Cardinality, Cardinality

\* A chart is of numbers of one metric; a number alone is the only result.
LEMMA ChartsAreFair ==
  ASSUME NEW steps, NEW results, IsList(results)
  PROVE  Views!ViewsClaimNoMore(steps, results)
  <1>. DEFINE S == {r \in Views!Range(results) : Views!Numeric(r)}
              numbers == Views!Among(results, S)
              view == Views!ResultView(results)
              Fair(v) ==
                /\ v.type = "BAR_CHART" =>
                     /\ Len(v.rows) >= 2
                     /\ \E metric \in {r.metric : r \in Views!Range(results)} \ {None} :
                          \A r \in Views!Range(v.rows) : r.numeric /\ r.metric = metric
                /\ v.type = "METRIC" => Len(results) = 1 /\ results[1].numeric
                /\ v.type = "TABLE" => v.rows = results
  <1>1. /\ \A x : x \in Range(numbers) <=> x \in Range(results) /\ x \in S
        /\ Len(numbers) \in Nat /\ Range(numbers) = {numbers[i] : i \in 1 .. Len(numbers)}
    <2>1. IsList(Among(results, S)) /\ \A x : x \in Range(Among(results, S)) <=> x \in Range(results) /\ x \in S
      BY AmongIs
    <2>2. numbers = Among(results, S)
      BY ViewsFilters
    <2>. HIDE DEF numbers, S
    <2>3. IsList(numbers)
      BY <2>1, <2>2
    <2>4. Len(numbers) \in Nat /\ Range(numbers) = {numbers[i] : i \in 1 .. Len(numbers)}
      BY <2>3, Lists DEF IsList
    <2>. QED
      BY <2>1, <2>2, <2>4
  <1>2. view = IF Len(numbers) >= 2 /\ numbers[1].metric # None
                  /\ \A r \in Views!Range(numbers) : r.metric = numbers[1].metric
                 THEN [type |-> "BAR_CHART", rows |-> numbers]
               ELSE IF Len(numbers) = 1 /\ Len(results) = 1 THEN [type |-> "METRIC", rows |-> numbers]
               ELSE [type |-> "TABLE", rows |-> results]
    BY DEF Views!ResultView, Views!Those, Views!View
  <1>3. /\ Views!Range(results) = Range(results) /\ Views!Range(numbers) = Range(numbers)
        /\ \A x \in S : x.numeric /\ x \in Range(results)
    BY ViewsFilters DEF Views!Numeric
  <1>4. /\ Len(results) \in Nat /\ DOMAIN results = 1 .. Len(results)
        /\ Range(results) = {results[i] : i \in 1 .. Len(results)}
    BY Lists DEF IsList
  <1>. HIDE DEF numbers, S, view
  <1>5. Fair(view)
    <2>1. CASE /\ Len(numbers) >= 2 /\ numbers[1].metric # None
               /\ \A r \in Views!Range(numbers) : r.metric = numbers[1].metric
      <3>1. view.type = "BAR_CHART" /\ view.rows = numbers
        BY <1>2, <2>1
      <3>2. numbers[1] \in Range(numbers)
        BY <1>1, <2>1
      <3>3. numbers[1].metric \in {r.metric : r \in Views!Range(results)} \ {None}
        BY <1>1, <1>3, <2>1, <3>2
      <3>4. \A r \in Views!Range(numbers) : r.numeric /\ r.metric = numbers[1].metric
        BY <1>1, <1>3, <2>1
      <3>. QED
        BY <2>1, <3>1, <3>3, <3>4
    <2>2. CASE /\ ~ (/\ Len(numbers) >= 2 /\ numbers[1].metric # None
                     /\ \A r \in Views!Range(numbers) : r.metric = numbers[1].metric)
               /\ Len(numbers) = 1 /\ Len(results) = 1
      <3>1. view.type = "METRIC"
        BY <1>2, <2>2
      <3>2. numbers[1] \in Range(numbers)
        BY <1>1, <2>2
      <3>3. numbers[1] = results[1] /\ numbers[1].numeric
        BY <1>1, <1>3, <1>4, <2>2, <3>2
      <3>. QED
        BY <2>2, <3>1, <3>3
    <2>3. CASE /\ ~ (/\ Len(numbers) >= 2 /\ numbers[1].metric # None
                     /\ \A r \in Views!Range(numbers) : r.metric = numbers[1].metric)
               /\ ~ (Len(numbers) = 1 /\ Len(results) = 1)
      <3>1. view.type = "TABLE" /\ view.rows = results
        BY <1>2, <2>3
      <3>. QED
        BY <3>1
    <2>. QED
      BY <2>1, <2>2, <2>3
  <1>6. Fair([type |-> "METHOD_FLOW", rows |-> steps])
    OBVIOUS
  <1>7. \A v \in Views!Range(Views!PlanVisualizations(steps, results)) :
          v = view \/ v = [type |-> "METHOD_FLOW", rows |-> steps]
    <2>. DEFINE flow == [type |-> "METHOD_FLOW", rows |-> steps]
                A == IF steps = <<>> THEN <<>> ELSE <<flow>>
                B == IF results = <<>> THEN <<>> ELSE <<view>>
    <2>1. Views!PlanVisualizations(steps, results) = A \o B
      BY DEF Views!PlanVisualizations, Views!View, view
    <2>. HIDE DEF flow
    <2>2. A \in Seq({flow, view}) /\ B \in Seq({flow, view})
      <3>1. ASSUME NEW X, NEW x \in X PROVE <<>> \in Seq(X) /\ <<x>> \in Seq(X)
        OBVIOUS
      <3>2. A \in {<<>>, <<flow>>} /\ B \in {<<>>, <<view>>}
        BY Zenon
      <3>. HIDE DEF A, B
      <3>. QED
        BY <3>1, <3>2
    <2>. HIDE DEF A, B
    <2>3. A \o B \in Seq({flow, view})
      BY <2>2
    <2>4. \A i \in DOMAIN (A \o B) : (A \o B)[i] \in {flow, view}
      BY <2>3
    <2>. QED
      BY <2>1, <2>4 DEF Views!Range, flow
  <1>. HIDE DEF Fair
  <1>8. \A v \in Views!Range(Views!PlanVisualizations(steps, results)) : Fair(v)
    BY <1>5, <1>6, <1>7
  <1>. QED
    BY <1>8, Zenon DEF Views!ViewsClaimNoMore, Fair

\* Recursion over 0 .. n by steps that stay in S.
CanRecur(n, S, base, step) == n \in Nat /\ base \in S /\ step \in [1 .. n -> [S -> S]]
Recurs(f, n, S, base, step) ==
  f \in [0 .. n -> S] /\ f[0] = base /\ \A i \in 1 .. n : f[i] = step[i][f[i - 1]]

\* A function that is defined by recursion exists.
LEMMA RecursionRuns ==
  ASSUME NEW n, NEW S, NEW base, NEW step, CanRecur(n, S, base, step)
  PROVE  \E f : Recurs(f, n, S, base, step)
  <1>0. n \in Nat /\ base \in S /\ \A i \in 1 .. n : \A x \in S : step[i][x] \in S
    BY DEF CanRecur
  <1>. DEFINE Runs(f, m) == /\ f[0] = base
                            /\ \A i \in 1 .. m : f[i] = step[i][f[i - 1]]
                            /\ \A i \in 0 .. m : f[i] \in S
              T == {m \in 0 .. n : \E f : Runs(f, m)}
  <1>1. 0 \in T
    <2>1. Runs([i \in {0} |-> base], 0)
      BY <1>0
    <2>. HIDE DEF Runs
    <2>. QED
      BY <1>0, <2>1
  <1>2. ASSUME NEW m \in 1 .. n, m - 1 \in T PROVE m \in T
    <2>1. PICK f : Runs(f, m - 1)
      <3>. HIDE DEF Runs
      <3>. QED
        BY <1>2
    <2>. DEFINE next == step[m][f[m - 1]]
                g == [i \in 0 .. m |-> IF i = m THEN next ELSE f[i]]
    <2>2. m \in Nat /\ m # 0 /\ m - 1 \in 0 .. (m - 1) /\ m \in 0 .. n /\ m \in 1 .. n
      BY <1>0
    <2>3. g[m] = next /\ \A i \in 0 .. (m - 1) : g[i] = f[i]
      BY <2>2
    <2>4. next \in S
      BY <1>0, <2>1, <2>2
    <2>. HIDE DEF g
    <2>5. g[0] = base
      BY <2>1, <2>2, <2>3
    <2>6. ASSUME NEW i \in 1 .. m PROVE g[i] = step[i][g[i - 1]]
      <3>1. i - 1 \in 0 .. (m - 1) /\ g[i - 1] = f[i - 1]
        BY <2>2, <2>3
      <3>2. CASE i = m
        BY <2>3, <3>1, <3>2
      <3>3. CASE i # m
        <4>1. i \in 1 .. (m - 1) /\ i \in 0 .. (m - 1)
          BY <2>2, <3>3
        <4>. QED
          BY <2>1, <2>3, <3>1, <4>1
      <3>. QED
        BY <3>2, <3>3
    <2>7. ASSUME NEW i \in 0 .. m PROVE g[i] \in S
      <3>1. i = m \/ i \in 0 .. (m - 1)
        BY <2>2
      <3>. QED
        BY <2>1, <2>3, <2>4, <3>1
    <2>8. Runs(g, m)
      BY <2>5, <2>6, <2>7
    <2>. HIDE DEF Runs
    <2>. QED
      BY <2>2, <2>8
  <1>3. n \in T
    <2>. HIDE DEF T
    <2>1. 0 .. n \subseteq T
      BY <1>0, <1>1, <1>2, BoundedInduction
    <2>. QED
      BY <1>0, <2>1
  <1>4. PICK f : Runs(f, n)
    <2>. HIDE DEF Runs
    <2>. QED
      BY <1>3
  <1>. DEFINE g == [i \in 0 .. n |-> f[i]]
  <1>5. g \in [0 .. n -> S] /\ \A i \in 0 .. n : g[i] = f[i]
    BY <1>4
  <1>6. 0 \in 0 .. n /\ \A i \in 1 .. n : i \in 0 .. n /\ i - 1 \in 0 .. n
    BY <1>0
  <1>. HIDE DEF g
  <1>7. g[0] = base
    BY <1>4, <1>5, <1>6
  <1>8. ASSUME NEW i \in 1 .. n PROVE g[i] = step[i][g[i - 1]]
    BY <1>4, <1>5, <1>6
  <1>. QED
    BY <1>5, <1>7, <1>8 DEF Recurs

\* No item comes twice.
Distinct(s) == \A i, j \in 1 .. Len(s) : s[i] = s[j] => i = j

\* A list with one more item, which is new in it.
LEMMA AppendNew ==
  ASSUME NEW X, NEW q \in Seq(X), NEW x \in X, x \notin Range(q), Distinct(q)
  PROVE  /\ Append(q, x) \in Seq(X) /\ Distinct(Append(q, x))
         /\ Range(Append(q, x)) = Range(q) \cup {x}
  <1>. DEFINE r == Append(q, x)
  <1>1. Len(q) \in Nat /\ Range(q) = {q[k] : k \in 1 .. Len(q)}
    BY Lists
  <1>2. r \in Seq(X) /\ Len(r) = Len(q) + 1 /\ r[Len(q) + 1] = x /\ \A k \in 1 .. Len(q) : r[k] = q[k]
    OBVIOUS
  <1>. HIDE DEF r
  <1>3. Range(r) = {r[k] : k \in 1 .. Len(r)}
    BY <1>2, Lists
  <1>4. \A k \in 1 .. Len(r) : k \in 1 .. Len(q) \/ k = Len(q) + 1
    BY <1>1, <1>2
  <1>5. Distinct(r)
    BY <1>1, <1>2, <1>4 DEF Distinct
  <1>6. Range(r) = Range(q) \cup {x}
    <2>1. Len(q) + 1 \in 1 .. Len(r) /\ \A k \in 1 .. Len(q) : k \in 1 .. Len(r)
      BY <1>1, <1>2
    <2>. QED
      BY <1>1, <1>2, <1>3, <1>4, <2>1
  <1>. QED
    BY <1>2, <1>5, <1>6 DEF r

\* The first of each is in the list once.
LEMMA UniqIs ==
  ASSUME NEW s, IsList(s), NEW u, u = Views!Uniq(s)
  PROVE  IsList(u) /\ Distinct(u) /\ Range(u) = Range(s)
  <1>. DEFINE n == Len(s)
              X == Range(s)
              Q == Seq(X)
              Add(q, x) == IF x \in Views!Range(q) THEN q ELSE Append(q, x)
              step == [i \in 1 .. n |-> [q \in Q |-> Add(q, s[i])]]
              Runs(f) == f = [i \in 0 .. n |-> IF i = 0 THEN <<>> ELSE Add(f[i - 1], s[i])]
  <1>1. n \in Nat /\ X = {s[i] : i \in 1 .. n}
    BY Lists DEF IsList
  <1>. HIDE DEF n, X
  <1>2. ASSUME NEW q \in Q, NEW x \in X PROVE Add(q, x) \in Q
    OBVIOUS
  <1>3. ASSUME NEW q \in Q, NEW x \in X, Distinct(q)
        PROVE  Distinct(Add(q, x)) /\ Range(Add(q, x)) = Range(q) \cup {x}
    <2>1. CASE x \in Range(q)
      <3>1. Add(q, x) = q
        BY <2>1, ViewsFilters
      <3>. QED
        BY <1>3, <2>1, <3>1
    <2>2. CASE x \notin Range(q)
      <3>. DEFINE r == Append(q, x)
      <3>1. Add(q, x) = r
        BY <2>2, ViewsFilters
      <3>2. r \in Q /\ Distinct(r) /\ Range(r) = Range(q) \cup {x}
        BY <1>3, <2>2, AppendNew
      <3>. QED
        BY <3>1, <3>2
    <2>. QED
      BY <2>1, <2>2
  <1>4. \E f : Runs(f)
    <2>1. <<>> \in Q
      OBVIOUS
    <2>2. \A i \in 1 .. n, q \in Q : step[i][q] = Add(q, s[i]) /\ step[i][q] \in Q
      <3>1. \A i \in 1 .. n, q \in Q : step[i][q] = Add(q, s[i])
        OBVIOUS
      <3>. HIDE DEF step, Add, Q
      <3>. QED
        BY <1>1, <1>2, <3>1
    <2>. HIDE DEF step, Add, Q
    <2>3. CanRecur(n, Q, <<>>, step)
      BY <1>1, <2>1, <2>2 DEF CanRecur, step
    <2>4. PICK f : Recurs(f, n, Q, <<>>, step)
      BY <2>3, RecursionRuns
    <2>5. f \in [0 .. n -> Q] /\ f[0] = <<>> /\ \A i \in 1 .. n : f[i] = step[i][f[i - 1]]
      BY <2>4 DEF Recurs
    <2>6. \A i \in 0 .. n : f[i] = IF i = 0 THEN <<>> ELSE Add(f[i - 1], s[i])
      <3>1. \A i \in 0 .. n : i # 0 => i \in 1 .. n /\ i - 1 \in 0 .. n
        BY <1>1
      <3>. QED
        BY <2>2, <2>5, <3>1
    <2>7. Runs(f)
      BY <2>5, <2>6
    <2>. HIDE DEF Runs
    <2>. QED
      BY <2>7
  <1>. DEFINE h == CHOOSE f : Runs(f)
              Good(i) == h[i] \in Q /\ Distinct(h[i]) /\ Range(h[i]) = {s[k] : k \in 1 .. i}
              T == {i \in 0 .. n : Good(i)}
  <1>5. Views!Uniq(s) = h[n]
    BY ViewsFilters, Zenon DEF Views!Uniq, n
  <1>6. Runs(h)
    <2>. HIDE DEF Runs
    <2>. QED
      BY <1>4
  <1>7. h[0] = <<>> /\ \A i \in 1 .. n : h[i] = Add(h[i - 1], s[i])
    <2>. HIDE DEF h, Add
    <2>. QED
      BY <1>1, <1>6
  <1>. HIDE DEF h
  <1>8. 0 \in T
    <2>1. <<>> \in Q /\ Distinct(<<>>) /\ Range(<<>>) = {} /\ {s[k] : k \in 1 .. 0} = {}
      BY DEF Range, Distinct
    <2>. HIDE DEF Q
    <2>. QED
      BY <1>1, <1>7, <2>1
  <1>9. ASSUME NEW i \in 1 .. n, i - 1 \in T PROVE i \in T
    <2>1. Good(i - 1) /\ i \in 0 .. n /\ s[i] \in X
      BY <1>1, <1>9
    <2>. HIDE DEF Add, Q
    <2>2. h[i] \in Q /\ Distinct(h[i]) /\ Range(h[i]) = Range(h[i - 1]) \cup {s[i]}
      BY <1>2, <1>3, <1>7, <2>1
    <2>3. {s[k] : k \in 1 .. i} = {s[k] : k \in 1 .. (i - 1)} \cup {s[i]}
      <3>1. \A k \in 1 .. i : k \in 1 .. (i - 1) \/ k = i
        BY <1>1
      <3>2. i \in 1 .. i /\ \A k \in 1 .. (i - 1) : k \in 1 .. i
        BY <1>1
      <3>. QED
        BY <3>1, <3>2
    <2>. QED
      BY <2>1, <2>2, <2>3
  <1>10. n \in T
    <2>. HIDE DEF T
    <2>1. 0 .. n \subseteq T
      BY <1>1, <1>8, <1>9, BoundedInduction
    <2>. QED
      BY <1>1, <2>1
  <1>11. u \in Seq(X) /\ Distinct(u) /\ Range(u) = X
    <2>. QED
      BY <1>1, <1>5, <1>10
  <1>. QED
    BY <1>11, Lists DEF X

\* Papers called comparable: two state their values, and all that do agree.
LEMMA ComparisonIsFair ==
  ASSUME NEW papers, IsList(papers), NEW analysed, NEW values
  PROVE  Views!ComparisonClaimsNoMore(papers, analysed, values)
  <1>. DEFINE ids == Views!Uniq(papers)
              vs == [i \in DOMAIN ids |-> values[ids[i]]]
              S == {v \in Views!Range(vs) : v # {}}
              stated == Views!Among(vs, S)
              verdict == [d \in Views!Dimensions |-> Views!Comparability(d, vs)]
              c == Views!Compare(papers, analysed, values)
              Stating == {p \in Range(ids) : values[p] # {}}
  <1>1. /\ IsList(ids) /\ Len(ids) \in Nat /\ DOMAIN ids = 1 .. Len(ids)
        /\ Range(ids) = {ids[i] : i \in 1 .. Len(ids)}
        /\ \A i, j \in 1 .. Len(ids) : ids[i] = ids[j] => i = j
    <2>1. IsList(ids) /\ \A i, j \in 1 .. Len(ids) : ids[i] = ids[j] => i = j
      BY UniqIs DEF Distinct
    <2>. HIDE DEF ids
    <2>2. /\ Len(ids) \in Nat /\ DOMAIN ids = 1 .. Len(ids)
          /\ Range(ids) = {ids[i] : i \in 1 .. Len(ids)}
      BY <2>1, Lists DEF IsList
    <2>. QED
      BY <2>1, <2>2
  <1>2. c = IF ~Views!Comparable(papers, analysed) THEN None ELSE [papers |-> ids, verdict |-> verdict]
    BY DEF Views!Compare
  <1>3. \A d : Views!Comparability(d, vs) =
          IF Len(stated) < 2 \/ d = "Results" THEN {"PARTIALLY_COMPARABLE"}
          ELSE IF \A v \in Views!Range(stated) : v = stated[1]
                 THEN {"COMPARABLE"} \cup IF Views!Cardinality(stated[1]) > 1 THEN {"NOT_COMPARABLE"} ELSE {}
          ELSE {"NOT_COMPARABLE"}
    BY Zenon DEF Views!Comparability, Views!Those
  <1>. HIDE DEF ids
  <1>4. IsList(vs) /\ Len(vs) = Len(ids) /\ Range(vs) = {vs[i] : i \in 1 .. Len(vs)}
    <2>1. vs \in Seq({values[p] : p \in Range(ids)}) /\ Len(vs) = Len(ids)
      BY <1>1
    <2>. HIDE DEF vs
    <2>. QED
      BY <2>1, Lists
  <1>5. \A i \in 1 .. Len(ids) : vs[i] = values[ids[i]]
    BY <1>1
  <1>6. \A v : v \in S <=> v \in Range(vs) /\ v # {}
    BY ViewsFilters
  <1>. HIDE DEF vs, S
  <1>7. PICK at : Keeps(vs, S, Len(vs), stated, at)
    BY <1>4, AmongKeeps, ViewsFilters
  <1>8. /\ Len(stated) \in Nat /\ Range(stated) = {stated[i] : i \in 1 .. Len(stated)}
        /\ Views!Range(stated) = Range(stated)
    <2>1. IsList(stated)
      BY <1>4, AmongIs, ViewsFilters
    <2>. HIDE DEF stated
    <2>. QED
      BY <2>1, Lists, ViewsFilters DEF IsList
  <1>. HIDE DEF stated
  <1>9. ASSUME Len(stated) >= 2, \A v \in Views!Range(stated) : v = stated[1]
        PROVE  Cardinality(Stating) >= 2 /\ \A p, q \in Stating : values[p] = values[q]
    <2>1. /\ \A i \in 1 .. Len(stated) : at[i] \in 1 .. Len(ids) /\ stated[i] = vs[at[i]] /\ vs[at[i]] \in S
          /\ \A i, j \in 1 .. Len(stated) : i < j => at[i] < at[j]
          /\ \A n \in 1 .. Len(ids) : vs[n] \in S => \E i \in 1 .. Len(stated) : at[i] = n
      BY <1>4, <1>7 DEF Keeps
    <2>2. \A p \in Stating : values[p] = stated[1]
      <3>1. ASSUME NEW p \in Stating PROVE values[p] = stated[1]
        <4>1. PICK n \in 1 .. Len(ids) : ids[n] = p /\ vs[n] = values[p]
          BY <1>1, <1>5
        <4>2. vs[n] \in S
          BY <1>4, <1>6, <4>1
        <4>3. PICK i \in 1 .. Len(stated) : at[i] = n
          BY <2>1, <4>1, <4>2
        <4>4. stated[i] = values[p] /\ stated[i] \in Range(stated)
          BY <1>8, <2>1, <4>1, <4>3
        <4>. QED
          BY <1>8, <1>9, <4>4
      <3>. QED
        BY <3>1
    <2>3. 1 \in 1 .. Len(stated) /\ 2 \in 1 .. Len(stated)
      BY <1>8, <1>9
    <2>. DEFINE p == ids[at[1]]
                q == ids[at[2]]
    <2>4. at[1] \in 1 .. Len(ids) /\ at[2] \in 1 .. Len(ids) /\ at[1] < at[2]
      BY <2>1, <2>3
    <2>5. p # q /\ p \in Stating /\ q \in Stating
      <3>1. at[1] # at[2]
        BY <1>1, <2>4
      <3>2. vs[at[1]] \in S /\ vs[at[2]] \in S
        BY <2>1, <2>3
      <3>. QED
        BY <1>1, <1>5, <1>6, <2>4, <3>1, <3>2
    <2>6. IsFiniteSet(Stating)
      <3>1. IsFiniteSet(1 .. Len(ids))
        BY <1>1, FS_Interval
      <3>2. IsFiniteSet({ids[i] : i \in 1 .. Len(ids)})
        <4>. DEFINE f == [i \in 1 .. Len(ids) |-> ids[i]]
        <4>1. f \in Surjection(1 .. Len(ids), {ids[i] : i \in 1 .. Len(ids)})
          BY DEF Surjection
        <4>. QED
          BY <3>1, <4>1, FS_Surjection
      <3>3. Stating \subseteq {ids[i] : i \in 1 .. Len(ids)}
        BY <1>1
      <3>. QED
        BY <3>2, <3>3, FS_Subset
    <2>. HIDE DEF p, q, Stating
    <2>7. Cardinality(Stating) >= 2
      <3>1. IsFiniteSet({p}) /\ Cardinality({p}) = 1
        BY FS_Singleton
      <3>2. IsFiniteSet({p} \cup {q}) /\ Cardinality({p} \cup {q}) = 2
        <4>1. q \notin {p}
          BY <2>5
        <4>. QED
          BY <3>1, <4>1, FS_AddElement
      <3>3. {p} \cup {q} \subseteq Stating
        BY <2>5
      <3>4. Cardinality(Stating) \in Nat /\ Cardinality({p} \cup {q}) <= Cardinality(Stating)
        BY <2>6, <3>3, FS_Subset, FS_CardinalityType
      <3>. QED
        BY <3>2, <3>4
    <2>. QED
      BY <2>2, <2>7
  <1>10. ASSUME c # None
         PROVE  /\ c.verdict["Results"] = {"PARTIALLY_COMPARABLE"}
                /\ \A d \in Views!Dimensions : "COMPARABLE" \in c.verdict[d] =>
                     /\ Cardinality(Stating) >= 2
                     /\ \A p, q \in Stating : values[p] = values[q]
    <2>1. c.papers = ids /\ c.verdict = verdict
      BY <1>2, <1>10
    <2>2. \A d \in Views!Dimensions : c.verdict[d] = Views!Comparability(d, vs)
      BY <2>1
    <2>3. "Results" \in Views!Dimensions
      BY DEF Views!Dimensions
    <2>4. c.verdict["Results"] = {"PARTIALLY_COMPARABLE"}
      BY <1>3, <2>2, <2>3
    <2>5. ASSUME NEW d \in Views!Dimensions, "COMPARABLE" \in c.verdict[d]
          PROVE  Len(stated) >= 2 /\ \A v \in Views!Range(stated) : v = stated[1]
      <3>1. "COMPARABLE" \in Views!Comparability(d, vs)
        BY <2>2, <2>5
      <3>2. CASE Len(stated) < 2 \/ d = "Results"
        <4>1. Views!Comparability(d, vs) = {"PARTIALLY_COMPARABLE"}
          BY <1>3, <3>2
        <4>. QED
          BY <3>1, <4>1
      <3>3. CASE ~ (Len(stated) < 2 \/ d = "Results") /\ ~ \A v \in Views!Range(stated) : v = stated[1]
        <4>1. Views!Comparability(d, vs) = {"NOT_COMPARABLE"}
          BY <1>3, <3>3, Zenon
        <4>. QED
          BY <3>1, <4>1
      <3>. QED
        BY <1>8, <3>2, <3>3
    <2>. HIDE DEF Stating, c
    <2>. QED
      BY <1>9, <2>4, <2>5
  <1>11. c # None => Views!Range(c.papers) = Range(ids)
    <2>1. c # None => c.papers = ids
      BY <1>2
    <2>. HIDE DEF c
    <2>. QED
      BY <2>1, ViewsFilters
  <1>12. c # None => {p \in Views!Range(c.papers) : values[p] # {}} = Stating
    <2>. HIDE DEF c
    <2>. QED
      BY <1>11
  <1>13. Views!Cardinality(Stating) = Cardinality(Stating)
    BY ViewsFilters
  <1>. HIDE DEF Stating
  <1>. QED
    BY <1>10, <1>12, <1>13, Zenon DEF Views!ComparisonClaimsNoMore, c

---------------------------------------------------------------------------
(* The views: the citation graph. *)

\* What a reference leads to.
LeadsTo(library, r) ==
  LET m == Views!Matched(library, r)
  IN IF m = None THEN Views!ReferenceNode(r.id) ELSE Views!PaperNode(m)

\* The graph after the references before k.
GraphFits(library, paper, references, k, g) ==
  /\ Distinct(g.nodes)
  /\ Range(g.nodes) = {Views!PaperNode(paper)} \cup {LeadsTo(library, references[i]) : i \in 1 .. k}
  /\ Len(g.edges) = k
  /\ \A i \in 1 .. k : /\ g.edges[i].reference = references[i].id
                       /\ g.edges[i].target = LeadsTo(library, references[i])

CiteEdge(library, r) == [reference |-> r.id, target |-> LeadsTo(library, r)]
Graphs(N, E) == [nodes : Seq(N), edges : Seq(E)]

LEMMA CitesStay ==
  ASSUME NEW library, NEW r, NEW N, NEW E, NEW g \in Graphs(N, E),
         LeadsTo(library, r) \in N, CiteEdge(library, r) \in E
  PROVE  Views!Cite(library, g, r) \in Graphs(N, E)
  <1>. DEFINE target == LeadsTo(library, r)
              edge == CiteEdge(library, r)
              known == Views!Matched(library, r) # None /\ target \in Views!Range(g.nodes)
              nodes == IF known THEN g.nodes ELSE Append(g.nodes, target)
              edges == Append(g.edges, edge)
  <1>1. Views!Cite(library, g, r) = [nodes |-> nodes, edges |-> edges]
    BY Zenon DEF Views!Cite, LeadsTo, CiteEdge
  <1>. HIDE DEF known, target, edge
  <1>2. nodes \in Seq(N) /\ edges \in Seq(E)
    BY DEF Graphs, target, edge
  <1>. HIDE DEF nodes, edges
  <1>. QED
    BY <1>1, <1>2 DEF Graphs

\* A reference adds one edge, and its node where that is missing.
LEMMA CitesJoin ==
  ASSUME NEW library, NEW paper, NEW references, NEW N, NEW E, NEW k \in Nat, k # 0,
         \A i, j \in 1 .. k : references[i].id = references[j].id => i = j,
         NEW g \in Graphs(N, E), GraphFits(library, paper, references, k - 1, g),
         LeadsTo(library, references[k]) \in N, CiteEdge(library, references[k]) \in E
  PROVE  GraphFits(library, paper, references, k, Views!Cite(library, g, references[k]))
  <1>. DEFINE r == references[k]
              m == Views!Matched(library, r)
              target == LeadsTo(library, r)
              edge == CiteEdge(library, r)
              h == Views!Cite(library, g, r)
              known == m # None /\ target \in Views!Range(g.nodes)
              nodes == IF known THEN g.nodes ELSE Append(g.nodes, target)
              edges == Append(g.edges, edge)
  <1>1. h = [nodes |-> nodes, edges |-> edges]
    BY Zenon DEF Views!Cite, LeadsTo, CiteEdge
  <1>2. Views!Range(g.nodes) = Range(g.nodes) /\ g.nodes \in Seq(N) /\ g.edges \in Seq(E)
    BY ViewsFilters DEF Graphs
  <1>3. /\ Distinct(g.nodes)
        /\ Range(g.nodes) = {Views!PaperNode(paper)} \cup {LeadsTo(library, references[i]) : i \in 1 .. (k - 1)}
        /\ Len(g.edges) = k - 1
        /\ \A i \in 1 .. (k - 1) : /\ g.edges[i].reference = references[i].id
                                   /\ g.edges[i].target = LeadsTo(library, references[i])
    BY DEF GraphFits
  <1>4. target \in Range(g.nodes) => known
    <2>1. SUFFICES ASSUME m = None, target \in Range(g.nodes) PROVE FALSE
      BY <1>2
    <2>2. target = <<"reference", r.id>>
      BY <2>1 DEF LeadsTo, Views!ReferenceNode
    <2>. HIDE DEF m, target
    <2>3. target # Views!PaperNode(paper)
      BY <2>2 DEF Views!PaperNode
    <2>4. PICK i \in 1 .. (k - 1) : target = LeadsTo(library, references[i])
      BY <1>3, <2>1, <2>3
    <2>5. LeadsTo(library, references[i]) = <<"reference", references[i].id>>
          \/ \E x : LeadsTo(library, references[i]) = <<"paper", x>>
      BY DEF LeadsTo, Views!ReferenceNode, Views!PaperNode
    <2>6. references[i].id = r.id
      BY <2>2, <2>4, <2>5
    <2>7. i \in 1 .. k /\ k \in 1 .. k /\ i # k
      OBVIOUS
    <2>. QED
      BY <2>6, <2>7
  <1>5. target \in N /\ edge \in E
    OBVIOUS
  <1>6. edge.reference = r.id /\ edge.target = target
    BY DEF CiteEdge
  <1>. HIDE DEF target, edge, m, h
  <1>7. /\ nodes \in Seq(N) /\ Range(nodes) = Range(g.nodes) \cup {target}
        /\ Distinct(nodes)
    <2>1. CASE known
      <3>1. nodes = g.nodes
        BY <2>1
      <3>. QED
        BY <1>2, <1>3, <2>1, <3>1
    <2>2. CASE ~known
      <3>1. nodes = Append(g.nodes, target)
        BY <2>2
      <3>. HIDE DEF nodes
      <3>2. target \notin Range(g.nodes)
        BY <1>4, <2>2
      <3>. QED
        BY <1>2, <1>3, <1>5, <3>1, <3>2, AppendNew
    <2>. QED
      BY <2>1, <2>2
  <1>. HIDE DEF nodes, known
  <1>8. {LeadsTo(library, references[i]) : i \in 1 .. k}
          = {LeadsTo(library, references[i]) : i \in 1 .. (k - 1)} \cup {target}
    <2>1. \A i \in 1 .. k : i \in 1 .. (k - 1) \/ i = k
      OBVIOUS
    <2>2. k \in 1 .. k /\ \A i \in 1 .. (k - 1) : i \in 1 .. k
      OBVIOUS
    <2>3. target = LeadsTo(library, references[k])
      BY DEF target
    <2>. QED
      BY <2>1, <2>2, <2>3
  <1>9. /\ edges \in Seq(E) /\ Len(edges) = k /\ edges[k] = edge
        /\ \A i \in 1 .. (k - 1) : edges[i] = g.edges[i]
    BY <1>2, <1>3, <1>5
  <1>. HIDE DEF edges
  <1>10. ASSUME NEW i \in 1 .. k
         PROVE  edges[i].reference = references[i].id /\ edges[i].target = LeadsTo(library, references[i])
    <2>1. CASE i = k
      BY <1>6, <1>9, <2>1 DEF target
    <2>2. CASE i # k
      <3>1. i \in 1 .. (k - 1)
        BY <2>2
      <3>. QED
        BY <1>3, <1>9, <3>1
    <2>. QED
      BY <2>1, <2>2
  <1>11. h.nodes = nodes /\ h.edges = edges
    BY <1>1
  <1>. QED
    BY <1>3, <1>7, <1>8, <1>9, <1>10, <1>11 DEF GraphFits, h

LEMMA GraphJoins ==
  ASSUME NEW library, NEW paper, NEW references, IsList(references),
         \A i, j \in 1 .. Len(references) : references[i].id = references[j].id => i = j
  PROVE  Views!GraphIsJoined(library, paper, references)
  <1>. DEFINE n == Len(references)
              X == Range(references)
              first == Views!PaperNode(paper)
              N == {first} \cup {LeadsTo(library, r) : r \in X}
              E == {CiteEdge(library, r) : r \in X}
              Q == Graphs(N, E)
              start == [nodes |-> <<first>>, edges |-> <<>>]
              step == [i \in 1 .. n |-> [g \in Q |-> Views!Cite(library, g, references[i])]]
              Runs(f) == f = [i \in 0 .. n |-> IF i = 0 THEN start
                                               ELSE Views!Cite(library, f[i - 1], references[i])]
              Good(g, i) == g \in Q /\ GraphFits(library, paper, references, i, g)
  <1>1. n \in Nat /\ X = {references[i] : i \in 1 .. n}
    BY Lists DEF IsList
  <1>2. \A i \in 1 .. n : LeadsTo(library, references[i]) \in N /\ CiteEdge(library, references[i]) \in E
    BY <1>1
  <1>3. Good(start, 0)
    <2>1. /\ <<first>> \in Seq(N) /\ <<>> \in Seq(E) /\ Distinct(<<first>>) /\ Range(<<first>>) = {first}
          /\ {LeadsTo(library, references[i]) : i \in 1 .. 0} = {} /\ Len(<<>>) = 0
      BY DEF Distinct, Range
    <2>. HIDE DEF N, E
    <2>. QED
      BY <2>1 DEF GraphFits, Graphs
  <1>. HIDE DEF n, X, N, E, start
  <1>4. ASSUME NEW i \in 1 .. n, NEW g \in Q PROVE Views!Cite(library, g, references[i]) \in Q
    BY <1>2, CitesStay
  <1>5. ASSUME NEW i \in 1 .. n, NEW g, Good(g, i - 1) PROVE Good(Views!Cite(library, g, references[i]), i)
    <2>1. i \in Nat /\ i # 0 /\ \A j, k \in 1 .. i : references[j].id = references[k].id => j = k
      BY <1>1 DEF n
    <2>2. GraphFits(library, paper, references, i, Views!Cite(library, g, references[i]))
      BY <1>2, <1>5, <2>1, CitesJoin
    <2>. QED
      BY <1>4, <1>5, <2>2
  <1>. HIDE DEF Q
  <1>6. \E f : Runs(f)
    <2>1. \A i \in 1 .. n, g \in Q : step[i][g] = Views!Cite(library, g, references[i])
      OBVIOUS
    <2>2. step \in [1 .. n -> [Q -> Q]]
      BY <1>4
    <2>. HIDE DEF step
    <2>3. CanRecur(n, Q, start, step)
      BY <1>1, <1>3, <2>2 DEF CanRecur
    <2>4. PICK f : Recurs(f, n, Q, start, step)
      BY <2>3, RecursionRuns
    <2>5. f \in [0 .. n -> Q] /\ f[0] = start /\ \A i \in 1 .. n : f[i] = step[i][f[i - 1]]
      BY <2>4 DEF Recurs
    <2>6. \A i \in 0 .. n : f[i] = IF i = 0 THEN start ELSE Views!Cite(library, f[i - 1], references[i])
      <3>1. \A i \in 0 .. n : i # 0 => i \in 1 .. n /\ i - 1 \in 0 .. n
        BY <1>1
      <3>. QED
        BY <2>1, <2>5, <3>1
    <2>7. Runs(f)
      BY <2>5, <2>6
    <2>. HIDE DEF Runs
    <2>. QED
      BY <2>7
  <1>. DEFINE h == CHOOSE f : Runs(f)
              T == {i \in 0 .. n : Good(h[i], i)}
  <1>7. Views!CitationGraph(library, paper, references) = h[n]
    BY Zenon DEF Views!CitationGraph, n, start, first
  <1>8. Runs(h)
    <2>. HIDE DEF Runs
    <2>. QED
      BY <1>6
  <1>. HIDE DEF h
  <1>9. h[0] = start /\ \A i \in 1 .. n : h[i] = Views!Cite(library, h[i - 1], references[i])
    BY <1>1, <1>8
  <1>. HIDE DEF Good
  <1>10. n \in T
    <2>1. 0 \in T
      BY <1>1, <1>3, <1>9
    <2>2. ASSUME NEW i \in 1 .. n, i - 1 \in T PROVE i \in T
      <3>1. Good(h[i - 1], i - 1) /\ i \in 0 .. n
        BY <1>1, <2>2
      <3>. QED
        BY <1>5, <1>9, <3>1
    <2>. HIDE DEF T
    <2>3. 0 .. n \subseteq T
      BY <1>1, <2>1, <2>2, BoundedInduction
    <2>. QED
      BY <1>1, <2>3
  <1>. DEFINE g == Views!CitationGraph(library, paper, references)
  <1>11. g.nodes \in Seq(N) /\ g.edges \in Seq(E) /\ GraphFits(library, paper, references, n, g)
    BY <1>7, <1>10 DEF Good, Q, Graphs
  <1>. HIDE DEF g
  <1>12. /\ Distinct(g.nodes) /\ DOMAIN g.nodes = 1 .. Len(g.nodes) /\ DOMAIN g.edges = 1 .. n
         /\ Range(g.nodes) = {first} \cup {LeadsTo(library, references[i]) : i \in 1 .. n}
         /\ \A i \in 1 .. n : /\ g.edges[i].reference = references[i].id
                               /\ g.edges[i].target = LeadsTo(library, references[i])
         /\ Range(g.edges) = {g.edges[i] : i \in 1 .. n}
    BY <1>11, Lists DEF GraphFits
  <1>13. DOMAIN references = 1 .. n
    BY Lists DEF n, IsList
  <1>14. [i \in DOMAIN g.edges |-> g.edges[i].reference] = [i \in DOMAIN references |-> references[i].id]
    BY <1>12, <1>13
  <1>15. Views!IsInjective(g.nodes)
    <2>1. IsInjective(g.nodes)
      BY <1>12 DEF IsInjective, Distinct
    <2>. QED
      BY <2>1, ViewsFilters
  <1>16. Views!Range(g.nodes) = {e.target : e \in Views!Range(g.edges)} \cup {first}
    <2>1. Views!Range(g.nodes) = Range(g.nodes) /\ Views!Range(g.edges) = Range(g.edges)
      BY ViewsFilters
    <2>2. {e.target : e \in Range(g.edges)} = {LeadsTo(library, references[i]) : i \in 1 .. n}
      BY <1>12
    <2>. QED
      BY <1>12, <2>1, <2>2
  <1>. QED
    BY <1>14, <1>15, <1>16, Zenon DEF Views!GraphIsJoined, g

---------------------------------------------------------------------------
(* The views: evidence of several papers. *)

Hit == [paper : Nat, nth : Nat, score : Nat]

\* No two hits share a place, and no place is empty.
LEMMA PlacesOfHits ==
  ASSUME NEW S \in SUBSET Hit, IsFiniteSet(S), NEW n, n = Cardinality(S)
  PROVE  /\ n \in Nat
         /\ \A x \in S : Views!Place(S, x) \in 1 .. n
         /\ \A x, y \in S : Views!Place(S, x) = Views!Place(S, y) => x = y
         /\ \A k \in 1 .. n : \E x \in S : Views!Place(S, x) = k
         /\ \A x, y \in S : Views!Place(S, x) < Views!Place(S, y) => x.score >= y.score
  <1>. DEFINE Better(x) == {y \in S : Views!Before(y, x)}
  <1>1. n \in Nat
    BY FS_CardinalityType
  <1>2. \A x \in S : /\ x.paper \in Nat /\ x.nth \in Nat /\ x.score \in Nat
                     /\ x = [paper |-> x.paper, nth |-> x.nth, score |-> x.score]
    BY DEF Hit
  <1>3. /\ \A x \in S : ~Views!Before(x, x)
        /\ \A x, y, z \in S : Views!Before(x, y) /\ Views!Before(y, z) => Views!Before(x, z)
        /\ \A x, y \in S : Views!Before(x, y) => x.score >= y.score
    BY <1>2 DEF Views!Before
  <1>4. ASSUME NEW x \in S, NEW y \in S, x # y PROVE Views!Before(x, y) \/ Views!Before(y, x)
    <2>1. x.paper # y.paper \/ x.nth # y.nth \/ x.score # y.score
      BY <1>2, <1>4
    <2>. QED
      BY <1>2, <2>1 DEF Views!Before
  <1>5. \A x \in S : Views!Place(S, x) = 1 + Cardinality(Better(x))
    BY ViewsFilters DEF Views!Place
  <1>6. ASSUME NEW x \in S
        PROVE  IsFiniteSet(Better(x)) /\ Cardinality(Better(x)) \in Nat /\ Cardinality(Better(x)) <= n - 1
    <2>. DEFINE R == S \ {x}
                B == Better(x)
    <2>1. IsFiniteSet(R) /\ Cardinality(R) = n - 1
      BY FS_RemoveElement
    <2>2. B \in SUBSET R
      BY <1>3
    <2>. HIDE DEF R, B
    <2>3. IsFiniteSet(B) /\ Cardinality(B) <= Cardinality(R)
      BY <2>1, <2>2, FS_Subset
    <2>4. Cardinality(B) \in Nat
      BY <2>3, FS_CardinalityType
    <2>. QED
      BY <2>1, <2>3, <2>4 DEF B
  <1>7. ASSUME NEW x \in S, NEW y \in S, Views!Before(x, y)
        PROVE  Cardinality(Better(x)) < Cardinality(Better(y))
    <2>. DEFINE B == Better(x)
                C == Better(y)
    <2>1. B \subseteq C /\ x \in C /\ x \notin B
      BY <1>3, <1>7
    <2>2. IsFiniteSet(B) /\ IsFiniteSet(C) /\ Cardinality(B) \in Nat /\ Cardinality(C) \in Nat
      BY <1>6
    <2>. HIDE DEF B, C
    <2>3. Cardinality(B) <= Cardinality(C) /\ (Cardinality(C) = Cardinality(B) => C = B)
      BY <2>1, <2>2, FS_Subset
    <2>. QED
      BY <2>1, <2>2, <2>3 DEF B, C
  <1>. HIDE DEF Better
  <1>8. \A x \in S : Views!Place(S, x) \in 1 .. n
    BY <1>1, <1>5, <1>6
  <1>9. \A x, y \in S : Views!Place(S, x) = Views!Place(S, y) => x = y
    <2>. SUFFICES ASSUME NEW x \in S, NEW y \in S, x # y, Views!Place(S, x) = Views!Place(S, y)
                  PROVE  FALSE
      OBVIOUS
    <2>1. Cardinality(Better(x)) = Cardinality(Better(y)) /\ Cardinality(Better(x)) \in Nat
      BY <1>5, <1>6
    <2>. QED
      BY <1>4, <1>7, <2>1
  <1>10. \A x, y \in S : Views!Place(S, x) < Views!Place(S, y) => x.score >= y.score
    <2>. SUFFICES ASSUME NEW x \in S, NEW y \in S, Views!Place(S, x) < Views!Place(S, y)
                  PROVE  x.score >= y.score
      OBVIOUS
    <2>1. Cardinality(Better(x)) < Cardinality(Better(y))
      BY <1>5, <1>6
    <2>2. x # y /\ ~Views!Before(y, x)
      BY <1>6, <1>7, <2>1
    <2>. QED
      BY <1>3, <1>4, <2>2
  <1>. DEFINE f == [x \in S |-> Views!Place(S, x)]
  <1>11. f \in Injection(S, 1 .. n)
    BY <1>8, <1>9 DEF Injection, IsInjective
  <1>12. IsFiniteSet(1 .. n) /\ Cardinality(1 .. n) = Cardinality(S)
    BY <1>1, FS_Interval
  <1>. HIDE DEF f
  <1>13. f \in Surjection(S, 1 .. n)
    BY <1>11, <1>12, FS_Injection
  <1>14. \A k \in 1 .. n : \E x \in S : f[x] = k
    BY <1>13 DEF Surjection
  <1>. QED
    BY <1>1, <1>8, <1>9, <1>10, <1>14 DEF f

\* The limit's best hits, in their places.
LEMMA BestHits ==
  ASSUME NEW S \in SUBSET Hit, IsFiniteSet(S), NEW limit \in Nat,
         NEW m, m = IF limit < Cardinality(S) THEN limit ELSE Cardinality(S),
         NEW result, result = Views!AtMost(limit, Views!Sorted(S))
  PROVE  /\ m \in Nat /\ result \in Seq(S) /\ Len(result) = m
         /\ \A k \in 1 .. m : Views!Place(S, result[k]) = k
  <1>. DEFINE n == Cardinality(S)
              t == Views!Sorted(S)
              at(k) == CHOOSE x \in S : Views!Place(S, x) = k
  <1>1. n \in Nat /\ \A k \in 1 .. n : at(k) \in S /\ Views!Place(S, at(k)) = k
    BY PlacesOfHits
  <1>2. t = [k \in 1 .. n |-> at(k)]
    BY ViewsFilters DEF Views!Sorted
  <1>. HIDE DEF at, n
  <1>3. t \in Seq(S) /\ Len(t) = n /\ \A k \in 1 .. n : t[k] = at(k)
    <2>1. t \in [1 .. n -> S]
      BY <1>1, <1>2
    <2>. HIDE DEF t
    <2>2. DOMAIN t = 1 .. n /\ \A k \in 1 .. n : t[k] = at(k)
      BY <1>2
    <2>. QED
      BY <1>1, <2>1, <2>2
  <1>. HIDE DEF t
  <1>4. m \in Nat /\ m <= n
    BY <1>1 DEF n
  <1>5. result = SubSeq(t, 1, m)
    <2>1. m = IF limit < Len(t) THEN limit ELSE Len(t)
      BY <1>3 DEF n
    <2>2. result = SubSeq(t, 1, IF limit < Len(t) THEN limit ELSE Len(t))
      BY DEF Views!AtMost, t
    <2>. QED
      BY <2>1, <2>2, Zenon
  <1>6. result \in Seq(S) /\ Len(result) = m /\ \A k \in 1 .. m : result[k] = t[k]
    <2>1. \A i \in 1 .. m : t[i] \in S
      BY <1>1, <1>3, <1>4
    <2>2. /\ SubSeq(t, 1, m) \in Seq(S)
          /\ Len(SubSeq(t, 1, m)) = IF 1 <= m THEN m - 1 + 1 ELSE 0
          /\ \A i \in 1 .. m - 1 + 1 : SubSeq(t, 1, m)[i] = t[1 + i - 1]
      BY <1>3, <1>4, <2>1, SubSeqProperties
    <2>3. m - 1 + 1 = m /\ (~ (1 <= m) => m = 0) /\ \A i \in 1 .. m : 1 + i - 1 = i
      BY <1>4
    <2>. QED
      BY <1>5, <2>2, <2>3
  <1>. QED
    BY <1>1, <1>3, <1>4, <1>6

\* A paper's share is a number, and its best are as many of its evidence.
LEMMA ShareIs ==
  ASSUME NEW papers, Len(papers) \in Nat, Len(papers) # 0, NEW limit \in Nat, NEW topK \in Nat
  PROVE  Views!Share(papers, limit, topK) \in Nat
  <1>. DEFINE d == (limit + Len(papers) - 1) \div Len(papers)
  <1>1. d \in Int
    OBVIOUS
  <1>. HIDE DEF d
  <1>2. Views!Share(papers, limit, topK) = Views!Clamp(d + 2, 1, topK)
    BY DEF Views!Share, d
  <1>. QED
    BY <1>1, <1>2 DEF Views!Clamp

LEMMA AtMostHas ==
  ASSUME NEW s \in Seq(Nat), NEW n \in Nat
  PROVE  DOMAIN Views!AtMost(n, s) = {i \in DOMAIN s : i <= n}
  <1>. DEFINE m == IF n < Len(s) THEN n ELSE Len(s)
  <1>1. m \in Nat /\ m <= Len(s) /\ m <= n
    OBVIOUS
  <1>2. DOMAIN SubSeq(s, 1, m) = 1 .. m
    <2>. HIDE DEF m
    <2>. QED
      BY <1>1
  <1>3. Views!AtMost(n, s) = SubSeq(s, 1, m)
    BY DEF Views!AtMost
  <1>. QED
    BY <1>2, <1>3

\* No evidence within its paper's share is left out for a worse one.
LEMMA EvidenceIsBest ==
  ASSUME NEW papers \in Seq(Nat), NEW found, \A p \in Range(papers) : found[p] \in Seq(Nat),
         NEW limit \in Nat, NEW topK \in Nat
  PROVE  Views!BestEvidenceIsFound(papers, found, limit, topK)
  <1>. DEFINE allowed == Views!Uniq(papers)
              share == Views!Share(allowed, limit, topK)
              HitOf(p, i) == [paper |-> p, nth |-> i, score |-> found[p][i]]
              Best(p) == {HitOf(p, i) : i \in DOMAIN Views!AtMost(share, found[p])}
              S == UNION {Best(p) : p \in Views!Range(allowed)}
              result == Views!RetrieveAcross(papers, found, limit, topK)
              Taken(p) == {x \in Views!Range(result) : x.paper = p}
              Fits == /\ IsInjective(result) /\ Len(result) <= limit
                      /\ \A p \in Range(papers) : \A i \in DOMAIN found[p] :
                           \/ HitOf(p, i) \in Range(result)
                           \/ i > share
                           \/ Len(result) = limit /\ \A x \in Range(result) : x.score >= found[p][i]
  <1>1. result = IF allowed = <<>> THEN <<>> ELSE Views!AtMost(limit, Views!Sorted(S))
    BY DEF Views!RetrieveAcross
  <1>2. /\ IsList(allowed) /\ Views!Range(allowed) = Range(papers) /\ Len(allowed) \in Nat
        /\ DOMAIN allowed = 1 .. Len(allowed)
    <2>1. IsList(papers)
      BY Lists
    <2>2. IsList(allowed) /\ Range(allowed) = Range(papers)
      BY <2>1, UniqIs
    <2>. HIDE DEF allowed
    <2>. QED
      BY <2>2, Lists, ViewsFilters DEF IsList
  <1>3. CASE allowed = <<>>
    <2>1. Range(papers) = {}
      <3>1. Views!Range(<<>>) = {}
        BY DEF Views!Range
      <3>. QED
        BY <1>2, <1>3, <3>1
    <2>2. result = <<>>
      BY <1>1, <1>3
    <2>. HIDE DEF result, allowed, share
    <2>3. Fits
      BY <2>1, <2>2 DEF IsInjective
    <2>4. Views!IsInjective(result) = IsInjective(result)
      BY ViewsFilters
    <2>5. Views!Range(papers) = {}
      BY <2>1, ViewsFilters
    <2>. QED
      BY <2>3, <2>4, <2>5 DEF Views!BestEvidenceIsFound, result
  <1>4. CASE allowed # <<>>
    <2>1. share \in Nat
      <3>1. Len(allowed) # 0
        BY <1>2, <1>4 DEF IsList
      <3>. HIDE DEF allowed
      <3>. QED
        BY <1>2, <3>1, ShareIs
    <2>. HIDE DEF allowed, share
    <2>2. /\ S \in SUBSET Hit
          /\ \A p \in Range(papers) : \A i \in DOMAIN found[p] : i <= share => HitOf(p, i) \in S
      <3>1. ASSUME NEW p \in Range(papers), NEW i \in DOMAIN found[p] PROVE HitOf(p, i) \in Hit
        <4>1. p \in Nat
          BY Lists
        <4>2. i \in Nat /\ found[p][i] \in Nat
          OBVIOUS
        <4>. QED
          BY <4>1, <4>2 DEF Hit
      <3>2. \A p \in Range(papers) : DOMAIN Views!AtMost(share, found[p]) = {i \in DOMAIN found[p] : i <= share}
        BY <2>1, AtMostHas
      <3>3. \A x : x \in S <=> \E p \in Range(papers) : \E i \in DOMAIN found[p] : i <= share /\ x = HitOf(p, i)
        <4>. HIDE DEF HitOf
        <4>1. \A p \in Range(papers) : \A x :
                x \in Best(p) <=> \E i \in DOMAIN found[p] : i <= share /\ x = HitOf(p, i)
          BY <3>2
        <4>. HIDE DEF Best
        <4>2. \A x : x \in S <=> \E p \in Range(papers) : x \in Best(p)
          BY <1>2
        <4>. HIDE DEF S
        <4>. QED
          BY <4>1, <4>2
      <3>. HIDE DEF S, HitOf
      <3>. QED
        BY <3>1, <3>3
    <2>3. IsFiniteSet(S)
      <3>1. ASSUME NEW p \in Range(papers) PROVE IsFiniteSet(Best(p))
        <4>. DEFINE D == DOMAIN Views!AtMost(share, found[p])
                    f == [i \in D |-> HitOf(p, i)]
        <4>1. D \in SUBSET (1 .. Len(found[p])) /\ Len(found[p]) \in Nat
          <5>1. found[p] \in Seq(Nat)
            OBVIOUS
          <5>2. Len(found[p]) \in Nat /\ DOMAIN found[p] = 1 .. Len(found[p])
            BY <5>1
          <5>3. D = {i \in DOMAIN found[p] : i <= share}
            BY <2>1, <5>1, AtMostHas
          <5>. HIDE DEF D
          <5>. QED
            BY <5>2, <5>3
        <4>2. IsFiniteSet(D)
          <5>. HIDE DEF D
          <5>1. IsFiniteSet(1 .. Len(found[p]))
            BY <4>1, FS_Interval
          <5>. QED
            BY <4>1, <5>1, FS_Subset
        <4>. HIDE DEF D, HitOf
        <4>3. f \in Surjection(D, {HitOf(p, i) : i \in D})
          BY DEF Surjection
        <4>4. IsFiniteSet({HitOf(p, i) : i \in D})
          BY <4>2, <4>3, FS_Surjection
        <4>. QED
          BY <4>4 DEF D
      <3>. HIDE DEF Best
      <3>2. IsFiniteSet({Best(p) : p \in Range(papers)})
        <4>. DEFINE f == [i \in 1 .. Len(papers) |-> Best(papers[i])]
        <4>1. Range(papers) = {papers[i] : i \in 1 .. Len(papers)} /\ Len(papers) \in Nat
          BY Lists
        <4>2. f \in Surjection(1 .. Len(papers), {Best(p) : p \in Range(papers)})
          BY <4>1 DEF Surjection
        <4>3. IsFiniteSet(1 .. Len(papers))
          BY <4>1, FS_Interval
        <4>. QED
          BY <4>2, <4>3, FS_Surjection
      <3>3. IsFiniteSet(UNION {Best(p) : p \in Range(papers)})
        BY <3>1, <3>2, FS_UNION
      <3>. QED
        BY <1>2, <3>3
    <2>. HIDE DEF S, HitOf
    <2>. DEFINE n == Cardinality(S)
                m == IF limit < n THEN limit ELSE n
    <2>4. result = Views!AtMost(limit, Views!Sorted(S))
      BY <1>1, <1>4
    <2>. HIDE DEF result
    <2>5. /\ n \in Nat
          /\ \A x \in S : Views!Place(S, x) \in 1 .. n
          /\ \A x, y \in S : Views!Place(S, x) = Views!Place(S, y) => x = y
          /\ \A x, y \in S : Views!Place(S, x) < Views!Place(S, y) => x.score >= y.score
      BY <2>2, <2>3, PlacesOfHits
    <2>6. /\ m \in Nat /\ result \in Seq(S) /\ Len(result) = m
          /\ \A k \in 1 .. m : Views!Place(S, result[k]) = k
      BY <2>2, <2>3, <2>4, BestHits
    <2>. HIDE DEF n
    <2>7. /\ Range(result) = {result[k] : k \in 1 .. m} /\ DOMAIN result = 1 .. m
          /\ \A k \in 1 .. m : result[k] \in S
      <3>. HIDE DEF m
      <3>. QED
        BY <2>6, Lists
    <2>8. IsInjective(result) /\ Len(result) <= limit
      BY <2>5, <2>6, <2>7 DEF IsInjective
    <2>9. ASSUME NEW p \in Range(papers), NEW i \in DOMAIN found[p], i <= share,
                 HitOf(p, i) \notin Range(result)
          PROVE  Len(result) = limit /\ \A x \in Range(result) : x.score >= found[p][i]
      <3>. DEFINE h == HitOf(p, i)
                  k == Views!Place(S, h)
      <3>1. h \in S /\ k \in 1 .. n
        BY <2>2, <2>5, <2>9
      <3>2. h.score = found[p][i]
        BY DEF HitOf
      <3>. HIDE DEF h
      <3>3. k \notin 1 .. m
        <4>1. ASSUME k \in 1 .. m PROVE FALSE
          <5>1. result[k] \in S /\ Views!Place(S, result[k]) = k
            BY <2>6, <2>7, <4>1
          <5>2. result[k] = h
            BY <2>5, <3>1, <5>1
          <5>. QED
            BY <2>7, <2>9, <4>1, <5>2 DEF h
        <4>. QED
          BY <4>1
      <3>. HIDE DEF k
      <3>4. m < k /\ m = limit
        BY <2>5, <2>6, <3>1, <3>3
      <3>5. ASSUME NEW x \in Range(result) PROVE x.score >= found[p][i]
        <4>1. PICK j \in 1 .. m : x = result[j]
          BY <2>7
        <4>2. x \in S /\ Views!Place(S, x) = j
          BY <2>6, <2>7, <4>1
        <4>3. j < k
          BY <2>5, <2>6, <3>1, <3>4
        <4>. QED
          BY <2>5, <3>1, <3>2, <4>2, <4>3 DEF k
      <3>. QED
        BY <2>6, <3>4, <3>5
    <2>10. Fits
      <3>1. ASSUME NEW p \in Range(papers), NEW i \in DOMAIN found[p], i <= share \/ i > share
            PROVE  \/ HitOf(p, i) \in Range(result)
                   \/ i > share
                   \/ Len(result) = limit /\ \A x \in Range(result) : x.score >= found[p][i]
        BY <2>9, <3>1
      <3>2. \A p \in Range(papers) : \A i \in DOMAIN found[p] : i <= share \/ i > share
        BY <2>1
      <3>. QED
        BY <2>8, <3>1, <3>2
    <2>11. /\ \A p, i : HitOf(p, i).paper = p /\ HitOf(p, i).nth = i
           /\ Views!Range(papers) = Range(papers) /\ Views!Range(result) = Range(result)
           /\ Views!IsInjective(result) = IsInjective(result)
      BY ViewsFilters DEF HitOf
    <2>12. ASSUME NEW p \in Range(papers), NEW i \in DOMAIN found[p]
           PROVE  \/ \E x \in Taken(p) : x.nth = i
                  \/ i > share
                  \/ Len(result) = limit /\ \A x \in Range(result) : x.score >= found[p][i]
      BY <2>10, <2>11
    <2>. HIDE DEF Taken
    <2>. QED
      BY <2>8, <2>11, <2>12, Zenon DEF Views!BestEvidenceIsFound, result, share, allowed, Taken
  <1>. QED
    BY <1>3, <1>4

\* Charts, comparisons, the evidence of several papers and citation graphs
\* claim no more and show no worse than what is persisted.
THEOREM ViewsSafe ==
  RulesSpec => []ViewsClaimNoMore
  <1>. DEFINE Given == /\ Is("views") => input.of \in Reports
                       /\ Is("comparison") => input.of \in Selections
                       /\ Is("search") => input.of \in Searches
                       /\ Is("citations") => input.of \in Libraries
  <1>1. Init => Given
    BY DEF Init, Is
  <1>2. Given /\ [Next]_input => Given'
    BY DEF Next, Is
  <1>3. Given => ViewsClaimNoMore
    <2>. SUFFICES ASSUME Given PROVE ViewsClaimNoMore
      OBVIOUS
    <2>1. ASSUME Is("views") PROVE Views!ViewsClaimNoMore(input.of.steps, input.of.results)
      <3>1. IsList(input.of.results)
        BY <2>1, ViewsAssumption DEF IsList
      <3>. QED
        BY <3>1, ChartsAreFair
    <2>2. ASSUME Is("comparison")
          PROVE  Views!ComparisonClaimsNoMore(input.of.papers, input.of.analysed, input.of.values)
      <3>1. IsList(input.of.papers)
        BY <2>2, ViewsAssumption DEF IsList
      <3>. QED
        BY <3>1, ComparisonIsFair
    <2>3. ASSUME Is("search")
          PROVE  Views!BestEvidenceIsFound(input.of.papers, input.of.found, input.of.limit, input.of.topK)
      <3>1. /\ input.of.papers \in Seq(Nat) /\ input.of.limit \in Nat /\ input.of.topK \in Nat
            /\ \A p \in Range(input.of.papers) : input.of.found[p] \in Seq(Nat)
        BY <2>3, ViewsAssumption
      <3>. QED
        BY <3>1, EvidenceIsBest
    <2>4. ASSUME Is("citations")
          PROVE  Views!GraphIsJoined(input.of.library, input.of.paper, input.of.references)
      <3>. DEFINE l == input.of
      <3>1. l \in Libraries
        BY <2>4
      <3>2. /\ IsList(l.references)
            /\ \A i, j \in DOMAIN l.references : l.references[i].id = l.references[j].id => i = j
        BY <3>1, ViewsAssumption DEF IsList
      <3>. HIDE DEF l
      <3>3. DOMAIN l.references = 1 .. Len(l.references)
        BY <3>2, Lists DEF IsList
      <3>4. Views!GraphIsJoined(l.library, l.paper, l.references)
        BY <3>2, <3>3, GraphJoins
      <3>. QED
        BY <3>4 DEF l
    <2>. QED
      BY <2>1, <2>2, <2>3, <2>4 DEF ViewsClaimNoMore
  <1>. HIDE DEF Given
  <1>. QED
    BY <1>1, <1>2, <1>3, PTL DEF RulesSpec
===============================================================================
