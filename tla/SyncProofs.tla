---------------------------- MODULE SyncProofs ----------------------------
(***************************************************************************)
(* Proofs about ShieldSync, for any sizes of the feed, the outbox and the  *)
(* batches, and any number of events, faults and changes of the level.     *)
(***************************************************************************)
EXTENDS ShieldSync, FiniteSetTheorems, WellFoundedInduction, SequenceTheorems, TLAPS

-----------------------------------------------------------------------------
(* The inductive invariant *)

States == [last : Nat, outbox : Nat \cup {Nothing}, since : Nat, events : Seq(Nat),
           seen : SUBSET Nat, gap : Gaps, inflight : Batches \cup {Nothing}, seq : Nat]

\* Every variable that a property reads keeps its type.
SyncTypeOK ==
    /\ now \in Nat /\ items \in Seq(Nat) /\ level \in Levels /\ st \in States
    /\ pc \in {"idle", "send", "post"} /\ heads \subseteq Nat /\ stored \subseteq Batches
    /\ givenUp \subseteq Gaps /\ changes \in Nat

\* The feed has no event twice, and none that did not happen.
FeedOK == Range(items) \subseteq 1..now /\ IsInjective(items)

\* Nor has the outbox, and none that was dealt with already.
OutboxOK(s) ==
    /\ Range(s.events) \subseteq 1..now /\ s.seen \subseteq 1..now
    /\ IsInjective(s.events) /\ s.seen \cap Range(s.events) = {}

\* A batch is what the outbox begins with.
Begins(ids, events) ==
    Len(ids) <= Len(events) /\ \A i \in 1..Len(ids) : events[i] = ids[i]

\* The batch in flight: as long as the level has not changed since it was frozen it
\* is the next to be sent.
FlightOK(s) ==
    s.inflight # Nothing =>
        /\ Begins(s.inflight.ids, s.events)
        /\ s.inflight.level # "seal" /\ s.inflight.epoch <= changes
        /\ s.inflight.epoch = changes => s.inflight.level = level

\* What is posted is under an accepted head.
PostOK ==
    pc = "post" => /\ st.inflight # Nothing
                   /\ \A t \in Range(st.inflight.ids) : t <= st.last

\* The head last accepted is one that Coriqo holds.
LastOK == st.last = 0 \/ st.last \in heads

\* The events of a batch stored at this level were dealt with, or are in flight.
StoredOK(s) ==
    \A b \in stored : /\ b.epoch <= changes
                      /\ b.epoch = changes => b = s.inflight \/ Range(b.ids) \subseteq s.seen

\* No event is in two batches of one level.
Apart(b, c) == b.id # c.id /\ b.epoch = c.epoch => Range(b.ids) \cap Range(c.ids) = {}
BatchesApart == \A b, c \in stored \cup ({st.inflight} \ {Nothing}) : Apart(b, c)

\* What became of event t.
Told(t) ==
    \/ t \in missed
    \/ \E g \in givenUp : Covers(g, t)
    \/ \E b \in stored : t \in Range(b.ids) \/ Covers(b.gap, t)
Accounted(s, t) ==
    \/ t \in Range(s.events)
    \/ t \in Range(items) /\ t \notin s.seen
    \/ Covers(s.gap, t)
    \/ Told(t)
EventsKnown(s) == s.since > 0 => \A t \in s.since + 1 .. now : Accounted(s, t)

SyncInv ==
    /\ SyncTypeOK /\ FeedOK /\ OutboxOK(st) /\ FlightOK(st) /\ PostOK /\ LastOK
    /\ StoredOK(st) /\ BatchesApart /\ EventsKnown(st) /\ SealBeforeEvents

-----------------------------------------------------------------------------
(* Lists and gaps *)

\* A set of naturals that is not empty has a least element.
LEMMA LeastExists ==
    ASSUME NEW S \in SUBSET Nat, S # {}
    PROVE  \E n \in S : \A m \in S : n <= m
<1> DEFINE R == OpToRel(<, Nat)
<1>1. \A x, y \in Nat : y < x => <<y, x>> \in R
  BY DEF OpToRel
<1>2. IsWellFoundedOn(R, Nat)
  BY NatLessThanWellFounded
<1> HIDE DEF R
<1>3. PICK x \in S : \A y \in S : ~ (<<y, x>> \in R)
  BY <1>2, WFMin
<1>4. \A y \in S : ~ (y < x)
  BY <1>1, <1>3
<1> QED BY <1>4

\* And a greatest one, when it is bounded.
LEMMA GreatestExists ==
    ASSUME NEW N \in Nat, NEW S \in SUBSET (0..N), S # {}
    PROVE  \E n \in S : \A m \in S : n >= m
<1> DEFINE T == {N - m : m \in S}
<1>1. T \in SUBSET Nat /\ T # {}
  <2>1. \A m \in S : N - m \in Nat
    OBVIOUS
  <2> QED BY <2>1
<1>2. PICK d \in T : \A e \in T : d <= e
  BY <1>1, LeastExists
<1>3. PICK n \in S : d = N - n
  OBVIOUS
<1>4. \A m \in S : N - n <= N - m
  BY <1>2, <1>3
<1>5. \A m \in S : n >= m
  BY <1>4
<1> QED BY <1>5

\* The gap covers what it covered and all that was dropped.
LEMMA WidenIs ==
    ASSUME NEW gap \in Gaps, NEW N \in Nat, NEW dropped \in SUBSET (1..N)
    PROVE  /\ Widen(gap, dropped) \in Gaps
           /\ \A t \in Nat \ {0} : Covers(gap, t) \/ t \in dropped =>
                                     Covers(Widen(gap, dropped), t)
<1>1. CASE dropped = {}
  BY <1>1 DEF Widen
<1>2. CASE dropped # {}
  <2> DEFINE all == dropped \cup (IF gap = NoGap THEN {} ELSE {gap.from, gap.to})
  <2>1. PICK M \in Nat : all \subseteq 0..M
    <3> DEFINE M == N + gap.from + gap.to
    <3>1. M \in Nat /\ N <= M /\ gap.from <= M /\ gap.to <= M
      BY DEF Gaps
    <3>2. gap.from \in 0..M /\ gap.to \in 0..M /\ \A t \in 1..N : t \in 0..M
      BY <3>1 DEF Gaps
    <3> HIDE DEF M
    <3> QED BY <3>1, <3>2
  <2>2. all \in SUBSET Nat /\ all # {}
    BY <1>2, <2>1
  <2>3. \E x \in all : \A y \in all : x <= y
    BY <2>2, LeastExists
  <2>4. \E x \in all : \A y \in all : x >= y
    BY <2>1, <2>2, GreatestExists
  <2>5. Widen(gap, dropped) = [from |-> Min(all), to |-> Max(all)]
    BY <1>2 DEF Widen
  <2>6. dropped \subseteq all /\ (gap # NoGap => gap.from \in all /\ gap.to \in all)
    OBVIOUS
  <2> HIDE DEF all
  <2>7. Min(all) \in all /\ \A y \in all : Min(all) <= y
    BY <2>3 DEF Min
  <2>8. Max(all) \in all /\ \A y \in all : Max(all) >= y
    BY <2>4 DEF Max
  <2>9. Widen(gap, dropped) \in Gaps
    <3>1. Min(all) \in Nat /\ Max(all) \in Nat
      BY <2>2, <2>7, <2>8
    <3> QED BY <2>5, <3>1 DEF Gaps
  <2>10. ASSUME NEW t \in Nat \ {0}, Covers(gap, t) \/ t \in dropped
         PROVE  Min(all) <= t /\ t <= Max(all)
    <3>1. CASE t \in dropped
      BY <2>2, <2>6, <2>7, <2>8, <3>1
    <3>2. CASE Covers(gap, t)
      <4>1. gap # NoGap
        BY <3>2 DEF Covers, NoGap
      <4>2. /\ gap.from \in Nat /\ gap.to \in Nat /\ Min(all) \in Nat /\ Max(all) \in Nat
            /\ Min(all) <= gap.from /\ gap.to <= Max(all)
        BY <2>2, <2>6, <2>7, <2>8, <4>1 DEF Gaps
      <4> QED BY <3>2, <4>2 DEF Covers
    <3> QED BY <2>10, <3>1, <3>2
  <2> QED BY <2>5, <2>9, <2>10 DEF Covers
<1> QED BY <1>1, <1>2

\* How many elements of a finite set of numbers are up to i.
Rank(S, i) == Cardinality({j \in S : j <= i})

\* The ranks of the elements of S count from 1 to its size.
LEMMA RankIs ==
    ASSUME NEW N \in Nat, NEW S \in SUBSET (1..N)
    PROVE  /\ Cardinality(S) \in Nat
           /\ \A i \in S : Rank(S, i) \in 1..Cardinality(S)
           /\ \A i, j \in S : Rank(S, i) = Rank(S, j) => i = j
           /\ \A k \in 1..Cardinality(S) : \E i \in S : Rank(S, i) = k
<1>1. IsFiniteSet(S) /\ Cardinality(S) \in Nat
  <2>1. IsFiniteSet(1..N)
    BY FS_Interval
  <2> QED BY <2>1, FS_Subset, FS_CardinalityType
<1>2. ASSUME NEW i \in S
      PROVE  /\ IsFiniteSet({j \in S : j <= i}) /\ Rank(S, i) \in 1..Cardinality(S)
  <2> DEFINE T == {j \in S : j <= i}
  <2>1. T \in SUBSET S /\ i \in T
    OBVIOUS
  <2>2. IsFiniteSet(T) /\ Cardinality(T) <= Cardinality(S) /\ Cardinality(T) \in Nat
    BY <1>1, <2>1, FS_Subset, FS_CardinalityType
  <2>3. Cardinality(T) # 0
    BY <2>1, <2>2, FS_EmptySet
  <2> QED BY <1>1, <2>2, <2>3 DEF Rank
<1>3. ASSUME NEW i \in S, NEW j \in S, Rank(S, i) = Rank(S, j), i < j
      PROVE  FALSE
  <2> DEFINE T == {k \in S : k <= i}
             U == {k \in S : k <= j}
  <2>1. T \in SUBSET U /\ j \in U /\ j \notin T
    <3>1. i \in Nat /\ j \in Nat /\ S \subseteq Nat
      OBVIOUS
    <3>2. \A k \in Nat : k <= i => k <= j
      BY <1>3, <3>1
    <3>3. j <= j /\ ~(j <= i)
      BY <1>3, <3>1
    <3> QED BY <3>1, <3>2, <3>3
  <2>2. IsFiniteSet(U) /\ Cardinality(T) = Cardinality(U)
    BY <1>2, <1>3 DEF Rank
  <2> HIDE DEF T, U
  <2> QED BY <2>1, <2>2, FS_Subset
<1>4. \A i, j \in S : Rank(S, i) = Rank(S, j) => i = j
  <2> SUFFICES ASSUME NEW i \in S, NEW j \in S, Rank(S, i) = Rank(S, j)
               PROVE  i = j
    OBVIOUS
  <2>1. ~(i < j) /\ ~(j < i)
    BY <1>3
  <2>2. i \in Nat /\ j \in Nat
    OBVIOUS
  <2> QED BY <2>1, <2>2
<1>5. ASSUME NEW k \in 1..Cardinality(S) PROVE \E i \in S : Rank(S, i) = k
  <2> DEFINE f == [i \in S |-> Rank(S, i)]
             n == Cardinality(S)
  <2>1. f \in Injection(S, 1..n)
    <3>1. f \in [S -> 1..n]
      BY <1>2
    <3>2. \A a, b \in DOMAIN f : f[a] = f[b] => a = b
      BY <1>4
    <3> QED BY <3>1, <3>2 DEF Injection, IsInjective
  <2>2. IsFiniteSet(1..n) /\ Cardinality(1..n) = n
    <3>1. n \in Nat /\ 1 \in Int /\ n \in Int
      BY <1>1
    <3> HIDE DEF n
    <3>2. /\ IsFiniteSet(1..n)
          /\ Cardinality(1..n) = IF 1 > n THEN 0 ELSE n - 1 + 1
      BY <3>1, FS_Interval
    <3> QED BY <3>1, <3>2
  <2>3. f \in Surjection(S, 1..n)
    BY <2>1, <2>2, FS_Injection
  <2>4. \E i \in S : f[i] = k
    BY <2>3 DEF Surjection
  <2> QED BY <2>4
<1> QED BY <1>1, <1>2, <1>4, <1>5

\* Where the k-th element left of a list was.
LEMMA WithoutAt ==
    ASSUME NEW s \in Seq(Nat), NEW gone
    PROVE  LET kept == {i \in 1..Len(s) : s[i] \notin gone}
               at(k) == CHOOSE i \in kept : Rank(kept, i) = k
               w == Without(s, gone)
           IN  /\ Cardinality(kept) \in Nat
               /\ w = [k \in 1..Cardinality(kept) |-> s[at(k)]]
               /\ \A k \in 1..Cardinality(kept) : at(k) \in kept /\ Rank(kept, at(k)) = k
               /\ \A i \in kept : Rank(kept, i) \in 1..Cardinality(kept) /\ at(Rank(kept, i)) = i
<1> DEFINE kept == {i \in 1..Len(s) : s[i] \notin gone}
           at(k) == CHOOSE i \in kept : Rank(kept, i) = k
<1>1. Len(s) \in Nat /\ DOMAIN s = 1..Len(s)
  BY LenProperties
<1>2. Without(s, gone) = [k \in 1..Cardinality(kept) |-> s[at(k)]]
  BY <1>1 DEF Without, Rank
<1>3. kept \in SUBSET (1..Len(s))
  OBVIOUS
<1> HIDE DEF kept
<1>4. /\ Cardinality(kept) \in Nat
      /\ \A i \in kept : Rank(kept, i) \in 1..Cardinality(kept)
      /\ \A i, j \in kept : Rank(kept, i) = Rank(kept, j) => i = j
      /\ \A k \in 1..Cardinality(kept) : \E i \in kept : Rank(kept, i) = k
  BY <1>1, <1>3, RankIs
<1>5. \A k \in 1..Cardinality(kept) : at(k) \in kept /\ Rank(kept, at(k)) = k
  BY <1>4
<1>6. \A i \in kept : at(Rank(kept, i)) = i
  BY <1>4, <1>5
<1> QED BY <1>2, <1>4, <1>5, <1>6 DEF kept

\* What is left is what was there and is not gone, nothing twice that was not.
LEMMA WithoutIs ==
    ASSUME NEW s \in Seq(Nat), NEW gone
    PROVE  /\ Without(s, gone) \in Seq(Nat)
           /\ Range(Without(s, gone)) = Range(s) \ gone
           /\ IsInjective(s) => IsInjective(Without(s, gone))
<1> DEFINE kept == {i \in 1..Len(s) : s[i] \notin gone}
           at(k) == CHOOSE i \in kept : Rank(kept, i) = k
           w == Without(s, gone)
           n == Cardinality(kept)
<1>1. /\ n \in Nat
      /\ w = [k \in 1..n |-> s[at(k)]]
      /\ \A k \in 1..n : at(k) \in kept /\ Rank(kept, at(k)) = k
      /\ \A i \in kept : Rank(kept, i) \in 1..n /\ at(Rank(kept, i)) = i
  BY WithoutAt
<1>2. DOMAIN s = 1..Len(s) /\ \A i \in 1..Len(s) : s[i] \in Nat
  BY LenProperties
<1>3. \A i \in kept : i \in 1..Len(s) /\ s[i] \notin gone
  OBVIOUS
<1>4. \A i \in 1..Len(s) : s[i] \notin gone => i \in kept
  OBVIOUS
<1> HIDE DEF kept, at, w, n
<1>5. DOMAIN w = 1..n /\ \A k \in 1..n : w[k] = s[at(k)] /\ w[k] \in Nat /\ w[k] \notin gone
  BY <1>1, <1>2, <1>3
<1>6. w \in Seq(Nat)
  <2>1. w \in [1..n -> Nat]
    BY <1>1, <1>5
  <2> QED BY <1>1, <2>1, SMT
<1>7. Range(w) \subseteq Range(s) \ gone
  BY <1>1, <1>2, <1>3, <1>5 DEF Range
<1>8. ASSUME NEW t \in Range(s), t \notin gone PROVE t \in Range(w)
  <2>1. PICK i \in 1..Len(s) : s[i] = t
    BY <1>2 DEF Range
  <2>2. i \in kept /\ Rank(kept, i) \in 1..n /\ at(Rank(kept, i)) = i
    BY <1>1, <1>4, <1>8, <2>1
  <2>3. w[Rank(kept, i)] = t
    BY <1>5, <2>1, <2>2
  <2> QED BY <1>5, <2>2, <2>3 DEF Range
<1>9. ASSUME IsInjective(s) PROVE IsInjective(w)
  <2> SUFFICES ASSUME NEW k \in 1..n, NEW m \in 1..n, w[k] = w[m] PROVE k = m
    BY <1>5 DEF IsInjective
  <2>1. at(k) = at(m)
    BY <1>1, <1>2, <1>3, <1>5, <1>9 DEF IsInjective
  <2> QED BY <1>1, <2>1
<1> QED BY <1>6, <1>7, <1>8, <1>9 DEF w

\* A list keeps its beginning when none of it is gone.
LEMMA WithoutBegins ==
    ASSUME NEW s \in Seq(Nat), NEW gone, NEW n \in 0..Len(s), \A i \in 1..n : s[i] \notin gone
    PROVE  n <= Len(Without(s, gone)) /\ \A i \in 1..n : Without(s, gone)[i] = s[i]
<1> DEFINE kept == {i \in 1..Len(s) : s[i] \notin gone}
           at(k) == CHOOSE i \in kept : Rank(kept, i) = k
           w == Without(s, gone)
           c == Cardinality(kept)
<1>1. /\ c \in Nat
      /\ w = [k \in 1..c |-> s[at(k)]]
      /\ \A i \in kept : Rank(kept, i) \in 1..c /\ at(Rank(kept, i)) = i
  BY WithoutAt
<1>2. Len(s) \in Nat
  BY LenProperties
<1>3. \A i \in 1..n : i \in kept
  BY <1>2
<1>4. kept \subseteq 1..Len(s)
  OBVIOUS
<1> HIDE DEF kept, at, w, c
<1>5. ASSUME NEW i \in 1..n PROVE Rank(kept, i) = i
  <2>1. {j \in kept : j <= i} = 1..i
    <3>1. \A j \in 1..i : j \in 1..n
      BY <1>2
    <3>2. \A j \in kept : j \in Nat \ {0}
      BY <1>2, <1>4
    <3>3. \A j : j \in kept /\ j <= i => j \in 1..i
      BY <1>2, <3>2
    <3>4. \A j \in 1..i : j <= i
      BY <1>2
    <3> QED BY <1>3, <3>1, <3>3, <3>4
  <2>2. i \in Int /\ 1 \in Int /\ i >= 1
    BY <1>2
  <2>3. Cardinality(1..i) = IF 1 > i THEN 0 ELSE i - 1 + 1
    BY <2>2, FS_Interval
  <2>4. Cardinality(1..i) = i
    BY <2>2, <2>3
  <2> QED BY <2>1, <2>4 DEF Rank
<1>6. \A i \in 1..n : i \in 1..c /\ w[i] = s[i]
  BY <1>1, <1>3, <1>5
<1>7. w \in Seq(Nat) /\ Len(w) = c
  <2>1. w \in Seq(Nat)
    BY WithoutIs DEF w
  <2>2. DOMAIN w = 1..c /\ DOMAIN w = 1..Len(w) /\ Len(w) \in Nat
    BY <1>1, <2>1, LenProperties
  <2> QED BY <1>1, <2>1, <2>2
<1>8. n <= c
  <2>1. CASE n = 0
    BY <1>1, <2>1
  <2>2. CASE n # 0
    <3>1. n \in Nat /\ n \in 1..n
      BY <1>2, <2>2
    <3>2. n \in 1..c
      BY <1>6, <3>1
    <3> QED BY <1>1, <3>1, <3>2
  <2> QED BY <2>1, <2>2
<1> QED BY <1>6, <1>7, <1>8 DEF w

\* A list and its elements.
LEMMA ElementsOf ==
    ASSUME NEW s \in Seq(Nat)
    PROVE  /\ Len(s) \in Nat /\ DOMAIN s = 1..Len(s)
           /\ \A t : t \in Range(s) <=> \E i \in 1..Len(s) : s[i] = t
           /\ Range(s) \subseteq Nat
<1>1. Len(s) \in Nat /\ DOMAIN s = 1..Len(s) /\ \A i \in 1..Len(s) : s[i] \in Nat
  BY LenProperties
<1> QED BY <1>1 DEF Range

\* One more event.
LEMMA AppendIs ==
    ASSUME NEW s \in Seq(Nat), NEW e \in Nat, e \notin Range(s), IsInjective(s)
    PROVE  /\ Append(s, e) \in Seq(Nat) /\ IsInjective(Append(s, e))
           /\ Range(Append(s, e)) = Range(s) \cup {e}
<1> DEFINE a == Append(s, e)
<1>1. /\ a \in Seq(Nat) /\ Len(a) = Len(s) + 1 /\ a[Len(s) + 1] = e
      /\ \A i \in 1..Len(s) : a[i] = s[i]
  BY AppendProperties
<1>2. /\ Len(s) \in Nat /\ DOMAIN s = 1..Len(s) /\ DOMAIN a = 1..Len(s) + 1
  BY <1>1, LenProperties
<1> HIDE DEF a
<1>3. \A i \in 1..Len(s) + 1 : i = Len(s) + 1 \/ i \in 1..Len(s)
  BY <1>2
<1>4. \A i \in 1..Len(s) : i \in 1..Len(s) + 1
  BY <1>2
<1>5. Len(s) + 1 \in 1..Len(s) + 1
  BY <1>2
<1>6. Range(a) = Range(s) \cup {e}
  BY <1>1, <1>2, <1>3, <1>4, <1>5 DEF Range
<1>7. IsInjective(a)
  <2> SUFFICES ASSUME NEW i \in 1..Len(s) + 1, NEW j \in 1..Len(s) + 1, a[i] = a[j]
               PROVE  i = j
    BY <1>2 DEF IsInjective
  <2>1. \A k \in 1..Len(s) : a[k] # e
    BY <1>1, <1>2 DEF Range
  <2>2. CASE i \in 1..Len(s) /\ j \in 1..Len(s)
    BY <1>1, <1>2, <2>2 DEF IsInjective
  <2> QED BY <1>1, <1>3, <2>1, <2>2
<1> QED BY <1>1, <1>6, <1>7 DEF a

\* The oldest leaves.
LEMMA TailIs ==
    ASSUME NEW s \in Seq(Nat), s # << >>, IsInjective(s)
    PROVE  /\ Tail(s) \in Seq(Nat) /\ IsInjective(Tail(s))
           /\ Range(Tail(s)) \subseteq Range(s)
<1> DEFINE a == Tail(s)
<1>1. /\ a \in Seq(Nat) /\ Len(a) = Len(s) - 1
      /\ \A i \in 1..Len(a) : a[i] = s[i + 1]
  BY HeadTailProperties
<1>2. /\ Len(s) \in Nat /\ DOMAIN s = 1..Len(s) /\ DOMAIN a = 1..Len(a) /\ Len(a) \in Nat
  BY <1>1, LenProperties
<1> HIDE DEF a
<1>3. \A i \in 1..Len(a) : i + 1 \in 1..Len(s)
  BY <1>1, <1>2
<1>4. Range(a) \subseteq Range(s)
  BY <1>1, <1>2, <1>3 DEF Range
<1>5. IsInjective(a)
  <2> SUFFICES ASSUME NEW i \in 1..Len(a), NEW j \in 1..Len(a), a[i] = a[j]
               PROVE  i = j
    BY <1>2 DEF IsInjective
  <2>1. i + 1 = j + 1
    BY <1>1, <1>2, <1>3 DEF IsInjective
  <2> QED BY <1>2, <2>1
<1> QED BY <1>1, <1>4, <1>5 DEF a

\* Events after events.
LEMMA ConcatIs ==
    ASSUME NEW s \in Seq(Nat), NEW u \in Seq(Nat), IsInjective(s), IsInjective(u),
           Range(s) \cap Range(u) = {}
    PROVE  /\ s \o u \in Seq(Nat) /\ IsInjective(s \o u)
           /\ Range(s \o u) = Range(s) \cup Range(u)
           /\ \A ids \in Seq(Nat) : Begins(ids, s) => Begins(ids, s \o u)
<1> DEFINE a == s \o u
           n == Len(s)
           m == Len(u)
<1>1. /\ n \in Nat /\ m \in Nat /\ DOMAIN s = 1..n /\ DOMAIN u = 1..m
      /\ a \in Seq(Nat) /\ Len(a) = n + m
      /\ \A i \in 1..n + m : a[i] = IF i <= n THEN s[i] ELSE u[i - n]
  BY ConcatProperties, LenProperties
<1>2. DOMAIN a = 1..n + m
  BY <1>1, LenProperties
<1> HIDE DEF a, n, m
<1>3. \A i \in 1..n : i \in 1..n + m /\ a[i] = s[i]
  BY <1>1
<1>4. \A i \in 1..m : i + n \in 1..n + m /\ a[i + n] = u[i]
  <2> SUFFICES ASSUME NEW i \in 1..m PROVE i + n \in 1..n + m /\ a[i + n] = u[i]
    OBVIOUS
  <2>1. i + n \in 1..n + m /\ ~(i + n <= n) /\ i + n - n = i
    BY <1>1
  <2>2. a[i + n] = IF i + n <= n THEN s[i + n] ELSE u[i + n - n]
    BY <1>1, <2>1
  <2> QED BY <2>1, <2>2
<1>5. \A i \in 1..n + m : i \in 1..n \/ \E k \in 1..m : i = k + n
  <2> SUFFICES ASSUME NEW i \in 1..n + m, i \notin 1..n PROVE \E k \in 1..m : i = k + n
    OBVIOUS
  <2>1. i - n \in 1..m /\ i = (i - n) + n
    BY <1>1
  <2> QED BY <2>1
<1>6. Range(a) = Range(s) \cup Range(u)
  <2>1. Range(a) \subseteq Range(s) \cup Range(u)
    <3> SUFFICES ASSUME NEW i \in 1..n + m PROVE a[i] \in Range(s) \cup Range(u)
      BY <1>2 DEF Range
    <3>1. CASE i \in 1..n
      BY <1>1, <1>3, <3>1 DEF Range
    <3>2. ASSUME NEW k \in 1..m, i = k + n PROVE a[i] \in Range(u)
      BY <1>1, <1>4, <3>2 DEF Range
    <3> QED BY <1>5, <3>1, <3>2
  <2>2. Range(s) \subseteq Range(a)
    BY <1>1, <1>2, <1>3 DEF Range
  <2>3. Range(u) \subseteq Range(a)
    BY <1>1, <1>2, <1>4 DEF Range
  <2> QED BY <2>1, <2>2, <2>3
<1>7. IsInjective(a)
  <2> SUFFICES ASSUME NEW i \in 1..n + m, NEW j \in 1..n + m, a[i] = a[j]
               PROVE  i = j
    BY <1>2 DEF IsInjective
  <2>1. \A k \in 1..n, l \in 1..m : s[k] # u[l]
    BY <1>1 DEF Range
  <2>2. CASE i \in 1..n /\ j \in 1..n
    BY <1>1, <1>3, <2>2 DEF IsInjective
  <2>3. CASE (\E k \in 1..m : i = k + n) /\ (\E k \in 1..m : j = k + n)
    <3>1. PICK k \in 1..m : i = k + n
      BY <2>3
    <3>2. PICK l \in 1..m : j = l + n
      BY <2>3
    <3>3. k = l
      BY <1>1, <1>4, <3>1, <3>2 DEF IsInjective
    <3> QED BY <3>1, <3>2, <3>3
  <2>4. CASE i \in 1..n /\ \E k \in 1..m : j = k + n
    BY <1>3, <1>4, <2>1, <2>4
  <2>5. CASE j \in 1..n /\ \E k \in 1..m : i = k + n
    BY <1>3, <1>4, <2>1, <2>5
  <2> QED BY <1>5, <2>2, <2>3, <2>4, <2>5
<1>8. ASSUME NEW ids \in Seq(Nat), Begins(ids, s) PROVE Begins(ids, a)
  <2>1. Len(ids) \in Nat /\ Len(ids) <= n /\ \A i \in 1..Len(ids) : s[i] = ids[i]
    BY <1>8, LenProperties DEF Begins, n
  <2>2. Len(ids) <= n + m /\ \A i \in 1..Len(ids) : i \in 1..n
    BY <1>1, <2>1
  <2> QED BY <1>1, <1>3, <2>1, <2>2 DEF Begins
<1> QED BY <1>1, <1>6, <1>7, <1>8 DEF a

\* A batch has only events of the outbox it begins.
LEMMA BeginsIs ==
    ASSUME NEW ids \in Seq(Nat), NEW events \in Seq(Nat), Begins(ids, events)
    PROVE  Range(ids) \subseteq Range(events)
<1>1. /\ Len(ids) \in Nat /\ DOMAIN ids = 1..Len(ids)
      /\ Len(events) \in Nat /\ DOMAIN events = 1..Len(events)
  BY LenProperties
<1>2. \A i \in 1..Len(ids) : i \in 1..Len(events) /\ events[i] = ids[i]
  BY <1>1 DEF Begins
<1> QED BY <1>1, <1>2 DEF Range

\* Then the code recognises it.
LEMMA BeginsIsPrefix ==
    ASSUME NEW ids \in Seq(Nat), NEW events \in Seq(Nat), Begins(ids, events)
    PROVE  IsPrefix(ids, events)
<1> DEFINE n == Len(ids)
<1>1. n \in Nat /\ Len(events) \in Nat /\ n <= Len(events)
  BY LenProperties DEF Begins
<1>2. /\ \A i \in 1..n : i \in 1..Len(events) /\ events[i] = ids[i]
      /\ \A i \in 1..n : ids[i] \in Nat /\ events[i] \in Nat
  BY <1>1, ElementOfSeq DEF Begins
<1>3. SubSeq(ids, 1, n) = ids
  BY SubSeqFull
<1>4. /\ SubSeq(events, 1, n) \in Seq(Nat)
      /\ Len(SubSeq(events, 1, n)) = n
      /\ \A i \in 1..n : SubSeq(events, 1, n)[i] = events[i]
  <2>1. 1 \in Int /\ n \in Int
    BY <1>1
  <2>2. /\ SubSeq(events, 1, n) \in Seq(Nat)
        /\ Len(SubSeq(events, 1, n)) = IF 1 <= n THEN n - 1 + 1 ELSE 0
        /\ \A i \in 1..n - 1 + 1 : SubSeq(events, 1, n)[i] = events[1 + i - 1]
    BY <1>2, <2>1, SubSeqProperties
  <2>3. n - 1 + 1 = n /\ (~(1 <= n) => n = 0) /\ \A i \in 1..n : 1 + i - 1 = i
    BY <1>1
  <2> QED BY <2>2, <2>3
<1>5. SubSeq(events, 1, n) = ids
  BY <1>2, <1>4, SeqEqual
<1> QED BY <1>1, <1>3, <1>5 DEF IsPrefix

\* The first events make a batch.
LEMMA FirstBegins ==
    ASSUME NEW events \in Seq(Nat), NEW n \in 0..Len(events)
    PROVE  SubSeq(events, 1, n) \in Seq(Nat) /\ Begins(SubSeq(events, 1, n), events)
<1>1. Len(events) \in Nat /\ \A i \in 1..n : events[i] \in Nat
  <2>1. Len(events) \in Nat
    BY LenProperties
  <2>2. \A i \in 1..n : i \in 1..Len(events)
    BY <2>1
  <2> QED BY <2>1, <2>2, ElementOfSeq
<1>2. n \in Nat /\ 1 \in Int /\ n \in Int /\ n <= Len(events)
  BY <1>1
<1>3. /\ SubSeq(events, 1, n) \in Seq(Nat)
      /\ Len(SubSeq(events, 1, n)) = IF 1 <= n THEN n - 1 + 1 ELSE 0
      /\ \A i \in 1..n - 1 + 1 : SubSeq(events, 1, n)[i] = events[1 + i - 1]
  BY <1>1, <1>2, SubSeqProperties
<1>4. n - 1 + 1 = n /\ (~(1 <= n) => n = 0) /\ \A i \in 1..n : 1 + i - 1 = i
  BY <1>2
<1> QED BY <1>2, <1>3, <1>4 DEF Begins

\* The rest of the outbox after a batch: it has the other events.
LEMMA RestIs ==
    ASSUME NEW ids \in Seq(Nat), NEW events \in Seq(Nat), Begins(ids, events),
           IsInjective(events), NEW rest, rest = SubSeq(events, Len(ids) + 1, Len(events))
    PROVE  /\ rest \in Seq(Nat) /\ IsInjective(rest)
           /\ Range(rest) = Range(events) \ Range(ids)
<1> DEFINE n == Len(ids)
           m == Len(events)
<1>1. /\ n \in Nat /\ m \in Nat /\ n <= m /\ DOMAIN events = 1..m /\ DOMAIN ids = 1..n
      /\ \A i \in 1..m : events[i] \in Nat
      /\ \A i \in 1..n : events[i] = ids[i]
  BY LenProperties DEF Begins
<1>2. rest = SubSeq(events, n + 1, m)
  OBVIOUS
<1> HIDE DEF n, m
<1>3. n + 1 \in Int /\ m \in Int /\ \A i \in n + 1..m : i \in 1..m
  BY <1>1
<1>4. /\ rest \in Seq(Nat)
      /\ Len(rest) = IF n + 1 <= m THEN m - (n + 1) + 1 ELSE 0
      /\ \A i \in 1..m - (n + 1) + 1 : rest[i] = events[n + 1 + i - 1]
  <2> DEFINE lo == n + 1
  <2>1. lo \in Int /\ rest = SubSeq(events, lo, m) /\ \A i \in lo..m : events[i] \in Nat
    BY <1>1, <1>2, <1>3
  <2> HIDE DEF lo
  <2>2. /\ SubSeq(events, lo, m) \in Seq(Nat)
        /\ Len(SubSeq(events, lo, m)) = IF lo <= m THEN m - lo + 1 ELSE 0
        /\ \A i \in 1..m - lo + 1 : SubSeq(events, lo, m)[i] = events[lo + i - 1]
    BY <1>3, <2>1, SubSeqProperties
  <2> QED BY <2>1, <2>2 DEF lo
<1>5. Len(rest) = m - n /\ DOMAIN rest = 1..m - n
  <2>1. Len(rest) = m - n
    <3>1. CASE n + 1 <= m
      BY <1>1, <1>4, <3>1
    <3>2. CASE ~(n + 1 <= m)
      <4>1. n = m
        BY <1>1, <3>2
      <4> QED BY <1>1, <1>4, <3>2, <4>1
    <3> QED BY <3>1, <3>2
  <2> QED BY <1>4, <2>1, LenProperties
<1>6. \A i \in 1..m - n : rest[i] = events[n + i] /\ n + i \in 1..m /\ n + i \notin 1..n
  <2> SUFFICES ASSUME NEW i \in 1..m - n
               PROVE  rest[i] = events[n + i] /\ n + i \in 1..m /\ n + i \notin 1..n
    OBVIOUS
  <2>1. i \in 1..m - (n + 1) + 1 /\ n + 1 + i - 1 = n + i /\ n + i \in 1..m /\ n + i \notin 1..n
    BY <1>1
  <2> QED BY <1>4, <2>1
<1>7. \A j \in 1..m : j \in 1..n \/ \E i \in 1..m - n : j = n + i
  <2> SUFFICES ASSUME NEW j \in 1..m, j \notin 1..n PROVE \E i \in 1..m - n : j = n + i
    OBVIOUS
  <2>1. j - n \in 1..m - n /\ j = n + (j - n)
    BY <1>1
  <2> QED BY <2>1
<1>8. \A i \in 1..n : i \in 1..m
  BY <1>1
<1>9. Range(rest) \subseteq Range(events)
  BY <1>1, <1>5, <1>6 DEF Range
<1>10. Range(rest) \cap Range(ids) = {}
  <2> SUFFICES ASSUME NEW i \in 1..m - n, NEW j \in 1..n, rest[i] = ids[j] PROVE FALSE
    BY <1>1, <1>5 DEF Range
  <2>1. events[n + i] = events[j] /\ n + i \in 1..m /\ j \in 1..m
    BY <1>1, <1>6, <1>8
  <2>2. n + i = j
    BY <1>1, <2>1 DEF IsInjective
  <2> QED BY <1>6, <2>2
<1>11. Range(events) \subseteq Range(rest) \cup Range(ids)
  <2> SUFFICES ASSUME NEW j \in 1..m PROVE events[j] \in Range(rest) \cup Range(ids)
    BY <1>1 DEF Range
  <2>1. CASE j \in 1..n
    BY <1>1, <2>1 DEF Range
  <2>2. ASSUME NEW i \in 1..m - n, j = n + i PROVE events[j] \in Range(rest)
    BY <1>5, <1>6, <2>2 DEF Range
  <2> QED BY <1>7, <2>1, <2>2
<1>12. IsInjective(rest)
  <2> SUFFICES ASSUME NEW i \in 1..m - n, NEW j \in 1..m - n, rest[i] = rest[j] PROVE i = j
    BY <1>5 DEF IsInjective
  <2>1. events[n + i] = events[n + j] /\ n + i \in 1..m /\ n + j \in 1..m
    BY <1>6
  <2>2. n + i = n + j
    BY <1>1, <2>1 DEF IsInjective
  <2> QED BY <1>1, <2>2
<1> QED BY <1>4, <1>9, <1>10, <1>11, <1>12

-----------------------------------------------------------------------------
(* What a step does to the publisher's state *)

\* What was told stays told.
LEMMA ToldStays ==
    ASSUME missed \subseteq missed', givenUp \subseteq givenUp', stored \subseteq stored',
           NEW t, Told(t)
    PROVE  Told(t)'
BY DEF Told

\* What is true of the publisher's state between two steps of a tick.
StateOK(s) ==
    s \in States /\ OutboxOK(s) /\ FlightOK(s) /\ StoredOK(s) /\ EventsKnown(s)

\* The fields of a state and of a batch.
LEMMA StateIs ==
    ASSUME NEW s \in States
    PROVE  /\ s.last \in Nat /\ s.outbox \in Nat \cup {Nothing} /\ s.since \in Nat
           /\ s.events \in Seq(Nat) /\ s.seen \subseteq Nat /\ s.gap \in Gaps /\ s.seq \in Nat
           /\ s.inflight # Nothing => s.inflight \in Batches /\ s.inflight.ids \in Seq(Nat)
BY DEF States, Batches

\* A step of the publisher alone that posts nothing.
LEMMA StateStep ==
    ASSUME SyncInv, UNCHANGED <<now, items, level, heads, stored, missed, changes>>,
           pc' \in {"idle", "send"}, givenUp' \in SUBSET Gaps,
           st'.last = st.last, st'.inflight \in {st.inflight, Nothing},
           StateOK(st)'
    PROVE  SyncInv'
<1>1. SyncTypeOK'
  BY DEF SyncInv, SyncTypeOK, StateOK
<1>2. FeedOK' /\ PostOK' /\ LastOK' /\ SealBeforeEvents'
  BY DEF SyncInv, FeedOK, PostOK, LastOK, SealBeforeEvents
<1>3. BatchesApart'
  BY DEF SyncInv, BatchesApart, Apart
<1> QED BY <1>1, <1>2, <1>3 DEF SyncInv, StateOK

\* _drop_events on events of the outbox that are not in flight.
LEMMA DropOK ==
    ASSUME now \in Nat, NEW s, StateOK(s), NEW dropped \in SUBSET Range(s.events),
           dropped \cap Frozen(s) = {}, NEW d, d = DropEvents(s, dropped)
    PROVE  StateOK(d) /\ d.last = s.last /\ d.inflight = s.inflight
<1>1. /\ s \in States /\ s.events \in Seq(Nat) /\ s.gap \in Gaps /\ s.since \in Nat
      /\ Range(s.events) \subseteq 1..now /\ s.seen \subseteq 1..now
  BY StateIs DEF StateOK, OutboxOK
<1> DEFINE w == Without(s.events, dropped)
           g == Widen(s.gap, dropped)
<1>2. /\ w \in Seq(Nat) /\ Range(w) = Range(s.events) \ dropped /\ IsInjective(w)
  BY <1>1, WithoutIs DEF StateOK, OutboxOK
<1>3. /\ g \in Gaps
      /\ \A t \in Nat \ {0} : Covers(s.gap, t) \/ t \in dropped => Covers(g, t)
  BY <1>1, WidenIs
<1>4. /\ d \in States /\ d.last = s.last /\ d.inflight = s.inflight /\ d.since = s.since
      /\ d.events = w /\ d.seen = s.seen \cup dropped /\ d.gap = g
  <2>1. d = [s EXCEPT !.events = w, !.seen = @ \cup dropped, !.gap = g]
    BY DEF DropEvents
  <2> HIDE DEF w, g
  <2>2. dropped \subseteq Nat
    BY <1>1
  <2> QED BY <1>1, <1>2, <1>3, <2>1, <2>2 DEF States
<1>5. OutboxOK(d)
  BY <1>1, <1>2, <1>4 DEF StateOK, OutboxOK
<1>6. FlightOK(d)
  <2> SUFFICES ASSUME s.inflight # Nothing PROVE Begins(s.inflight.ids, w)
    BY <1>4 DEF StateOK, FlightOK
  <2> DEFINE ids == s.inflight.ids
             n == Len(ids)
  <2>1. ids \in Seq(Nat) /\ Begins(ids, s.events) /\ n \in Nat /\ Len(s.events) \in Nat
    BY <1>1, StateIs, LenProperties DEF StateOK, FlightOK
  <2>2. n \in 0..Len(s.events) /\ \A i \in 1..n : s.events[i] = ids[i]
    BY <2>1 DEF Begins
  <2>3. \A i \in 1..n : ids[i] \in Frozen(s)
    BY <2>1, ElementsOf DEF Frozen
  <2>4. \A i \in 1..n : s.events[i] \notin dropped
    BY <2>2, <2>3
  <2>5. n <= Len(w) /\ \A i \in 1..n : w[i] = s.events[i]
    BY <1>1, <2>2, <2>4, WithoutBegins
  <2> QED BY <2>2, <2>5 DEF Begins
<1>7. StoredOK(d)
  BY <1>4 DEF StateOK, StoredOK
<1>8. EventsKnown(d)
  <2> SUFFICES ASSUME s.since > 0, NEW t \in s.since + 1 .. now PROVE Accounted(d, t)
    BY <1>4 DEF EventsKnown
  <2>1. Accounted(s, t) /\ t \in Nat \ {0}
    BY <1>1 DEF StateOK, EventsKnown
  <2> QED BY <1>2, <1>3, <1>4, <2>1 DEF Accounted
<1> QED BY <1>4, <1>5, <1>6, <1>7, <1>8 DEF StateOK

\* _collect: the new items wait after those that wait already.
LEMMA CollectOK ==
    ASSUME SyncTypeOK, FeedOK, NEW s, StateOK(s), NEW c, c = Collect(s)
    PROVE  StateOK(c) /\ c.last = s.last /\ c.inflight = s.inflight
<1> DEFINE known == s.seen \cup Range(s.events)
           old == {t \in Range(items) : t < s.since}
           new == Without(items, known \cup old)
<1>1. /\ s \in States /\ s.events \in Seq(Nat) /\ s.since \in Nat /\ now \in Nat
      /\ Range(s.events) \subseteq 1..now /\ s.seen \subseteq 1..now
      /\ IsInjective(s.events) /\ s.seen \cap Range(s.events) = {}
      /\ Range(items) \subseteq 1..now /\ items \in Seq(Nat) /\ IsInjective(items)
  BY StateIs DEF StateOK, OutboxOK, SyncTypeOK, FeedOK
<1>2. new \in Seq(Nat) /\ IsInjective(new) /\ Range(new) = Range(items) \ (known \cup old)
  BY <1>1, WithoutIs
<1> DEFINE events == s.events \o new
<1>3. /\ events \in Seq(Nat) /\ IsInjective(events)
      /\ Range(events) = Range(s.events) \cup Range(new)
      /\ \A ids \in Seq(Nat) : Begins(ids, s.events) => Begins(ids, events)
  <2>1. Range(s.events) \cap Range(new) = {}
    BY <1>2
  <2> HIDE DEF new
  <2> QED BY <1>1, <1>2, <2>1, ConcatIs
<1>4. /\ c \in States /\ c.last = s.last /\ c.inflight = s.inflight /\ c.since = s.since
      /\ c.events = events /\ c.seen = s.seen \cup (old \ known) /\ c.gap = s.gap
  <2>1. c = [s EXCEPT !.events = events, !.seen = @ \cup (old \ known)]
    BY DEF Collect
  <2>2. old \ known \subseteq Nat
    BY <1>1
  <2> HIDE DEF events, old, known
  <2> QED BY <1>1, <1>3, <2>1, <2>2 DEF States
<1>5. OutboxOK(c)
  <2>1. /\ Range(events) \subseteq 1..now /\ c.seen \subseteq 1..now
        /\ c.seen \cap Range(events) = {}
    BY <1>1, <1>2, <1>3, <1>4
  <2> QED BY <1>3, <1>4, <2>1 DEF OutboxOK
<1>6. FlightOK(c)
  BY <1>1, <1>3, <1>4, StateIs DEF StateOK, FlightOK
<1>7. StoredOK(c)
  BY <1>4 DEF StateOK, StoredOK
<1>8. EventsKnown(c)
  <2> SUFFICES ASSUME s.since > 0, NEW t \in s.since + 1 .. now PROVE Accounted(c, t)
    BY <1>4 DEF EventsKnown
  <2>1. Accounted(s, t) /\ t \in Nat /\ ~(t < s.since)
    BY <1>1 DEF StateOK, EventsKnown
  <2>2. CASE t \in Range(items) /\ t \notin s.seen
    <3>1. t \in Range(events)
      BY <1>2, <1>3, <2>1, <2>2
    <3> QED BY <1>4, <3>1 DEF Accounted
  <2>3. CASE ~(t \in Range(items) /\ t \notin s.seen)
    BY <1>3, <1>4, <2>1, <2>3 DEF Accounted
  <2> QED BY <2>2, <2>3
<1> QED BY <1>4, <1>5, <1>6, <1>7, <1>8 DEF StateOK

\* Only events of the outbox are trimmed, and none in flight.
LEMMA TrimmedIs ==
    ASSUME NEW s
    PROVE  Trimmed(s) \subseteq Range(s.events) /\ Trimmed(s) \cap Frozen(s) = {}
BY DEF Trimmed, Expired, OverCap, Range

-----------------------------------------------------------------------------
(* One lemma per action *)

\* Nothing happened yet.
LEMMA SyncInitInv == Init => SyncInv
<1> SUFFICES ASSUME Init PROVE SyncInv
  OBVIOUS
<1>1. Range(<< >>) = {} /\ IsInjective(<< >>) /\ << >> \in Seq(Nat)
  BY DEF Range, IsInjective
<1>2. st \in States
  BY <1>1 DEF Init, Fresh, NoGap, States, Gaps
<1>3. /\ st.events = << >> /\ st.seen = {} /\ st.inflight = Nothing /\ st.last = 0
      /\ st.since = 0 /\ stored = {} /\ items = << >> /\ pc = "idle"
  BY DEF Init, Fresh
<1>4. SyncTypeOK
  BY <1>1, <1>2 DEF Init, SyncTypeOK
<1>5. FeedOK /\ OutboxOK(st)
  BY <1>1, <1>3 DEF FeedOK, OutboxOK
<1>6. FlightOK(st) /\ PostOK /\ LastOK /\ StoredOK(st)
  BY <1>3 DEF FlightOK, PostOK, LastOK, StoredOK
<1>7. BatchesApart /\ EventsKnown(st) /\ SealBeforeEvents
  BY <1>3 DEF BatchesApart, EventsKnown, SealBeforeEvents
<1> QED BY <1>4, <1>5, <1>6, <1>7 DEF SyncInv

\* The newest event is in the feed, and one that leaves it uncollected is missed.
LEMMA EventInv ==
    ASSUME SyncInv, Event
    PROVE  SyncInv'
<1>1. /\ UNCHANGED <<givenUp, level, st, pc, heads, stored, changes, faults>>
      /\ now' = now + 1 /\ now \in Nat /\ items \in Seq(Nat) /\ IsInjective(items)
      /\ Range(items) \subseteq 1..now
  BY DEF Event, SyncInv, SyncTypeOK, FeedOK
<1>2. now + 1 \in Nat /\ now + 1 \notin 1..now /\ \A t \in 1..now : t \in 1..now + 1
  BY <1>1
<1>3. /\ items' \in Seq(Nat) /\ IsInjective(items') /\ now + 1 \in Range(items')
      /\ Range(items') \subseteq Range(items) \cup {now + 1}
  <2>1. CASE Len(items) < FeedCap
    <3>1. items' = Append(items, now + 1)
      BY <2>1 DEF Event
    <3> QED BY <1>1, <1>2, <3>1, AppendIs
  <2>2. CASE ~(Len(items) < FeedCap)
    <3>1. items' = Append(Tail(items), now + 1)
      BY <2>2 DEF Event
    <3>2. items # << >>
      BY <2>2, SyncAssumption, EmptySeq
    <3>3. Tail(items) \in Seq(Nat) /\ IsInjective(Tail(items)) /\ Range(Tail(items)) \subseteq Range(items)
      BY <1>1, <3>2, TailIs
    <3> QED BY <1>1, <1>2, <3>1, <3>3, AppendIs
  <2> QED BY <2>1, <2>2
<1>4. SyncTypeOK'
  BY <1>1, <1>2, <1>3 DEF SyncInv, SyncTypeOK
<1>5. FeedOK' /\ OutboxOK(st)'
  BY <1>1, <1>2, <1>3 DEF SyncInv, FeedOK, OutboxOK
<1>6. FlightOK(st)' /\ PostOK' /\ LastOK' /\ StoredOK(st)' /\ BatchesApart' /\ SealBeforeEvents'
  BY <1>1 DEF SyncInv, FlightOK, PostOK, LastOK, StoredOK, BatchesApart, Apart, SealBeforeEvents
<1>7. EventsKnown(st)'
  <2> SUFFICES ASSUME st.since > 0, NEW t \in st.since + 1 .. now + 1 PROVE Accounted(st, t)'
    BY <1>1 DEF EventsKnown
  <2>1. st.since \in Nat /\ st.seen \subseteq 1..now
    BY StateIs DEF SyncInv, SyncTypeOK, OutboxOK
  <2>2. CASE t = now + 1
    BY <1>1, <1>2, <1>3, <2>1, <2>2 DEF Accounted
  <2>3. CASE t # now + 1
    <3>1. t \in st.since + 1 .. now
      BY <1>1, <2>1, <2>3
    <3>2. Accounted(st, t)
      BY <3>1 DEF SyncInv, EventsKnown
    <3>3. missed' = missed \cup {u \in Range(items) \ Range(items') :
                                    u \notin st.seen \cup Range(st.events)}
      BY DEF Event
    <3>4. CASE t \in Range(items) /\ t \notin st.seen
      BY <1>1, <3>3, <3>4 DEF Accounted, Told
    <3>5. CASE Told(t)
      BY <1>1, <3>3, <3>5, ToldStays DEF Accounted
    <3> QED BY <1>1, <3>2, <3>4, <3>5 DEF Accounted
  <2> QED BY <2>2, <2>3
<1> QED BY <1>4, <1>5, <1>6, <1>7 DEF SyncInv

\* A new level is a new epoch, of which no batch is yet.
LEMMA SetLevelInv ==
    ASSUME SyncInv, NEW l \in Levels, SetLevel(l)
    PROVE  SyncInv'
<1>1. /\ UNCHANGED <<now, items, st, pc, heads, stored, missed, givenUp>>
      /\ level' = l /\ changes' = changes + 1 /\ changes \in Nat
  BY DEF SetLevel, SyncInv, SyncTypeOK
<1>2. SyncTypeOK'
  BY <1>1 DEF SyncInv, SyncTypeOK
<1>3. FeedOK' /\ OutboxOK(st)' /\ PostOK' /\ LastOK' /\ BatchesApart' /\ SealBeforeEvents'
  BY <1>1 DEF SyncInv, FeedOK, OutboxOK, PostOK, LastOK, BatchesApart, Apart, SealBeforeEvents
<1>4. EventsKnown(st)'
  BY <1>1 DEF SyncInv, EventsKnown, Accounted, Told
<1>5. \A n \in Nat : n <= changes => n <= changes + 1 /\ n # changes + 1
  BY <1>1
<1>6. FlightOK(st)'
  BY <1>1, <1>5, StateIs DEF SyncInv, SyncTypeOK, FlightOK, Batches
<1>7. StoredOK(st)'
  <2>1. \A b \in stored : b.epoch \in Nat
    BY DEF SyncInv, SyncTypeOK, Batches
  <2> QED BY <1>1, <1>5, <2>1 DEF SyncInv, StoredOK
<1> QED BY <1>2, <1>3, <1>4, <1>6, <1>7 DEF SyncInv

\* In a state of the invariant the publisher's state is in order.
LEMMA InvState == SyncInv => StateOK(st) /\ SyncTypeOK /\ FeedOK /\ now \in Nat
BY DEF SyncInv, SyncTypeOK, StateOK

\* sync_tick: what waits is forgotten with the sharing, or collected and trimmed.
LEMMA SyncTickInv ==
    ASSUME SyncInv, SyncTick
    PROVE  SyncInv'
<1>1. /\ UNCHANGED <<now, items, level, heads, stored, missed, givenUp, changes>>
      /\ StateOK(st) /\ SyncTypeOK /\ FeedOK /\ now \in Nat /\ givenUp' \in SUBSET Gaps
  BY InvState DEF SyncTick, SyncTypeOK
<1>2. pc' \in {"idle", "send"}
  BY DEF SyncTick
<1>3. ASSUME StateOK(st') PROVE StateOK(st)'
  BY <1>1, <1>3 DEF StateOK, OutboxOK, FlightOK, StoredOK, EventsKnown, Accounted, Told
<1>4. CASE level = "seal"
  <2>1. st' = [st EXCEPT !.since = 0, !.events = << >>, !.gap = NoGap, !.inflight = Nothing]
    BY <1>4 DEF SyncTick
  <2>2. st \in States /\ << >> \in Seq(Nat) /\ NoGap \in Gaps /\ Range(<< >>) = {} /\ IsInjective(<< >>)
    BY <1>1 DEF StateOK, Gaps, NoGap, Range, IsInjective
  <2>3. /\ st' \in States /\ st'.last = st.last /\ st'.inflight = Nothing /\ st'.since = 0
        /\ st'.events = << >> /\ st'.seen = st.seen
    BY <2>1, <2>2 DEF States
  <2>4. OutboxOK(st') /\ FlightOK(st') /\ EventsKnown(st')
    BY <1>1, <2>2, <2>3 DEF StateOK, OutboxOK, FlightOK, EventsKnown
  <2>5. StoredOK(st')
    <3> SUFFICES ASSUME NEW b \in stored, b.epoch = changes PROVE Range(b.ids) \subseteq st.seen
      BY <1>1, <2>3 DEF StateOK, StoredOK
    <3>1. b # Nothing
      BY <1>1, SyncAssumption DEF SyncTypeOK
    <3>2. b # st.inflight
      BY <1>1, <1>4, <3>1 DEF StateOK, FlightOK
    <3> QED BY <1>1, <3>2 DEF StateOK, StoredOK
  <2> QED BY <1>1, <1>2, <1>3, <2>3, <2>4, <2>5, StateStep DEF StateOK
<1>5. CASE level # "seal"
  <2> DEFINE s == IF st.since = 0 THEN [st EXCEPT !.since = now] ELSE st
             c == Collect(s)
  <2>1. st' = DropEvents(c, Trimmed(c))
    BY <1>5 DEF SyncTick
  <2>2. StateOK(s) /\ s.last = st.last /\ s.inflight = st.inflight
    <3>1. CASE st.since # 0
      BY <1>1, <3>1
    <3>2. CASE st.since = 0
      <4>1. s = [st EXCEPT !.since = now] /\ st \in States
        BY <1>1, <3>2 DEF StateOK
      <4> HIDE DEF s
      <4>2. /\ s \in States /\ s.since = now /\ s.events = st.events /\ s.seen = st.seen
            /\ s.inflight = st.inflight /\ s.last = st.last
        BY <1>1, <4>1 DEF States
      <4>3. EventsKnown(s)
        BY <1>1, <4>2 DEF EventsKnown
      <4> QED BY <1>1, <4>2, <4>3 DEF StateOK, OutboxOK, FlightOK, StoredOK
    <3> QED BY <3>1, <3>2
  <2> HIDE DEF s
  <2>3. StateOK(c) /\ c.last = s.last /\ c.inflight = s.inflight
    BY <1>1, <2>2, CollectOK
  <2> HIDE DEF c
  <2>4. StateOK(st') /\ st'.last = c.last /\ st'.inflight = c.inflight
    BY <1>1, <2>1, <2>3, TrimmedIs, DropOK
  <2> QED BY <1>1, <1>2, <1>3, <2>2, <2>3, <2>4, StateStep
<1> QED BY <1>4, <1>5

\* A head goes to Coriqo and is remembered, or waits in the outbox.
LEMMA SealInv ==
    ASSUME SyncInv, UNCHANGED <<now, items, level, stored, missed, givenUp, changes>>,
           pc # "post", pc' \in {"idle", "send"}, heads \subseteq heads', heads' \subseteq Nat,
           NEW last \in Nat, NEW outbox \in Nat \cup {Nothing},
           st' = [st EXCEPT !.last = last, !.outbox = outbox],
           last = 0 \/ last \in heads'
    PROVE  SyncInv'
<1>1. StateOK(st) /\ SyncTypeOK /\ st \in States
  BY InvState DEF StateOK
<1>2. /\ st' \in States /\ st'.last = last /\ st'.inflight = st.inflight /\ st'.since = st.since
      /\ st'.events = st.events /\ st'.seen = st.seen /\ st'.gap = st.gap
  BY <1>1 DEF States
<1>3. SyncTypeOK' /\ FeedOK' /\ PostOK' /\ LastOK'
  BY <1>1, <1>2 DEF SyncInv, SyncTypeOK, FeedOK, PostOK, LastOK
<1>4. OutboxOK(st)' /\ FlightOK(st)' /\ StoredOK(st)'
  BY <1>1, <1>2 DEF StateOK, OutboxOK, FlightOK, StoredOK
<1>5. EventsKnown(st)'
  BY <1>1, <1>2 DEF StateOK, EventsKnown, Accounted, Told
<1>6. BatchesApart' /\ SealBeforeEvents'
  BY <1>2 DEF SyncInv, BatchesApart, Apart, SealBeforeEvents
<1> QED BY <1>3, <1>4, <1>5, <1>6 DEF SyncInv

\* The head in the outbox, or a new one, is a height of the chain.
LEMMA SealEntryIs ==
    ASSUME SyncInv
    PROVE  SealEntry \in Nat /\ st.last \in Nat /\ st \in States /\ heads \subseteq Nat
<1>1. st \in States /\ now \in Nat /\ heads \subseteq Nat
  BY DEF SyncInv, SyncTypeOK
<1> QED BY <1>1, StateIs DEF SealEntry

\* send: accepted.
LEMMA SendSealOkInv ==
    ASSUME SyncInv, SendSealOk
    PROVE  SyncInv'
<1>1. /\ UNCHANGED <<now, items, level, stored, missed, givenUp, changes>>
      /\ pc # "post" /\ pc' \in {"idle", "send"} /\ heads' = heads \cup {SealEntry}
      /\ st' = [st EXCEPT !.last = SealEntry, !.outbox = Nothing]
  BY DEF SendSealOk, TickSeal
<1> QED BY <1>1, SealEntryIs, SealInv

\* send: failed.
LEMMA SendSealFailsInv ==
    ASSUME SyncInv, SendSealFails
    PROVE  SyncInv'
<1>1. /\ UNCHANGED <<now, items, level, stored, missed, givenUp, changes>>
      /\ pc # "post" /\ pc' = "idle" /\ heads' \in {heads, heads \cup {SealEntry}}
      /\ st' = [st EXCEPT !.outbox = SealEntry]
  BY DEF SendSealFails, TickSeal
<1>2. st' = [st EXCEPT !.last = st.last, !.outbox = SealEntry]
  BY <1>1, SealEntryIs DEF States
<1>3. heads \subseteq heads' /\ heads' \subseteq Nat /\ (st.last = 0 \/ st.last \in heads')
  BY <1>1, SealEntryIs DEF SyncInv, LastOK
<1> QED BY <1>1, <1>2, <1>3, SealEntryIs, SealInv

\* _send_events: what is frozen begins the outbox and is sealed, and no batch of
\* this level that Coriqo holds has any of it.
LEMMA FreezeBatchInv ==
    ASSUME SyncInv, FreezeBatch
    PROVE  SyncInv'
<1>1. /\ UNCHANGED <<now, items, level, heads, stored, missed, givenUp, changes>>
      /\ pc' = "post" /\ level # "seal" /\ ~(now > st.last)
  BY DEF FreezeBatch, SealsAccepted, HasNew
<1>2. /\ StateOK(st) /\ SyncTypeOK /\ now \in Nat /\ st \in States /\ st.last \in Nat
      /\ st.events \in Seq(Nat) /\ Range(st.events) \subseteq 1..now
  BY InvState, StateIs DEF StateOK, OutboxOK
<1>3. \A t \in Range(st.events) : t <= st.last
  <2>1. \A t \in 1..now : t <= st.last
    BY <1>1, <1>2
  <2> QED BY <1>2, <2>1
<1>4. CASE SameFlight(st)
  <2>1. st' = st /\ st.inflight # Nothing
    BY <1>4 DEF FreezeBatch, SameFlight
  <2>2. SyncTypeOK' /\ FeedOK' /\ OutboxOK(st)' /\ FlightOK(st)' /\ LastOK'
    BY <1>1, <2>1 DEF SyncInv, SyncTypeOK, FeedOK, OutboxOK, FlightOK, LastOK
  <2>3. StoredOK(st)' /\ BatchesApart' /\ EventsKnown(st)' /\ SealBeforeEvents'
    BY <1>1, <2>1
    DEF SyncInv, StoredOK, BatchesApart, Apart, EventsKnown, Accounted, Told, SealBeforeEvents
  <2>4. Range(st.inflight.ids) \subseteq Range(st.events)
    BY <1>2, <2>1, StateIs, BeginsIs DEF StateOK, FlightOK
  <2>5. PostOK'
    BY <1>3, <2>1, <2>4 DEF PostOK
  <2> QED BY <2>2, <2>3, <2>5 DEF SyncInv
<1>5. CASE ~SameFlight(st)
  <2> DEFINE n == IF Len(st.events) < BatchSize THEN Len(st.events) ELSE BatchSize
             ids == SubSeq(st.events, 1, n)
             new == [id |-> st.seq + 1, level |-> level, gap |-> st.gap, epoch |-> changes,
                     ids |-> ids]
  <2>1. st' = [st EXCEPT !.seq = @ + 1, !.inflight = new]
    BY <1>5 DEF FreezeBatch
  <2>2. n \in 0..Len(st.events)
    <3>1. Len(st.events) \in Nat /\ BatchSize \in Nat
      BY <1>2, LenProperties, SyncAssumption
    <3> QED BY <3>1
  <2> HIDE DEF n
  <2>3. ids \in Seq(Nat) /\ Begins(ids, st.events)
    BY <1>2, <2>2, FirstBegins
  <2> HIDE DEF ids
  <2>4. /\ new \in Batches /\ new.ids = ids /\ new.epoch = changes /\ new.level = level
    BY <1>2, <2>3, StateIs DEF SyncTypeOK, Batches
  <2> HIDE DEF new
  <2>5. /\ st' \in States /\ st'.last = st.last /\ st'.inflight = new /\ st'.since = st.since
        /\ st'.events = st.events /\ st'.seen = st.seen /\ st'.gap = st.gap
    <3>1. st.seq + 1 \in Nat
      BY <1>2, StateIs
    <3> QED BY <1>2, <2>1, <2>4, <3>1 DEF States
  <2>6. Range(ids) \subseteq Range(st.events)
    BY <1>2, <2>3, BeginsIs
  <2>7. ASSUME NEW b \in stored, b.epoch = changes
        PROVE  Range(b.ids) \subseteq st.seen
    <3>1. CASE b = st.inflight /\ b # Nothing
      <4>1. /\ b.level = level /\ Begins(b.ids, st.events) /\ b.ids \in Seq(Nat)
        BY <1>2, <2>7, <3>1, StateIs DEF StateOK, FlightOK
      <4>2. SameFlight(st)
        BY <1>2, <3>1, <4>1, BeginsIsPrefix DEF SameFlight
      <4> QED BY <1>5, <4>2
    <3>2. CASE b # st.inflight
      BY <1>2, <2>7, <3>2 DEF StateOK, StoredOK
    <3>3. b # Nothing
      BY <1>2, SyncAssumption DEF SyncTypeOK
    <3> QED BY <3>1, <3>2, <3>3
  <2>8. SyncTypeOK' /\ FeedOK' /\ LastOK' /\ SealBeforeEvents'
    BY <1>1, <2>5 DEF SyncInv, SyncTypeOK, FeedOK, LastOK, SealBeforeEvents
  <2>9. OutboxOK(st)' /\ EventsKnown(st)'
    BY <1>1, <2>5 DEF SyncInv, OutboxOK, EventsKnown, Accounted, Told
  <2>10. FlightOK(st)'
    BY <1>1, <1>2, <2>3, <2>4, <2>5 DEF SyncTypeOK, FlightOK
  <2>11. StoredOK(st)'
    BY <1>1, <2>5, <2>7 DEF SyncInv, StoredOK
  <2>12. PostOK'
    BY <1>3, <2>4, <2>5, <2>6, SyncAssumption DEF PostOK
  <2>13. BatchesApart'
    <3>1. \A b \in stored : Apart(b, new) /\ Apart(new, b)
      BY <1>2, <2>4, <2>6, <2>7 DEF StateOK, OutboxOK, Apart
    <3>2. Apart(new, new)
      BY DEF Apart
    <3>3. \A b, c \in stored : Apart(b, c)
      BY DEF SyncInv, BatchesApart
    <3>4. \A b, c \in stored \cup {new} : Apart(b, c)
      BY <3>1, <3>2, <3>3
    <3> QED BY <1>1, <2>5, <3>4 DEF BatchesApart, Apart
  <2> QED BY <2>8, <2>9, <2>10, <2>11, <2>12, <2>13 DEF SyncInv
<1> QED BY <1>4, <1>5

\* Coriqo answered: the events are stored and leave the outbox.
LEMMA PostOkInv ==
    ASSUME SyncInv, PostOk
    PROVE  SyncInv'
<1> DEFINE b == st.inflight
<1>1. /\ UNCHANGED <<now, items, level, heads, missed, givenUp, changes>>
      /\ stored' = stored \cup {b} /\ st' = Sent /\ pc' \in {"idle", "send"} /\ pc = "post"
  BY DEF PostOk
<1>2. /\ StateOK(st) /\ SyncTypeOK /\ now \in Nat /\ st \in States /\ b # Nothing
      /\ st.events \in Seq(Nat) /\ st.gap \in Gaps /\ b \in Batches /\ b.ids \in Seq(Nat)
      /\ \A t \in Range(b.ids) : t <= st.last
  BY <1>1, InvState, StateIs DEF StateOK, SyncInv, PostOK
<1>3. Begins(b.ids, st.events) /\ b.epoch <= changes /\ IsInjective(st.events)
  BY <1>2 DEF StateOK, FlightOK, OutboxOK
<1> DEFINE rest == SubSeq(st.events, Len(b.ids) + 1, Len(st.events))
<1>4. rest \in Seq(Nat) /\ IsInjective(rest) /\ Range(rest) = Range(st.events) \ Range(b.ids)
  BY <1>2, <1>3, RestIs
<1>5. Range(b.ids) \subseteq Range(st.events) /\ Range(b.ids) \subseteq 1..now
  <2>1. Range(b.ids) \subseteq Range(st.events)
    BY <1>2, <1>3, BeginsIs
  <2> QED BY <1>2, <2>1 DEF StateOK, OutboxOK
<1>6. /\ st' \in States /\ st'.last = st.last /\ st'.inflight = Nothing /\ st'.since = st.since
      /\ st'.events = rest /\ st'.seen = st.seen \cup Range(b.ids)
      /\ st'.gap = IF st.gap = b.gap THEN NoGap ELSE st.gap
  <2> DEFINE g == IF st.gap = b.gap THEN NoGap ELSE st.gap
  <2>1. g \in Gaps
    BY <1>2 DEF Gaps, NoGap
  <2>2. st' = [st EXCEPT !.seen = @ \cup Range(b.ids), !.events = rest, !.gap = g,
                         !.inflight = Nothing]
    BY <1>1 DEF Sent
  <2> HIDE DEF g, rest
  <2>3. Range(b.ids) \subseteq Nat
    BY <1>2, ElementsOf
  <2>4. /\ st' \in States /\ st'.last = st.last /\ st'.inflight = Nothing /\ st'.since = st.since
        /\ st'.events = rest /\ st'.seen = st.seen \cup Range(b.ids) /\ st'.gap = g
    BY <1>2, <1>4, <2>1, <2>2, <2>3 DEF States
  <2> QED BY <2>4 DEF g
<1> HIDE DEF b, rest
<1>7. SyncTypeOK' /\ FeedOK' /\ PostOK' /\ LastOK'
  BY <1>1, <1>2, <1>6 DEF SyncInv, SyncTypeOK, FeedOK, PostOK, LastOK
<1>8. OutboxOK(st)' /\ FlightOK(st)'
  BY <1>1, <1>2, <1>4, <1>5, <1>6 DEF StateOK, OutboxOK, FlightOK
<1>9. StoredOK(st)'
  BY <1>1, <1>2, <1>3, <1>6 DEF StateOK, StoredOK, b
<1>10. BatchesApart'
  BY <1>1, <1>2, <1>6 DEF SyncInv, BatchesApart, Apart, b
<1>11. EventsKnown(st)'
  <2> SUFFICES ASSUME st.since > 0, NEW t \in st.since + 1 .. now PROVE Accounted(st, t)'
    BY <1>1, <1>6 DEF EventsKnown
  <2>1. Accounted(st, t) /\ t \in Nat \ {0}
    <3>1. st.since \in Nat
      BY <1>2, StateIs
    <3> QED BY <1>2, <3>1 DEF StateOK, EventsKnown
  <2>2. CASE t \in Range(b.ids) \/ Covers(b.gap, t)
    BY <1>1, <2>2 DEF Accounted, Told
  <2>3. CASE Told(t)
    BY <1>1, <2>3, ToldStays DEF Accounted
  <2>4. CASE t \notin Range(b.ids) /\ ~Covers(b.gap, t) /\ ~Told(t)
    BY <1>1, <1>4, <1>6, <2>1, <2>4 DEF Accounted
  <2> QED BY <2>2, <2>3, <2>4
<1>12. SealBeforeEvents'
  <2>1. \A t \in Range(b.ids) : t <= st.last /\ st.last \in heads
    <3>1. \A t \in Range(b.ids) : t \in Nat \ {0}
      BY <1>2, <1>5
    <3> QED BY <1>2, <3>1 DEF SyncInv, LastOK
  <2> QED BY <1>1, <2>1 DEF SyncInv, SealBeforeEvents
<1> QED BY <1>7, <1>8, <1>9, <1>10, <1>11, <1>12 DEF SyncInv

\* No answer: Coriqo may hold the batch, which stays frozen.
LEMMA PostFailsInv ==
    ASSUME SyncInv, PostFails
    PROVE  SyncInv'
<1> DEFINE b == st.inflight
<1>1. /\ UNCHANGED <<now, items, level, st, heads, missed, givenUp, changes>>
      /\ stored' \in {stored, stored \cup {b}} /\ pc' = "idle" /\ pc = "post"
  BY DEF PostFails
<1>2. /\ StateOK(st) /\ SyncTypeOK /\ now \in Nat /\ st \in States /\ b # Nothing
      /\ st.events \in Seq(Nat) /\ b \in Batches /\ b.ids \in Seq(Nat)
      /\ \A t \in Range(b.ids) : t <= st.last
  BY <1>1, InvState, StateIs DEF StateOK, SyncInv, PostOK
<1>3. Range(b.ids) \subseteq 1..now
  <2>1. Range(b.ids) \subseteq Range(st.events)
    BY <1>2, BeginsIs DEF StateOK, FlightOK
  <2> QED BY <1>2, <2>1 DEF StateOK, OutboxOK
<1>4. SyncTypeOK' /\ FeedOK' /\ PostOK' /\ LastOK' /\ OutboxOK(st)' /\ FlightOK(st)'
  BY <1>1, <1>2 DEF SyncInv, SyncTypeOK, FeedOK, PostOK, LastOK, OutboxOK, FlightOK
<1>5. StoredOK(st)'
  BY <1>1, <1>2 DEF StateOK, FlightOK, StoredOK
<1>6. BatchesApart'
  BY <1>1, <1>2 DEF SyncInv, BatchesApart, Apart
<1>7. EventsKnown(st)'
  <2>1. \A t : Told(t) => Told(t)'
    BY <1>1, ToldStays
  <2> QED BY <1>1, <2>1 DEF SyncInv, EventsKnown, Accounted
<1>8. SealBeforeEvents'
  <2>1. \A t \in Range(b.ids) : t <= st.last /\ st.last \in heads
    <3>1. \A t \in Range(b.ids) : t \in Nat \ {0}
      BY <1>2, <1>3
    <3> QED BY <1>2, <3>1 DEF SyncInv, LastOK
  <2> QED BY <1>1, <2>1 DEF SyncInv, SealBeforeEvents
<1> QED BY <1>4, <1>5, <1>6, <1>7, <1>8 DEF SyncInv

\* A refused batch, which Coriqo does not hold, is thawed.
LEMMA ThawOK ==
    ASSUME SyncInv, st.inflight # Nothing, st.inflight \notin stored,
           NEW s, s = [st EXCEPT !.inflight = Nothing]
    PROVE  /\ StateOK(s) /\ s.last = st.last /\ s.inflight = Nothing /\ s.since = st.since
           /\ s.events = st.events /\ s.gap = st.gap /\ s.seen = st.seen
<1>1. StateOK(st) /\ st \in States
  BY InvState DEF StateOK
<1>2. /\ s \in States /\ s.last = st.last /\ s.inflight = Nothing /\ s.since = st.since
      /\ s.events = st.events /\ s.gap = st.gap /\ s.seen = st.seen
  BY <1>1 DEF States
<1>3. OutboxOK(s) /\ FlightOK(s) /\ EventsKnown(s)
  BY <1>1, <1>2 DEF StateOK, OutboxOK, FlightOK, EventsKnown, Accounted
<1>4. StoredOK(s)
  BY <1>1, <1>2 DEF StateOK, StoredOK
<1> QED BY <1>2, <1>3, <1>4 DEF StateOK

\* 409: the events wait for another batch.
LEMMA PostConflictInv ==
    ASSUME SyncInv, PostConflict
    PROVE  SyncInv'
<1>1. /\ UNCHANGED <<now, items, level, heads, stored, missed, givenUp, changes>>
      /\ pc = "post" /\ pc' = "idle" /\ st.inflight \notin stored
      /\ st' = [st EXCEPT !.inflight = Nothing]
  BY DEF PostConflict
<1>2. st.inflight # Nothing /\ givenUp' \in SUBSET Gaps
  BY <1>1 DEF SyncInv, PostOK, SyncTypeOK
<1>3. StateOK(st') /\ st'.last = st.last /\ st'.inflight = Nothing
  BY <1>1, <1>2, ThawOK
<1>4. StateOK(st)'
  BY <1>1, <1>3 DEF StateOK, OutboxOK, FlightOK, StoredOK, EventsKnown, Accounted, Told
<1> QED BY <1>1, <1>2, <1>3, <1>4, StateStep

\* 422: the events go into the gap, or the gap is given up.
LEMMA PostMalformedInv ==
    ASSUME SyncInv, PostMalformed
    PROVE  SyncInv'
<1> DEFINE b == st.inflight
           s == [st EXCEPT !.inflight = Nothing]
<1>1. /\ UNCHANGED <<now, items, level, heads, stored, missed, changes>>
      /\ pc = "post" /\ pc' = "idle" /\ b \notin stored
  BY DEF PostMalformed
<1>2. b # Nothing /\ givenUp \in SUBSET Gaps /\ StateOK(st) /\ now \in Nat
  BY <1>1, InvState DEF SyncInv, PostOK, SyncTypeOK
<1>3. /\ StateOK(s) /\ s.last = st.last /\ s.inflight = Nothing /\ s.since = st.since
      /\ s.events = st.events /\ s.gap = st.gap /\ s.seen = st.seen
  BY <1>1, <1>2, ThawOK
<1>4. CASE b.ids # << >>
  <2>1. st' = DropEvents(s, Range(b.ids)) /\ givenUp' = givenUp
    BY <1>4 DEF PostMalformed
  <2>2. Range(b.ids) \subseteq Range(s.events)
    BY <1>2, <1>3, StateIs, BeginsIs DEF StateOK, FlightOK
  <2>3. Frozen(s) = {}
    BY <1>3 DEF Frozen
  <2> HIDE DEF s
  <2>4. StateOK(st') /\ st'.last = s.last /\ st'.inflight = s.inflight
    BY <1>2, <1>3, <2>1, <2>2, <2>3, DropOK
  <2>5. StateOK(st)'
    BY <1>1, <2>1, <2>4 DEF StateOK, OutboxOK, FlightOK, StoredOK, EventsKnown, Accounted, Told
  <2> QED BY <1>1, <1>2, <1>3, <2>1, <2>4, <2>5, StateStep
<1>5. CASE b.ids = << >>
  <2>1. /\ st' = [s EXCEPT !.gap = IF @ = b.gap THEN NoGap ELSE @]
        /\ givenUp' = givenUp \cup {b.gap}
    BY <1>5 DEF PostMalformed
  <2>2. b.gap \in Gaps /\ s.gap \in Gaps /\ NoGap \in Gaps /\ s \in States
    BY <1>2, <1>3, StateIs DEF StateOK, Batches, Gaps, NoGap
  <2> DEFINE g == IF s.gap = b.gap THEN NoGap ELSE s.gap
  <2>3. st' = [s EXCEPT !.gap = g] /\ g \in Gaps
    BY <2>1, <2>2
  <2> HIDE DEF s, g
  <2>4. /\ st' \in States /\ st'.last = s.last /\ st'.inflight = s.inflight /\ st'.since = s.since
        /\ st'.events = s.events /\ st'.gap = g /\ st'.seen = s.seen
    BY <2>2, <2>3 DEF States
  <2>5. OutboxOK(st)' /\ FlightOK(st)' /\ StoredOK(st)'
    BY <1>1, <1>3, <2>4 DEF StateOK, OutboxOK, FlightOK, StoredOK
  <2>6. EventsKnown(st)'
    <3> SUFFICES ASSUME s.since > 0, NEW t \in s.since + 1 .. now PROVE Accounted(st, t)'
      BY <1>1, <2>4 DEF EventsKnown
    <3>1. Accounted(s, t)
      BY <1>3 DEF StateOK, EventsKnown
    <3>2. CASE Covers(b.gap, t)
      BY <2>1, <3>2 DEF Accounted, Told
    <3>3. CASE Told(t)
      BY <1>1, <2>1, <3>3, ToldStays DEF Accounted
    <3>4. CASE ~Covers(b.gap, t) /\ ~Told(t)
      BY <1>1, <2>4, <3>1, <3>4 DEF Accounted, g
    <3> QED BY <3>2, <3>3, <3>4
  <2> QED BY <1>1, <1>2, <1>3, <2>1, <2>2, <2>4, <2>5, <2>6, StateStep DEF StateOK
<1> QED BY <1>4, <1>5

\* Every step keeps the invariant.
LEMMA SyncNextInv == SyncInv /\ [Next]_vars => SyncInv'
<1> SUFFICES ASSUME SyncInv, [Next]_vars PROVE SyncInv'
  OBVIOUS
<1>1. CASE Event
  BY <1>1, EventInv
<1>2. ASSUME NEW l \in Levels, SetLevel(l) PROVE SyncInv'
  BY <1>2, SetLevelInv
<1>3. CASE SyncTick
  BY <1>3, SyncTickInv
<1>4. CASE SendSealOk
  BY <1>4, SendSealOkInv
<1>5. CASE SendSealFails
  BY <1>5, SendSealFailsInv
<1>6. CASE FreezeBatch
  BY <1>6, FreezeBatchInv
<1>7. CASE PostOk
  BY <1>7, PostOkInv
<1>8. CASE PostFails
  BY <1>8, PostFailsInv
<1>9. CASE PostMalformed
  BY <1>9, PostMalformedInv
<1>10. CASE PostConflict
  BY <1>10, PostConflictInv
<1>11. CASE UNCHANGED vars
  <2>1. SyncTypeOK' /\ FeedOK' /\ OutboxOK(st)' /\ FlightOK(st)' /\ PostOK' /\ LastOK'
    BY <1>11 DEF vars, SyncInv, SyncTypeOK, FeedOK, OutboxOK, FlightOK, PostOK, LastOK
  <2>2. StoredOK(st)' /\ BatchesApart' /\ EventsKnown(st)' /\ SealBeforeEvents'
    BY <1>11
    DEF vars, SyncInv, StoredOK, BatchesApart, Apart, EventsKnown, Accounted, Told, SealBeforeEvents
  <2> QED BY <2>1, <2>2 DEF SyncInv
<1> QED BY <1>1, <1>2, <1>3, <1>4, <1>5, <1>6, <1>7, <1>8, <1>9, <1>10, <1>11 DEF Next

\* Publisher (shield_publish.py), the inductive invariant: what waits, is in
\* flight, was dealt with and was stored fit together in every state.
THEOREM SyncInvariant == Spec => []SyncInv
<1>1. Init => SyncInv
  BY SyncInitInv
<1>2. SyncInv /\ [Next]_vars => SyncInv'
  BY SyncNextInv
<1> QED BY <1>1, <1>2, PTL DEF Spec

\* sync_tick, _collect, _send_events and _sync_failed: every event since sharing
\* began is accounted for, and no event is in two batches of one level, whatever
\* is lost, refused, trimmed or sent again.
THEOREM EventsStayAccounted == Spec => []EventsAccounted
<1>1. SyncInv => EventsAccounted
  BY DEF SyncInv, EventsKnown, Accounted, Told, BatchesApart, Apart, EventsAccounted
<1> QED BY <1>1, SyncInvariant, PTL

\* _send_events: an event Coriqo holds is under a seal head it held before.
THEOREM SealsComeFirst == Spec => []SealBeforeEvents
<1>1. SyncInv => SealBeforeEvents
  BY DEF SyncInv
<1> QED BY <1>1, SyncInvariant, PTL
=============================================================================
