------------------------ MODULE ClientSessionProofs ------------------------
(***************************************************************************)
(* Theorems about the browser session, for any wallets, toasts, records,   *)
(* events, forms and flags: each store is sound by itself, the session of  *)
(* the wallet is coherent, and the action properties of the stores.        *)
(*                                                                         *)
(* Every part has an inductive invariant of its own (WalletInv, ToastInv,  *)
(* CacheInv, NoticeInv, DraftInv, FlagInv).  The last section puts them    *)
(* together: a step of the session is a step of one part and a stutter of  *)
(* the others.                                                             *)
(***************************************************************************)
EXTENDS MCClientSession, WellFoundedInduction, FiniteSetTheorems,
        SequenceTheorems, TLAPS

\* A set of natural numbers has a least element: induction is done by looking
\* at the least counterexample.
LEMMA LeastNumber ==
  ASSUME NEW T, T \subseteq Nat, T # {}
  PROVE  \E x \in T : \A y \in T : x <= y
<1>1. \A x, y \in Nat : x < y => <<x, y>> \in OpToRel(<, Nat)
  BY DEF OpToRel
<1>2. \E R : IsWellFoundedOn(R, Nat) /\ \A x, y \in Nat : x < y => <<x, y>> \in R
  BY <1>1, NatLessThanWellFounded, Zenon
<1>3. PICK R : IsWellFoundedOn(R, Nat) /\ \A x, y \in Nat : x < y => <<x, y>> \in R
  BY <1>2
<1>4. PICK x \in T : \A y \in T : ~(<<y, x>> \in R)
  BY <1>3, WFMin
<1>5. \A y \in T : x <= y
  <2> SUFFICES ASSUME NEW y \in T PROVE x <= y
    OBVIOUS
  <2>1. x \in Nat /\ y \in Nat /\ ~(y < x)
    BY <1>3, <1>4
  <2>. QED
    BY <2>1
<1>. QED
  BY <1>5

\* What holds of 0, and of each number up to m after its predecessor.
LEMMA Induction ==
  ASSUME NEW m \in Nat, NEW Good, 0 \in Good,
         \A n \in 1..m : n - 1 \in Good => n \in Good
  PROVE  0..m \subseteq Good
<1> DEFINE Bad == {n \in 0..m : n \notin Good}
<1> SUFFICES ASSUME Bad # {}
             PROVE  FALSE
  OBVIOUS
<1>0. Bad \subseteq Nat
  OBVIOUS
<1>1. PICK n \in Bad : \A k \in Bad : n <= k
  BY <1>0, LeastNumber
<1>2. n # 0 /\ n \in 1..m /\ n - 1 \in 0..m /\ n - 1 \notin Bad
  BY <1>1
<1>3. n - 1 \in Good
  BY <1>2
<1>4. n \in Good
  BY <1>2, <1>3
<1>. QED
  BY <1>1, <1>4

-----------------------------------------------------------------------------
(***************************************************************************)
(* Lists and ranks.                                                        *)
(***************************************************************************)

\* The items of a list, no two of which have the same id.
Distinct(s) == \A i, j \in 1..Len(s) : s[i].id = s[j].id => i = j

\* The loop of filter(), round by round, over the first n items.
Filtering(g, s, ids, n) ==
  g = [i \in 0..n |-> IF i = 0 THEN <<>>
                      ELSE IF s[i].id \in ids THEN Append(g[i - 1], s[i]) ELSE g[i - 1]]

\* The loop can be run to any number of rounds.
LEMMA FilteringExists ==
  ASSUME NEW s, NEW ids, NEW n \in Nat
  PROVE  \E g : Filtering(g, s, ids, n)
<1> DEFINE Good == {m \in Nat : \E g : Filtering(g, s, ids, m)}
<1>1. 0 \in Good
  <2> DEFINE g == [i \in 0..0 |-> <<>>]
  <2>1. g = [i \in 0..0 |->
               IF i = 0 THEN <<>>
               ELSE IF s[i].id \in ids THEN Append(g[i - 1], s[i]) ELSE g[i - 1]]
    OBVIOUS
  <2>. QED
    BY <2>1 DEF Filtering
<1>2. ASSUME NEW m \in 1..n, m - 1 \in Good PROVE m \in Good
  <2>1. PICK h : Filtering(h, s, ids, m - 1)
    BY <1>2
  <2> DEFINE last == IF s[m].id \in ids THEN Append(h[m - 1], s[m]) ELSE h[m - 1]
  <2> DEFINE g == [i \in 0..m |-> IF i = m THEN last ELSE h[i]]
  <2>2. \A i \in 0..(m - 1) :
          h[i] = IF i = 0 THEN <<>>
                 ELSE IF s[i].id \in ids THEN Append(h[i - 1], s[i]) ELSE h[i - 1]
    BY <2>1 DEF Filtering
  <2>3. \A i \in 0..m :
          g[i] = IF i = 0 THEN <<>>
                 ELSE IF s[i].id \in ids THEN Append(g[i - 1], s[i]) ELSE g[i - 1]
    BY <2>2
  <2>4. g = [i \in 0..m |->
               IF i = 0 THEN <<>>
               ELSE IF s[i].id \in ids THEN Append(g[i - 1], s[i]) ELSE g[i - 1]]
    BY <2>3
  <2>5. Filtering(g, s, ids, m)
    BY <2>4 DEF Filtering
  <2> HIDE DEF g
  <2>6. m \in Nat /\ \E r : Filtering(r, s, ids, m)
    BY <2>5
  <2>. QED
    BY <2>6
<1> HIDE DEF Good
<1>3. n \in Good
  BY <1>1, <1>2, Induction
<1>. QED
  BY <1>3 DEF Good

\* Keeping() ends with the last round.
LEMMA KeepingIsLastRound ==
  ASSUME NEW s, NEW ids, Len(s) \in Nat
  PROVE  \E g : Filtering(g, s, ids, Len(s)) /\ Keeping(s, ids) = g[Len(s)]
<1> DEFINE rest == CHOOSE g : Filtering(g, s, ids, Len(s))
<1>1. Filtering(rest, s, ids, Len(s))
  BY FilteringExists
<1>2. Keeping(s, ids) = rest[Len(s)]
  BY DEF Keeping, Filtering
<1>. QED
  BY <1>1, <1>2

\* What filter() made of the first m items: items of them with an id asked
\* for, each once, and all of these.
Filtered(r, s, ids, m) ==
  /\ Len(r) <= m
  /\ \A k \in 1..Len(r) : \E i \in 1..m : r[k] = s[i] /\ s[i].id \in ids
  /\ \A i \in 1..m : s[i].id \in ids => \E k \in 1..Len(r) : r[k] = s[i]
  /\ Distinct(s) => Distinct(r)

LEMMA KeepingIsFilter ==
  ASSUME NEW T, NEW s \in Seq(T), NEW ids
  PROVE  Keeping(s, ids) \in Seq(T) /\ Filtered(Keeping(s, ids), s, ids, Len(s))
<1>0. Len(s) \in Nat
  OBVIOUS
<1>1. PICK g : Filtering(g, s, ids, Len(s)) /\ Keeping(s, ids) = g[Len(s)]
  BY <1>0, KeepingIsLastRound
<1>2. \A i \in 0..Len(s) :
        g[i] = IF i = 0 THEN <<>>
               ELSE IF s[i].id \in ids THEN Append(g[i - 1], s[i]) ELSE g[i - 1]
  BY <1>1 DEF Filtering
<1> DEFINE Good == {m \in 0..Len(s) : g[m] \in Seq(T) /\ Filtered(g[m], s, ids, m)}
<1>3. 0 \in Good
  <2>1. g[0] = <<>> /\ 0 \in 0..Len(s)
    BY <1>2
  <2>2. g[0] \in Seq(T) /\ Len(g[0]) = 0
    BY <2>1
  <2>3. Filtered(g[0], s, ids, 0)
    BY <2>2 DEF Filtered, Distinct
  <2>. QED
    BY <2>1, <2>2, <2>3
<1>4. ASSUME NEW m \in 1..Len(s), m - 1 \in Good PROVE m \in Good
  <2>1. g[m - 1] \in Seq(T) /\ Filtered(g[m - 1], s, ids, m - 1) /\ m \in 0..Len(s)
    BY <1>4
  <2>2. g[m] = IF s[m].id \in ids THEN Append(g[m - 1], s[m]) ELSE g[m - 1]
    BY <1>2
  <2>3. CASE s[m].id \notin ids
    <3>1. g[m] = g[m - 1]
      BY <2>2, <2>3
    <3>2. Filtered(g[m], s, ids, m)
      BY <2>1, <2>3, <3>1 DEF Filtered
    <3>. QED
      BY <2>1, <3>1, <3>2
  <2>4. CASE s[m].id \in ids
    <3> DEFINE r == g[m - 1]
    <3> DEFINE q == Append(r, s[m])
    <3>1. g[m] = q /\ s[m] \in T
      BY <2>2, <2>4
    <3>2. /\ q \in Seq(T) /\ Len(q) = Len(r) + 1 /\ q[Len(q)] = s[m]
          /\ \A k \in 1..Len(r) : q[k] = r[k]
      BY <2>1, <3>1
    <3>3. Len(r) \in Nat /\ 1..Len(q) = 1..Len(r) \union {Len(q)}
      BY <2>1, <3>2
    <3> HIDE DEF r, q
    <3>r. Filtered(r, s, ids, m - 1)
      BY <2>1 DEF r
    <3>4. \A k \in 1..Len(q) : \E i \in 1..m : q[k] = s[i] /\ s[i].id \in ids
      <4> SUFFICES ASSUME NEW k \in 1..Len(q)
                   PROVE  \E i \in 1..m : q[k] = s[i] /\ s[i].id \in ids
        OBVIOUS
      <4>1. CASE k = Len(q)
        BY <4>1, <3>2, <2>4
      <4>2. CASE k \in 1..Len(r)
        <5>1. PICK i \in 1..(m - 1) : r[k] = s[i] /\ s[i].id \in ids
          BY <4>2, <3>r DEF Filtered
        <5>. QED
          BY <5>1, <4>2, <3>2
      <4>. QED
        BY <3>3, <4>1, <4>2
    <3>5. \A i \in 1..m : s[i].id \in ids => \E k \in 1..Len(q) : q[k] = s[i]
      <4> SUFFICES ASSUME NEW i \in 1..m, s[i].id \in ids
                   PROVE  \E k \in 1..Len(q) : q[k] = s[i]
        OBVIOUS
      <4>1. CASE i = m
        BY <4>1, <3>2, <3>3
      <4>2. CASE i # m
        <5>1. PICK k \in 1..Len(r) : r[k] = s[i]
          BY <4>2, <3>r DEF Filtered
        <5>. QED
          BY <5>1, <3>2, <3>3
      <4>. QED
        BY <4>1, <4>2
    <3>6. Distinct(s) => Distinct(q)
      <4> SUFFICES ASSUME Distinct(s), NEW j \in 1..Len(q), NEW k \in 1..Len(q),
                          q[j].id = q[k].id
                   PROVE  j = k
        BY DEF Distinct
      <4>1. Distinct(r)
        BY <3>r DEF Filtered
      <4>2. \A l \in 1..Len(r) : r[l].id # s[m].id
        <5> SUFFICES ASSUME NEW l \in 1..Len(r) PROVE r[l].id # s[m].id
          OBVIOUS
        <5>1. PICK i \in 1..(m - 1) : r[l] = s[i]
          BY <3>r DEF Filtered
        <5>. QED
          BY <5>1 DEF Distinct
      <4>3. CASE j \in 1..Len(r) /\ k \in 1..Len(r)
        BY <4>1, <4>3, <3>2 DEF Distinct
      <4>4. CASE j = Len(q) /\ k \in 1..Len(r)
        BY <4>2, <4>4, <3>2
      <4>5. CASE j \in 1..Len(r) /\ k = Len(q)
        BY <4>2, <4>5, <3>2
      <4>. QED
        BY <3>3, <4>3, <4>4, <4>5
    <3>7. Filtered(q, s, ids, m)
      BY <3>r, <3>2, <3>3, <3>4, <3>5, <3>6 DEF Filtered
    <3>. QED
      BY <2>1, <3>1, <3>2, <3>7
  <2>. QED
    BY <2>3, <2>4
<1> HIDE DEF Good
<1>5. Len(s) \in Good
  BY <1>0, <1>3, <1>4, Induction
<1>. QED
  BY <1>1, <1>5 DEF Good

\* A list without repeats has as many ids as items.
LEMMA DistinctCount ==
  ASSUME NEW T, NEW s \in Seq(T), Distinct(s)
  PROVE  Cardinality({s[i].id : i \in DOMAIN s}) = Len(s)
<1> DEFINE f == [i \in 1..Len(s) |-> s[i].id]
<1> DEFINE Ids == {s[i].id : i \in DOMAIN s}
<1>1. Len(s) \in Nat /\ DOMAIN s = 1..Len(s)
  OBVIOUS
<1>2. f \in Bijection(1..Len(s), Ids)
  BY <1>1 DEF Distinct, Bijection, Injection, Surjection, IsInjective
<1>3. IsFiniteSet(1..Len(s)) /\ Cardinality(1..Len(s)) = Len(s)
  BY <1>1, FS_Interval
<1>4. ExistsBijection(1..Len(s), Ids)
  BY <1>2 DEF ExistsBijection
<1>. QED
  BY <1>3, <1>4, FS_Bijection

\* In a finite set with a strict order, at most n elements have no more than
\* n - 1 above them: those whose rank is within n of the size of the set.
LEMMA TopOfRanks ==
  ASSUME NEW S, IsFiniteSet(S), NEW below \in [S -> SUBSET S],
         \A x \in S : x \notin below[x],
         \A x, y \in S : x \in below[y] => below[x] \subseteq below[y],
         \A x, y \in S : x # y => x \in below[y] \/ y \in below[x],
         NEW n \in Nat, n <= Cardinality(S)
  PROVE  /\ IsFiniteSet({x \in S : Cardinality(below[x]) + n >= Cardinality(S)})
         /\ Cardinality({x \in S : Cardinality(below[x]) + n >= Cardinality(S)}) <= n
<1> DEFINE size == Cardinality(S)
<1> DEFINE Top == {x \in S : Cardinality(below[x]) + n >= size}
<1> DEFINE rank == [x \in Top |-> Cardinality(below[x])]
<1>1. size \in Nat
  BY FS_CardinalityType
<1>2. \A x \in S : IsFiniteSet(below[x]) /\ Cardinality(below[x]) \in Nat
                   /\ Cardinality(below[x]) < size
  <2> SUFFICES ASSUME NEW x \in S
               PROVE  /\ IsFiniteSet(below[x]) /\ Cardinality(below[x]) \in Nat
                      /\ Cardinality(below[x]) < size
    OBVIOUS
  <2>1. below[x] \in SUBSET S /\ below[x] # S
    OBVIOUS
  <2>2. IsFiniteSet(below[x]) /\ Cardinality(below[x]) <= size
        /\ Cardinality(below[x]) # size
    BY <2>1, FS_Subset
  <2>3. Cardinality(below[x]) \in Nat
    BY <2>2, FS_CardinalityType
  <2>. QED
    BY <1>1, <2>2, <2>3
<1>3. \A x, y \in S : x \in below[y] => Cardinality(below[x]) < Cardinality(below[y])
  <2> SUFFICES ASSUME NEW x \in S, NEW y \in S, x \in below[y]
               PROVE  Cardinality(below[x]) < Cardinality(below[y])
    OBVIOUS
  <2>1. below[x] \in SUBSET below[y] /\ below[x] # below[y]
    OBVIOUS
  <2>2. /\ Cardinality(below[x]) <= Cardinality(below[y])
        /\ Cardinality(below[x]) # Cardinality(below[y])
    BY <1>2, <2>1, FS_Subset
  <2>. QED
    BY <1>2, <2>2
<1>4. \A x, y \in S : x # y => Cardinality(below[x]) # Cardinality(below[y])
  BY <1>2, <1>3
<1>5. \A x \in Top : rank[x] \in (size - n)..(size - 1)
  BY <1>1, <1>2
<1>6. rank \in Injection(Top, (size - n)..(size - 1))
  BY <1>4, <1>5 DEF Injection, IsInjective
<1>7. PICK lo, hi \in Int : lo = size - n /\ hi = size - 1
  BY <1>1
<1>8. /\ IsFiniteSet(lo..hi)
      /\ Cardinality(lo..hi) = n
  <2>1. IsFiniteSet(lo..hi) /\ Cardinality(lo..hi) = IF lo > hi THEN 0 ELSE hi - lo + 1
    BY FS_Interval
  <2>. QED
    BY <1>1, <1>7, <2>1
<1>9. IsFiniteSet(Top) /\ Cardinality(Top) <= n
  BY <1>6, <1>7, <1>8, FS_Injection
<1>. QED
  BY <1>9
-----------------------------------------------------------------------------
(***************************************************************************)
(* The toast queue.                                                        *)
(***************************************************************************)

ToastInv ==
  /\ toasts \in Seq(ToastItem) /\ Distinct(toasts)
  /\ Len(toasts) <= maxVisible
  /\ dismissals \in [ToastIds -> Nat \union {Off}]
  /\ lastSeen \in [ToastKeys -> 0..Forgotten]
  /\ maxVisible \in Nat \ {0}
  /\ TimedToastEnds

\* An overflow never drops an item while one of lower priority stays.
KeepsTheUrgent(s, r) ==
  \A i \in DOMAIN s, j \in DOMAIN r :
    s[i].id \notin IdsOf(r) => r[j].priority >= s[i].priority

LEMMA ForgottenType == Forgotten \in Nat /\ \A c \in ToastCalls : c.window <= Forgotten
<1> DEFINE W == {c.window : c \in ToastCalls}
<1>1. \A c \in ToastCalls : c.window \in Nat
  BY ToastCallsAssumption
<1>2. \E n \in W : \A c \in ToastCalls : c.window <= n
  BY WindowsAssumption
<1>3. Forgotten \in W /\ \A c \in ToastCalls : c.window <= Forgotten
  BY <1>2 DEF Forgotten
<1>. QED
  BY <1>1, <1>3

\* What enforceOverflow() leaves of a stack: items of it in their order, no
\* more than may show, and never a lesser one in place of a greater.
LEMMA TrimmedGives ==
  ASSUME NEW s \in Seq(ToastItem), Distinct(s), NEW n \in Nat \ {0}
  PROVE  /\ Trimmed(s, n) \in Seq(ToastItem) /\ Distinct(Trimmed(s, n))
         /\ Len(Trimmed(s, n)) <= n
         /\ \A k \in 1..Len(Trimmed(s, n)) : \E i \in 1..Len(s) : Trimmed(s, n)[k] = s[i]
         /\ KeepsTheUrgent(s, Trimmed(s, n))
<1> DEFINE S == DOMAIN s
<1> DEFINE below == [i \in S |-> {j \in S : DroppedBefore(s, j, i)}]
<1> DEFINE kept == {i \in S : Cardinality(below[i]) + n >= Len(s)}
<1> DEFINE ids == {s[i].id : i \in kept}
<1> DEFINE r == Keeping(s, ids)
<1>0. S = 1..Len(s) /\ Len(s) \in Nat /\ \A i \in S : s[i] \in ToastItem /\ s[i].priority \in Nat
  <2>1. S = 1..Len(s) /\ Len(s) \in Nat /\ \A i \in 1..Len(s) : s[i] \in ToastItem
    OBVIOUS
  <2>. QED
    BY <2>1 DEF ToastItem
<1>1. IsFiniteSet(S) /\ Cardinality(S) = Len(s)
  <2>1. IsFiniteSet(1..Len(s)) /\ Cardinality(1..Len(s)) = Len(s)
    BY <1>0, FS_Interval
  <2>. QED
    BY <1>0, <2>1
<1>2. Trimmed(s, n) = r
  <2>1. kept = {i \in S : Cardinality({j \in S : DroppedBefore(s, j, i)}) + n >= Len(s)}
    OBVIOUS
  <2>. QED
    BY <2>1, Zenon DEF Trimmed
<1>3. /\ \A x \in S : x \notin below[x]
      /\ \A x, y \in S : x \in below[y] => below[x] \subseteq below[y]
      /\ \A x, y \in S : x # y => x \in below[y] \/ y \in below[x]
      /\ below \in [S -> SUBSET S]
  BY <1>0 DEF DroppedBefore
<1>4. r \in Seq(ToastItem) /\ Filtered(r, s, ids, Len(s))
  BY KeepingIsFilter
<1>5. /\ DOMAIN r = 1..Len(r) /\ Distinct(r)
      /\ \A k \in 1..Len(r) : \E i \in 1..Len(s) : r[k] = s[i] /\ s[i].id \in ids
  <2> HIDE DEF r, ids
  <2>. QED
    BY <1>4 DEF Filtered
<1>6. Len(r) <= n
  <2>1. CASE Len(s) < n
    BY <2>1, <1>0, <1>4 DEF Filtered
  <2>2. CASE n <= Len(s)
    <3>1. IsFiniteSet(kept) /\ Cardinality(kept) <= n
      <4> HIDE DEF below, S
      <4>1. n \in Nat /\ n <= Cardinality(S)
        BY <2>2, <1>1
      <4>. QED
        BY <4>1, <1>1, <1>3, TopOfRanks
    <3> DEFINE named == [i \in kept |-> s[i].id]
    <3>2. named \in Surjection(kept, ids)
      BY DEF Surjection
    <3>3. IsFiniteSet(ids) /\ Cardinality(ids) <= Cardinality(kept)
      BY <3>1, <3>2, FS_Surjection
    <3>4. {r[k].id : k \in DOMAIN r} \in SUBSET ids
      <4> HIDE DEF r, ids
      <4>. QED
        BY <1>5
    <3>5. Cardinality({r[k].id : k \in DOMAIN r}) <= Cardinality(ids)
      BY <3>3, <3>4, FS_Subset
    <3>6. Cardinality({r[k].id : k \in DOMAIN r}) = Len(r)
      BY <1>4, <1>5, DistinctCount
    <3>7. Cardinality(kept) \in Nat /\ Cardinality(ids) \in Nat /\ Len(r) \in Nat
      BY <1>4, <3>1, <3>3, FS_CardinalityType
    <3>. QED
      BY <3>1, <3>3, <3>5, <3>6, <3>7
  <2>. QED
    BY <1>0, <2>1, <2>2
<1>7. KeepsTheUrgent(s, r)
  <2> SUFFICES ASSUME NEW i \in DOMAIN s, NEW j \in DOMAIN r, s[i].id \notin IdsOf(r)
               PROVE  r[j].priority >= s[i].priority
    BY DEF KeepsTheUrgent
  <2>1. PICK l \in 1..Len(s) : r[j] = s[l] /\ s[l].id \in ids
    <3> HIDE DEF r, ids
    <3>. QED
      BY <1>5
  <2>2. PICK m \in kept : s[l].id = s[m].id
    BY <2>1
  <2>3. l = m
    BY <1>0, <2>2 DEF Distinct
  <2>4. i \notin kept
    <3> SUFFICES ASSUME i \in kept
                 PROVE  FALSE
      OBVIOUS
    <3>1. PICK k \in 1..Len(r) : r[k] = s[i]
      BY <1>0, <1>4 DEF Filtered
    <3>2. k \in DOMAIN r
      BY <1>5
    <3>. QED
      BY <3>1, <3>2 DEF IdsOf
  <2>5. IsFiniteSet(below[i]) /\ IsFiniteSet(below[l])
    <3>1. below[i] \in SUBSET S /\ below[l] \in SUBSET S
      BY <1>0, <1>3
    <3> HIDE DEF below, S
    <3>. QED
      BY <1>1, <3>1, FS_Subset
  <2>6. Cardinality(below[i]) \in Nat /\ Cardinality(below[l]) \in Nat
    BY <2>5, FS_CardinalityType
  <2>7. Cardinality(below[i]) < Cardinality(below[l])
    BY <1>0, <2>2, <2>3, <2>4, <2>6
  <2>8. ~DroppedBefore(s, l, i)
    <3> SUFFICES ASSUME DroppedBefore(s, l, i)
                 PROVE  FALSE
      OBVIOUS
    <3>1. below[l] \in SUBSET below[i]
      BY <1>0, <1>3
    <3>2. Cardinality(below[l]) <= Cardinality(below[i])
      BY <2>5, <3>1, FS_Subset
    <3>. QED
      BY <2>6, <2>7, <3>2
  <2>9. s[l].priority >= s[i].priority
    BY <1>0, <2>8 DEF DroppedBefore
  <2>. QED
    BY <2>1, <2>9
<1>. QED
  BY <1>2, <1>4, <1>5, <1>6, <1>7

\* The queue starts empty.
LEMMA ToastInitInv == ToastInit => ToastInv
<1> SUFFICES ASSUME ToastInit
             PROVE  ToastInv
  OBVIOUS
<1>1. toasts \in Seq(ToastItem) /\ Len(toasts) = 0
  BY EmptySeq DEF ToastInit
<1>2. Distinct(toasts) /\ TimedToastEnds
  BY <1>1 DEF Distinct, TimedToastEnds
<1>3. maxVisible \in Nat \ {0}
  BY CapacitiesAssumption DEF ToastInit, AtLeastOne
<1>4. dismissals \in [ToastIds -> Nat \union {Off}]
  BY DEF ToastInit
<1>5. lastSeen \in [ToastKeys -> 0..Forgotten]
  BY ForgottenType DEF ToastInit
<1>. QED
  BY <1>1, <1>2, <1>3, <1>4, <1>5 DEF ToastInv

\* A push keeps the types, and the timers of the toasts that stay.
LEMMA PushInv ==
  ASSUME ToastInv, NEW call \in ToastCalls, Push(call)
  PROVE  ToastInv' /\ KeepsTheUrgent(toasts, toasts')
<1> USE DEF ToastInv
<1>1. PICK id \in {i \in ToastIds \ OnDisplay : dismissals[i] = Off} :
        LET item == [id |-> id, key |-> call.key, priority |-> call.priority,
                     duration |-> call.duration]
            full == Append(toasts, item)
            rest == Trimmed(full, maxVisible)
        IN  /\ toasts' = rest
            /\ dismissals' = ScheduleDismiss(
                 ClearTimers(dismissals, IdsOf(full) \ IdsOf(rest)), item)
  BY DEF Push
<1> DEFINE item == [id |-> id, key |-> call.key, priority |-> call.priority,
                    duration |-> call.duration]
<1> DEFINE full == Append(toasts, item)
<1> DEFINE cleared == ClearTimers(dismissals, IdsOf(full) \ IdsOf(toasts'))
<1>2. item \in ToastItem /\ item.id = id /\ item.duration \in Nat
  BY ToastCallsAssumption DEF ToastItem, ToastKeys
<1>3. /\ full \in Seq(ToastItem) /\ Len(full) = Len(toasts) + 1 /\ full[Len(full)] = item
      /\ \A k \in 1..Len(toasts) : full[k] = toasts[k]
      /\ Len(toasts) \in Nat /\ 1..Len(full) = 1..Len(toasts) \union {Len(full)}
  BY <1>2
<1>4. \A k \in 1..Len(toasts) : toasts[k].id # id /\ toasts[k].id \in OnDisplay
  BY <1>1 DEF OnDisplay, IdsOf
<1> HIDE DEF item, full
<1>5. Distinct(full)
  BY <1>2, <1>3, <1>4 DEF Distinct
<1>6. toasts' = Trimmed(full, maxVisible) /\ dismissals' = ScheduleDismiss(cleared, item)
  BY <1>1 DEF full, item
<1>7. /\ toasts' \in Seq(ToastItem) /\ Distinct(toasts') /\ Len(toasts') <= maxVisible
      /\ \A k \in 1..Len(toasts') : \E i \in 1..Len(full) : toasts'[k] = full[i]
      /\ KeepsTheUrgent(full, toasts')
  BY <1>3, <1>5, <1>6, TrimmedGives
<1>8. cleared \in [ToastIds -> Nat \union {Off}]
  BY DEF ClearTimers
<1>9. dismissals' \in [ToastIds -> Nat \union {Off}]
  BY <1>1, <1>2, <1>6, <1>8 DEF ScheduleDismiss
<1>10. TimedToastEnds'
  <2> SUFFICES ASSUME NEW k \in DOMAIN toasts', toasts'[k].duration > 0
               PROVE  dismissals'[toasts'[k].id] \in 0..toasts'[k].duration
    BY DEF TimedToastEnds
  <2>0. toasts'[k] \in ToastItem /\ toasts'[k].id \in IdsOf(toasts')
    BY <1>7 DEF IdsOf
  <2>1. PICK i \in 1..Len(full) : toasts'[k] = full[i]
    BY <1>7
  <2>2. CASE i = Len(full)
    <3>1. toasts'[k].id = id /\ toasts'[k].duration = item.duration
      BY <1>2, <1>3, <2>1, <2>2
    <3>2. dismissals'[id] = item.duration
      <4>1. item.duration > 0
        BY <1>2, <2>0, <3>1
      <4> HIDE DEF cleared
      <4>2. dismissals' = [cleared EXCEPT ![id] = item.duration]
        BY <1>2, <1>6, <4>1 DEF ScheduleDismiss
      <4>. QED
        BY <1>1, <1>8, <4>2
    <3>. QED
      BY <1>2, <3>1, <3>2
  <2>3. CASE i \in 1..Len(toasts)
    <3>1. toasts'[k] = toasts[i] /\ toasts[i].id # id
      BY <1>3, <1>4, <2>1, <2>3
    <3>2. dismissals[toasts[i].id] \in 0..toasts[i].duration
      BY <2>3, <3>1 DEF TimedToastEnds
    <3>3. cleared[toasts[i].id] = dismissals[toasts[i].id]
      BY <2>0, <3>1 DEF ClearTimers, ToastItem
    <3>4. dismissals'[toasts[i].id] = cleared[toasts[i].id]
      BY <1>2, <1>6, <1>8, <2>0, <3>1 DEF ScheduleDismiss, ToastItem
    <3>. QED
      BY <3>1, <3>2, <3>3, <3>4
  <2>. QED
    BY <1>3, <2>1, <2>2, <2>3
<1>11. lastSeen' \in [ToastKeys -> 0..Forgotten] /\ maxVisible' = maxVisible
  <2>1. 0 \in 0..Forgotten
    BY ForgottenType
  <2>2. lastSeen' = [lastSeen EXCEPT ![call.key] = 0] /\ maxVisible' = maxVisible
    BY DEF Push
  <2>. QED
    BY <2>1, <2>2
<1>12. KeepsTheUrgent(toasts, toasts')
  <2>1. \A i \in DOMAIN toasts : i \in DOMAIN full /\ full[i] = toasts[i]
    BY <1>3
  <2>. QED
    BY <1>7, <2>1 DEF KeepsTheUrgent
<1>. QED
  BY <1>7, <1>9, <1>10, <1>11, <1>12

\* Another maximum cuts the stack and the timers of what it drops.
LEMMA SetMaxVisibleInv ==
  ASSUME ToastInv, NEW n \in Capacities, SetMaxVisible(n)
  PROVE  ToastInv' /\ KeepsTheUrgent(toasts, toasts')
<1> USE DEF ToastInv
<1>1. maxVisible' \in Nat \ {0} /\ toasts' = Trimmed(toasts, maxVisible')
  BY CapacitiesAssumption DEF SetMaxVisible, AtLeastOne
<1>2. /\ toasts' \in Seq(ToastItem) /\ Distinct(toasts') /\ Len(toasts') <= maxVisible'
      /\ \A k \in 1..Len(toasts') : \E i \in 1..Len(toasts) : toasts'[k] = toasts[i]
      /\ KeepsTheUrgent(toasts, toasts')
  BY <1>1, TrimmedGives
<1>3. /\ dismissals' = ClearTimers(dismissals, OnDisplay \ IdsOf(toasts'))
      /\ dismissals' \in [ToastIds -> Nat \union {Off}] /\ lastSeen' = lastSeen
  BY DEF SetMaxVisible, ClearTimers
<1>4. TimedToastEnds'
  <2> SUFFICES ASSUME NEW k \in DOMAIN toasts', toasts'[k].duration > 0
               PROVE  dismissals'[toasts'[k].id] \in 0..toasts'[k].duration
    BY DEF TimedToastEnds
  <2>1. k \in 1..Len(toasts') /\ toasts'[k] \in ToastItem
    BY <1>2
  <2>a. toasts'[k].id \in IdsOf(toasts') /\ toasts'[k].id \in ToastIds
    BY <2>1 DEF IdsOf, ToastItem
  <2>2. PICK i \in 1..Len(toasts) : toasts'[k] = toasts[i]
    BY <1>2
  <2>3. dismissals[toasts[i].id] \in 0..toasts[i].duration
    BY <2>2 DEF TimedToastEnds
  <2>. QED
    BY <1>3, <2>a, <2>2, <2>3 DEF ClearTimers
<1>. QED
  BY <1>1, <1>2, <1>3, <1>4

\* The toast with an id goes, and its timer.
LEMMA GoesInv ==
  ASSUME ToastInv, NEW id, toasts' = Keeping(toasts, OnDisplay \ {id}),
         dismissals' = ClearTimers(dismissals, {id}), UNCHANGED <<lastSeen, maxVisible>>
  PROVE  ToastInv'
<1> USE DEF ToastInv
<1>1. toasts' \in Seq(ToastItem) /\ Filtered(toasts', toasts, OnDisplay \ {id}, Len(toasts))
  BY KeepingIsFilter
<1>2. /\ Distinct(toasts') /\ Len(toasts') <= maxVisible'
      /\ \A k \in 1..Len(toasts') :
           \E i \in 1..Len(toasts) : toasts'[k] = toasts[i] /\ toasts[i].id # id
  <2>1. Len(toasts) \in Nat /\ Len(toasts') \in Nat /\ Len(toasts') <= Len(toasts)
    BY <1>1 DEF Filtered
  <2>2. Distinct(toasts') /\ Len(toasts') <= maxVisible'
    BY <1>1, <2>1 DEF Filtered
  <2>3. \A k \in 1..Len(toasts') :
          \E i \in 1..Len(toasts) : toasts'[k] = toasts[i] /\ toasts[i].id \in OnDisplay \ {id}
    BY <1>1 DEF Filtered
  <2>. QED
    BY <2>2, <2>3
<1>3. dismissals' \in [ToastIds -> Nat \union {Off}]
  <2>1. \A i \in ToastIds : dismissals[i] \in Nat \union {Off}
    OBVIOUS
  <2>. QED
    BY <2>1 DEF ClearTimers
<1>4. TimedToastEnds'
  <2> SUFFICES ASSUME NEW k \in DOMAIN toasts', toasts'[k].duration > 0
               PROVE  dismissals'[toasts'[k].id] \in 0..toasts'[k].duration
    BY DEF TimedToastEnds
  <2>0. k \in 1..Len(toasts') /\ toasts'[k] \in ToastItem
    BY <1>1
  <2>1. k \in 1..Len(toasts') /\ toasts'[k].id \in ToastIds
    BY <2>0 DEF ToastItem
  <2>2. PICK i \in 1..Len(toasts) : toasts'[k] = toasts[i] /\ toasts[i].id # id
    BY <1>2, <2>1
  <2>3. dismissals[toasts[i].id] \in 0..toasts[i].duration
    BY <2>2 DEF TimedToastEnds
  <2>. QED
    BY <2>1, <2>2, <2>3 DEF ClearTimers
<1>. QED
  BY <1>1, <1>2, <1>3, <1>4

LEMMA ToastStep == ToastInv /\ [ToastNext]_toastVars => ToastInv'
<1> SUFFICES ASSUME ToastInv, [ToastNext]_toastVars
             PROVE  ToastInv'
  OBVIOUS
<1>1. ASSUME NEW call \in ToastCalls, Push(call) PROVE ToastInv'
  BY <1>1, PushInv
<1>2. ASSUME NEW call \in ToastCalls, Repeat(call) PROVE ToastInv'
  <2> USE DEF ToastInv
  <2> DEFINE first == CHOOSE i \in Shown(call.key) : \A j \in Shown(call.key) : i <= j
  <2>1. Shown(call.key) \subseteq Nat /\ Shown(call.key) # {}
    BY <1>2 DEF Repeat, Repeats, Shown
  <2>2. \E i \in Shown(call.key) : \A j \in Shown(call.key) : i <= j
    BY <2>1, LeastNumber
  <2>3. first \in 1..Len(toasts) /\ toasts[first] \in ToastItem
    BY <2>2 DEF Shown
  <2>4. dismissals' = ScheduleDismiss(dismissals, toasts[first])
    BY <1>2 DEF Repeat
  <2> HIDE DEF first
  <2>5. dismissals' \in [ToastIds -> Nat \union {Off}]
    BY <2>3, <2>4 DEF ScheduleDismiss, ToastItem
  <2>6. toasts' = toasts /\ maxVisible' = maxVisible /\ lastSeen' \in [ToastKeys -> 0..Forgotten]
    <3>1. 0 \in 0..Forgotten
      BY ForgottenType
    <3>2. lastSeen' = [lastSeen EXCEPT ![call.key] = 0]
      BY <1>2 DEF Repeat
    <3>. QED
      BY <1>2, <3>1, <3>2 DEF Repeat
  <2>7. TimedToastEnds'
    <3> SUFFICES ASSUME NEW k \in 1..Len(toasts), toasts[k].duration > 0
                 PROVE  dismissals'[toasts[k].id] \in 0..toasts[k].duration
      BY <2>6 DEF TimedToastEnds
    <3>1. toasts[k] \in ToastItem
      OBVIOUS
    <3>2. CASE k = first
      <4>1. dismissals'[toasts[k].id] = toasts[k].duration
        BY <2>4, <3>1, <3>2 DEF ScheduleDismiss, ToastItem
      <4>. QED
        BY <3>1, <4>1 DEF ToastItem
    <3>3. CASE k # first
      <4>1. toasts[k].id # toasts[first].id
        BY <2>3, <3>3 DEF Distinct
      <4>2. dismissals'[toasts[k].id] = dismissals[toasts[k].id]
        BY <2>3, <2>4, <3>1, <4>1 DEF ScheduleDismiss, ToastItem
      <4>. QED
        BY <4>2 DEF TimedToastEnds
    <3>. QED
      BY <3>2, <3>3
  <2>. QED
    BY <2>5, <2>6, <2>7
<1>3. ASSUME NEW n \in Capacities, SetMaxVisible(n) PROVE ToastInv'
  BY <1>3, SetMaxVisibleInv
<1>4. ASSUME NEW id \in ToastIds, Dismiss(id) \/ DismissalFires(id) PROVE ToastInv'
  BY <1>4, GoesInv DEF Dismiss, DismissalFires
<1>5. CASE ClearToasts
  <2>1. toasts' = <<>> /\ Len(toasts') = 0 /\ toasts' \in Seq(ToastItem)
    BY <1>5 DEF ClearToasts
  <2>2. Distinct(toasts') /\ TimedToastEnds'
    BY <2>1 DEF Distinct, TimedToastEnds
  <2>3. dismissals' \in [ToastIds -> Nat \union {Off}]
    BY <1>5 DEF ClearToasts, ClearTimers, ToastInv
  <2>. QED
    BY <1>5, <2>1, <2>2, <2>3 DEF ClearToasts, ToastInv
<1>6. CASE ToastTick
  <2> USE DEF ToastInv
  <2>1. dismissals' \in [ToastIds -> Nat \union {Off}]
    BY <1>6 DEF ToastTick, Off
  <2>2. lastSeen' \in [ToastKeys -> 0..Forgotten]
    BY <1>6, ForgottenType DEF ToastTick
  <2>3. toasts' = toasts /\ maxVisible' = maxVisible
    BY <1>6 DEF ToastTick
  <2>4. TimedToastEnds'
    <3> SUFFICES ASSUME NEW k \in 1..Len(toasts), toasts[k].duration > 0
                 PROVE  dismissals'[toasts[k].id] \in 0..toasts[k].duration
      BY <2>3 DEF TimedToastEnds
    <3>0. toasts[k] \in ToastItem
      OBVIOUS
    <3>1. toasts[k].id \in ToastIds /\ toasts[k].duration \in Nat
      BY <3>0 DEF ToastItem
    <3>2. dismissals[toasts[k].id] \in 0..toasts[k].duration /\ dismissals[toasts[k].id] # 0
      BY <1>6, <3>1 DEF TimedToastEnds, ToastTick
    <3>3. dismissals'[toasts[k].id] = dismissals[toasts[k].id] - 1
      BY <1>6, <3>1, <3>2 DEF ToastTick
    <3>. QED
      BY <3>1, <3>2, <3>3
  <2>. QED
    BY <2>1, <2>2, <2>3, <2>4
<1>7. CASE UNCHANGED toastVars
  BY <1>7 DEF toastVars, ToastInv, Distinct, TimedToastEnds
<1>. QED
  BY <1>1, <1>2, <1>3, <1>4, <1>5, <1>6, <1>7 DEF ToastNext

\* An overflow drops no toast while one of lower priority stays.
LEMMA OverflowStep ==
  ToastInv /\ [ToastNext]_toastVars =>
    [(\E call \in ToastCalls : Push(call)) \/ (\E n \in Capacities : SetMaxVisible(n))
       => \A i \in DOMAIN toasts, j \in DOMAIN toasts' :
            toasts[i].id \notin IdsOf(toasts')
              => toasts'[j].priority >= toasts[i].priority]_toastVars
BY PushInv, SetMaxVisibleInv DEF KeepsTheUrgent

LEMMA ToastFollows == ToastInv => ToastTypeOK /\ TimedToastEnds
<1> SUFFICES ASSUME ToastInv
             PROVE  ToastTypeOK
  BY DEF ToastInv
<1>1. Cardinality({toasts[i].id : i \in DOMAIN toasts}) = Len(toasts)
  BY DistinctCount DEF ToastInv
<1>. QED
  BY <1>1 DEF ToastInv, ToastTypeOK, OnDisplay, IdsOf
-----------------------------------------------------------------------------
(***************************************************************************)
(* The transaction cache.                                                  *)
(***************************************************************************)

Kinds == {"put", "count", "evict", "clear"}
CacheCallType ==
  [at: {"idle", "opening", "clearing", "put", "written",
        "count", "counted", "evict", "clear", "done"},
   batch: SUBSET Records, excess: Nat]

CacheTypes ==
  /\ persistent \in BOOLEAN /\ evictFailed \in BOOLEAN
  /\ store \subseteq Records
  /\ memory \subseteq Records /\ Cardinality(memory) <= RetentionCap
  /\ transactions \in Seq(CacheCalls \X Kinds)
  /\ cacheCall \in [CacheCalls -> CacheCallType]
  /\ ~persistent =>
       /\ store = {} /\ transactions = <<>>
       /\ \A c \in CacheCalls : cacheCall[c].at \in {"idle", "opening", "clearing"}

\* A transaction is that of a call that waits for it, and of no other.
TransactionsAreAwaited ==
  /\ \A i \in 1..Len(transactions) :
       cacheCall[transactions[i][1]].at = transactions[i][2]
  /\ \A i, j \in 1..Len(transactions) :
       transactions[i][1] = transactions[j][1] => i = j

\* A call that has still to count, or to delete at least what is too much now.
Evicts(c) ==
  \/ cacheCall[c].at \in {"written", "count"}
  \/ cacheCall[c].at \in {"counted", "evict"} /\ cacheCall[c].excess >= Excess(store)
ExcessIsCovered ==
  Cardinality(store) > RetentionCap /\ ~evictFailed => \E c \in CacheCalls : Evicts(c)

CacheInv == CacheTypes /\ TransactionsAreAwaited /\ ExcessIsCovered

LEMMA RecordSets ==
  ASSUME NEW s \in SUBSET Records
  PROVE  IsFiniteSet(s) /\ Cardinality(s) \in Nat /\ Excess(s) \in Nat
<1>1. IsFiniteSet(s)
  BY RecordsAssumption, FS_Subset
<1>2. Cardinality(s) \in Nat
  BY <1>1, FS_CardinalityType
<1>. QED
  BY <1>1, <1>2, RetentionCapAssumption DEF Excess

\* Deleting the oldest, as many as are too many or more, is enough.
LEMMA OldestGone ==
  ASSUME NEW s \in SUBSET Records, NEW n \in Nat, n >= Excess(s)
  PROVE  /\ s \ Oldest(s, n) \subseteq s
         /\ Cardinality(s \ Oldest(s, n)) <= RetentionCap
<1> DEFINE below == [r \in s |-> {q \in s : q < r}]
<1> DEFINE left == s \ Oldest(s, n)
<1>1. IsFiniteSet(s) /\ Cardinality(s) \in Nat
  BY RecordSets
<1>2. left \in SUBSET s
  OBVIOUS
<1>3. IsFiniteSet(left) /\ Cardinality(left) <= Cardinality(s) /\ Cardinality(left) \in Nat
  BY <1>1, <1>2, FS_Subset, FS_CardinalityType
<1>4. CASE Cardinality(s) <= RetentionCap
  BY <1>1, <1>2, <1>3, <1>4, RetentionCapAssumption
<1>5. CASE Cardinality(s) > RetentionCap
  <2> DEFINE Top == {x \in s : Cardinality(below[x]) + RetentionCap >= Cardinality(s)}
  <2>0. s \subseteq Nat
    BY RecordsAssumption
  <2>1. /\ \A x \in s : x \notin below[x]
        /\ \A x, y \in s : x \in below[y] => below[x] \subseteq below[y]
        /\ \A x, y \in s : x # y => x \in below[y] \/ y \in below[x]
        /\ below \in [s -> SUBSET s]
    <3>1. \A x, y \in s : (x \in below[y] <=> x < y) /\ below[y] \subseteq s
      OBVIOUS
    <3>2. below \in [s -> SUBSET s]
      OBVIOUS
    <3> HIDE DEF below
    <3>3. \A x, y, z \in s : x < y /\ z < x => z < y
      BY <2>0
    <3>4. \A x, y \in s : ~(x < x) /\ (x # y => x < y \/ y < x)
      BY <2>0
    <3>. QED
      BY <3>1, <3>2, <3>3, <3>4
  <2>2. IsFiniteSet(Top) /\ Cardinality(Top) <= RetentionCap
    <3> HIDE DEF below
    <3>1. RetentionCap \in Nat /\ RetentionCap <= Cardinality(s)
      BY <1>1, <1>5, RetentionCapAssumption
    <3>. QED
      BY <1>1, <2>1, <3>1, TopOfRanks
  <2>3. left \in SUBSET Top
    <3> SUFFICES ASSUME NEW x \in left
                 PROVE  x \in Top
      OBVIOUS
    <3>1. x \in s /\ ~(Cardinality({q \in s : q < x}) < n)
      BY DEF Oldest
    <3>2. {q \in s : q < x} \in SUBSET Records
      OBVIOUS
    <3>3. Cardinality({q \in s : q < x}) \in Nat
      BY <3>2, RecordSets
    <3>4. Cardinality({q \in s : q < x}) >= Cardinality(s) - RetentionCap
      BY <1>1, <1>5, <3>1, <3>3, RetentionCapAssumption DEF Excess
    <3>5. Cardinality({q \in s : q < x}) + RetentionCap >= Cardinality(s)
      BY <1>1, <3>3, <3>4, RetentionCapAssumption
    <3>. QED
      BY <3>1, <3>5
  <2>4. Cardinality(left) <= Cardinality(Top) /\ Cardinality(Top) \in Nat
    BY <2>2, <2>3, FS_Subset, FS_CardinalityType
  <2>. QED
    BY <1>2, <1>3, <2>2, <2>4, RetentionCapAssumption
<1>. QED
  BY <1>1, <1>4, <1>5, RetentionCapAssumption

\* evictMemory() leaves no more than retentionCap records.
LEMMA EvictedIsCapped ==
  ASSUME NEW s \in SUBSET Records
  PROVE  Evicted(s) \subseteq s /\ Cardinality(Evicted(s)) <= RetentionCap
BY RecordSets, OldestGone DEF Evicted

LEMMA CacheInitInv == CacheInit => CacheInv
<1> SUFFICES ASSUME CacheInit
             PROVE  CacheInv
  OBVIOUS
<1>1. Cardinality({}) = 0
  BY FS_EmptySet
<1>2. transactions \in Seq(CacheCalls \X Kinds) /\ Len(transactions) = 0
  BY EmptySeq DEF CacheInit
<1>3. CacheTypes
  <2>1. Idle \in CacheCallType
    BY DEF Idle, CacheCallType
  <2>2. cacheCall \in [CacheCalls -> CacheCallType]
    BY <2>1 DEF CacheInit
  <2>3. memory = {} /\ Cardinality(memory) <= RetentionCap
    BY <1>1, RetentionCapAssumption DEF CacheInit
  <2>. QED
    BY <1>2, <2>2, <2>3 DEF CacheInit, CacheTypes, Idle
<1>4. TransactionsAreAwaited
  BY <1>2 DEF TransactionsAreAwaited
<1>5. ExcessIsCovered
  BY <1>1, RetentionCapAssumption DEF CacheInit, ExcessIsCovered
<1>. QED
  BY <1>3, <1>4, <1>5 DEF CacheInv

\* A call that waits for no transaction creates one.
LEMMA CreatesTransaction ==
  ASSUME CacheInv, NEW c \in CacheCalls, NEW kind \in Kinds,
         cacheCall[c].at \notin Kinds,
         transactions' = Append(transactions, <<c, kind>>),
         cacheCall' = At(c, kind)
  PROVE  transactions' \in Seq(CacheCalls \X Kinds) /\ TransactionsAreAwaited'
<1> USE DEF CacheInv, CacheTypes
<1>1. /\ transactions' \in Seq(CacheCalls \X Kinds) /\ Len(transactions) \in Nat
      /\ Len(transactions') = Len(transactions) + 1
      /\ transactions'[Len(transactions')] = <<c, kind>>
      /\ \A i \in 1..Len(transactions) : transactions'[i] = transactions[i]
      /\ 1..Len(transactions') = 1..Len(transactions) \union {Len(transactions')}
  OBVIOUS
<1>2. \A i \in 1..Len(transactions) :
        transactions[i][1] # c /\ transactions[i][1] \in CacheCalls
  <2> SUFFICES ASSUME NEW i \in 1..Len(transactions)
               PROVE  transactions[i][1] # c /\ transactions[i][1] \in CacheCalls
    OBVIOUS
  <2>1. transactions[i] \in CacheCalls \X Kinds
    OBVIOUS
  <2>2. cacheCall[transactions[i][1]].at \in Kinds
    BY <2>1 DEF TransactionsAreAwaited
  <2>. QED
    BY <2>1, <2>2
<1>3. cacheCall'[c].at = kind /\ \A d \in CacheCalls : d # c => cacheCall'[d] = cacheCall[d]
  BY DEF At, CacheCallType
<1>4. \A i \in 1..Len(transactions') : cacheCall'[transactions'[i][1]].at = transactions'[i][2]
  BY <1>1, <1>2, <1>3 DEF TransactionsAreAwaited
<1>5. \A i, j \in 1..Len(transactions') :
        transactions'[i][1] = transactions'[j][1] => i = j
  BY <1>1, <1>2 DEF TransactionsAreAwaited
<1>. QED
  BY <1>1, <1>4, <1>5 DEF TransactionsAreAwaited

\* A call that waits for no transaction moves, and creates none.
LEMMA MovesOn ==
  ASSUME CacheInv, NEW c \in CacheCalls, NEW new \in CacheCallType,
         cacheCall[c].at \notin Kinds,
         transactions' = transactions, cacheCall' = [cacheCall EXCEPT ![c] = new]
  PROVE  TransactionsAreAwaited'
<1> USE DEF CacheInv, CacheTypes
<1>1. \A i \in 1..Len(transactions) :
        transactions[i][1] # c /\ transactions[i][1] \in CacheCalls
  <2> SUFFICES ASSUME NEW i \in 1..Len(transactions)
               PROVE  transactions[i][1] # c /\ transactions[i][1] \in CacheCalls
    OBVIOUS
  <2>1. transactions[i] \in CacheCalls \X Kinds
    OBVIOUS
  <2>2. cacheCall[transactions[i][1]].at \in Kinds
    BY <2>1 DEF TransactionsAreAwaited
  <2>. QED
    BY <2>1, <2>2
<1>. QED
  BY <1>1 DEF TransactionsAreAwaited

\* The oldest transaction leaves the queue; its call waits no more.
LEMMA LeavesQueue ==
  ASSUME CacheInv, transactions # <<>>, transactions' = Tail(transactions),
         NEW new \in CacheCallType,
         cacheCall' = [cacheCall EXCEPT ![Head(transactions)[1]] = new]
  PROVE  /\ transactions' \in Seq(CacheCalls \X Kinds) /\ TransactionsAreAwaited'
         /\ Head(transactions)[1] \in CacheCalls /\ Head(transactions)[2] \in Kinds
         /\ cacheCall[Head(transactions)[1]].at = Head(transactions)[2]
<1> USE DEF CacheInv, CacheTypes
<1>1. /\ transactions' \in Seq(CacheCalls \X Kinds) /\ Head(transactions) = transactions[1]
      /\ Len(transactions) \in Nat /\ Len(transactions) # 0 /\ 1 \in 1..Len(transactions)
      /\ Len(transactions') = Len(transactions) - 1
      /\ \A i \in 1..Len(transactions') : transactions'[i] = transactions[i + 1]
  BY HeadTailProperties
<1>2. \A i \in 1..Len(transactions') : i + 1 \in 1..Len(transactions) /\ i + 1 # 1
  BY <1>1
<1>3. \A i \in 1..Len(transactions) : transactions[i] \in CacheCalls \X Kinds
  OBVIOUS
<1>4. \A i \in 1..Len(transactions') : transactions'[i][1] # Head(transactions)[1]
  BY <1>1, <1>2 DEF TransactionsAreAwaited
<1>5. TransactionsAreAwaited'
  <2>1. \A i \in 1..Len(transactions') :
          cacheCall'[transactions'[i][1]].at = transactions'[i][2]
    <3> SUFFICES ASSUME NEW i \in 1..Len(transactions')
                 PROVE  cacheCall'[transactions'[i][1]].at = transactions'[i][2]
      OBVIOUS
    <3>1. transactions'[i] = transactions[i + 1] /\ transactions[i + 1][1] \in CacheCalls
      BY <1>1, <1>2, <1>3
    <3>2. cacheCall'[transactions'[i][1]] = cacheCall[transactions'[i][1]]
      BY <1>4, <3>1
    <3>. QED
      BY <1>2, <3>1, <3>2 DEF TransactionsAreAwaited
  <2>2. \A i, j \in 1..Len(transactions') :
          transactions'[i][1] = transactions'[j][1] => i = j
    <3> SUFFICES ASSUME NEW i \in 1..Len(transactions'), NEW j \in 1..Len(transactions'),
                        transactions'[i][1] = transactions'[j][1]
                 PROVE  i = j
      OBVIOUS
    <3>1. i + 1 = j + 1
      BY <1>1, <1>2 DEF TransactionsAreAwaited
    <3>. QED
      BY <3>1
  <2>. QED
    BY <2>1, <2>2 DEF TransactionsAreAwaited
<1>6. Head(transactions)[1] \in CacheCalls /\ Head(transactions)[2] \in Kinds
  BY <1>1, <1>3
<1>. QED
  BY <1>1, <1>5, <1>6 DEF TransactionsAreAwaited

\* Another call goes on evicting when a call of its own moves and the excess
\* has not grown.
LEMMA StillCovered ==
  ASSUME NEW c \in CacheCalls, NEW d \in CacheCalls, d # c,
         cacheCall \in [CacheCalls -> CacheCallType], NEW new,
         cacheCall' = [cacheCall EXCEPT ![c] = new],
         Excess(store) \in Nat, Excess(store') \in Nat, Excess(store') <= Excess(store),
         Evicts(d)
  PROVE  Evicts(d)'
BY DEF Evicts, CacheCallType

\* The next transaction runs.
LEMMA RunInv == CacheInv /\ RunTransaction => CacheInv'
<1> SUFFICES ASSUME CacheInv, RunTransaction
             PROVE  CacheInv'
  OBVIOUS
<1> USE DEF CacheInv, CacheTypes
<1> DEFINE c == Head(transactions)[1]
<1> DEFINE kind == Head(transactions)[2]
<1> DEFINE new == IF kind = "count"
                    THEN [cacheCall[c] EXCEPT !.at = "counted", !.excess = Excess(store)]
                    ELSE [cacheCall[c] EXCEPT !.at = IF kind = "put" THEN "written" ELSE "done"]
<1>1. transactions # <<>> /\ transactions' = Tail(transactions)
  BY DEF RunTransaction
<1>2. c \in CacheCalls /\ kind \in Kinds
  <2>1. Head(transactions) \in CacheCalls \X Kinds
    BY <1>1, HeadTailProperties
  <2>. QED
    BY <2>1
<1>3. Excess(store) \in Nat
  BY RecordSets
<1>4. new \in CacheCallType
  BY <1>2, <1>3 DEF CacheCallType
<1>5. cacheCall' = [cacheCall EXCEPT ![c] = new]
  BY <1>2 DEF RunTransaction, At, CacheCallType
<1> HIDE DEF new
<1>6. /\ transactions' \in Seq(CacheCalls \X Kinds) /\ TransactionsAreAwaited'
      /\ cacheCall[c].at = kind
  BY <1>1, <1>4, <1>5, LeavesQueue
<1>7. store' = CASE kind = "put" -> store \union cacheCall[c].batch
                 [] kind = "clear" -> {}
                 [] kind = "evict" -> store \ Oldest(store, cacheCall[c].excess)
                 [] OTHER -> store
  BY DEF RunTransaction
<1>8. cacheCall[c] \in CacheCallType
  BY <1>2
<1>9. store' \subseteq Records
  BY <1>2, <1>7, <1>8 DEF CacheCallType
<1>10. CacheTypes'
  <2>1. persistent' = persistent /\ memory' = memory /\ persistent = TRUE
    BY <1>1 DEF RunTransaction
  <2>2. evictFailed' \in BOOLEAN
    BY DEF RunTransaction
  <2>3. cacheCall' \in [CacheCalls -> CacheCallType]
    BY <1>4, <1>5
  <2>. QED
    BY <1>6, <1>9, <2>1, <2>2, <2>3
<1>11. ExcessIsCovered'
  <2> SUFFICES ASSUME Cardinality(store') > RetentionCap, ~evictFailed'
               PROVE  \E d \in CacheCalls : Evicts(d)'
    BY DEF ExcessIsCovered
  <2>0. Excess(store') \in Nat /\ Cardinality(store') \in Nat
    BY <1>9, RecordSets
  <2>1. cacheCall'[c] = new
    BY <1>2, <1>5
  <2>2. CASE kind = "put"
    <3>1. new.at = "written"
      BY <1>8, <2>2 DEF new, CacheCallType
    <3>. QED
      BY <1>2, <2>1, <3>1 DEF Evicts
  <2>3. CASE kind = "count"
    <3>1. new.at = "counted" /\ new.excess = Excess(store) /\ store' = store
      BY <1>7, <1>8, <2>3 DEF new, CacheCallType
    <3>. QED
      BY <1>2, <1>3, <2>1, <3>1 DEF Evicts
  <2>4. CASE kind = "clear"
    <3>1. Cardinality(store') = 0
      BY <1>7, <2>4, FS_EmptySet
    <3>. QED
      BY <3>1, RetentionCapAssumption
  <2>5. CASE kind = "evict"
    <3> DEFINE n == cacheCall[c].excess
    <3>1. store' = store \ Oldest(store, n) /\ n \in Nat
      BY <1>7, <1>8, <2>5 DEF CacheCallType
    <3>2. ~(n >= Excess(store))
      BY <2>0, <3>1, OldestGone, RetentionCapAssumption
    <3>3. store' \in SUBSET store /\ IsFiniteSet(store) /\ Cardinality(store) \in Nat
      BY <3>1, RecordSets
    <3>4. Cardinality(store') <= Cardinality(store)
      BY <3>3, FS_Subset
    <3>5. Cardinality(store) > RetentionCap /\ Excess(store') <= Excess(store)
      BY <2>0, <3>3, <3>4, RetentionCapAssumption DEF Excess
    <3>6. ~evictFailed
      BY <2>5 DEF RunTransaction
    <3>7. PICK d \in CacheCalls : Evicts(d)
      BY <3>5, <3>6 DEF ExcessIsCovered
    <3>8. d # c
      BY <1>6, <2>5, <3>2, <3>7 DEF Evicts
    <3>9. Evicts(d)'
      BY <1>2, <1>3, <1>5, <2>0, <3>5, <3>7, <3>8, StillCovered
    <3>. QED
      BY <3>9
  <2>. QED
    BY <1>2, <2>2, <2>3, <2>4, <2>5 DEF Kinds
<1>. QED
  BY <1>6, <1>10, <1>11

\* A transaction is aborted.
LEMMA AbortInv == CacheInv /\ AbortTransaction => CacheInv'
<1> SUFFICES ASSUME CacheInv, AbortTransaction
             PROVE  CacheInv'
  OBVIOUS
<1> USE DEF CacheInv, CacheTypes
<1> DEFINE c == Head(transactions)[1]
<1> DEFINE kind == Head(transactions)[2]
<1> DEFINE new == [cacheCall[c] EXCEPT !.at = "done"]
<1>1. transactions # <<>> /\ transactions' = Tail(transactions)
  BY DEF AbortTransaction
<1>2. c \in CacheCalls /\ kind \in Kinds /\ cacheCall[c] \in CacheCallType
  <2>1. Head(transactions) \in CacheCalls \X Kinds
    BY <1>1, HeadTailProperties
  <2>. QED
    BY <2>1
<1>3. new \in CacheCallType
  BY <1>2 DEF CacheCallType
<1>4. cacheCall' = [cacheCall EXCEPT ![c] = new]
  BY <1>2 DEF AbortTransaction, At, CacheCallType
<1> HIDE DEF new
<1>5. /\ transactions' \in Seq(CacheCalls \X Kinds) /\ TransactionsAreAwaited'
      /\ cacheCall[c].at = kind
  BY <1>1, <1>3, <1>4, LeavesQueue
<1>6. store' = store /\ persistent' = persistent /\ persistent = TRUE
  BY <1>1 DEF AbortTransaction
<1>7. memory' \subseteq Records /\ Cardinality(memory') <= RetentionCap
  <2>1. memory \union cacheCall[c].batch \in SUBSET Records
    BY <1>2 DEF CacheCallType
  <2>2. memory' = memory \/ memory' = Evicted(memory \union cacheCall[c].batch)
    BY DEF AbortTransaction, Remember
  <2>. QED
    BY <2>1, <2>2, EvictedIsCapped
<1>8. CacheTypes'
  <2>1. evictFailed' \in BOOLEAN
    BY DEF AbortTransaction
  <2>2. cacheCall' \in [CacheCalls -> CacheCallType]
    BY <1>3, <1>4
  <2>. QED
    BY <1>5, <1>6, <1>7, <2>1, <2>2
<1>9. ExcessIsCovered'
  <2> SUFFICES ASSUME Cardinality(store) > RetentionCap, ~evictFailed'
               PROVE  \E d \in CacheCalls : Evicts(d)'
    BY <1>6 DEF ExcessIsCovered
  <2>1. ~evictFailed /\ kind \notin {"count", "evict"}
    BY DEF AbortTransaction
  <2>2. PICK d \in CacheCalls : Evicts(d)
    BY <2>1 DEF ExcessIsCovered
  <2>3. d # c
    BY <1>2, <1>5, <2>1, <2>2 DEF Evicts, Kinds
  <2>4. /\ Excess(store) \in Nat /\ Excess(store') \in Nat
        /\ Excess(store') <= Excess(store)
    BY <1>6, RecordSets
  <2>5. Evicts(d)'
    BY <1>2, <1>4, <2>2, <2>3, <2>4, StillCovered
  <2>. QED
    BY <2>5
<1>. QED
  BY <1>5, <1>8, <1>9

\* A call that neither runs a transaction nor owes an eviction moves on, and
\* whoever owes one still does.
LEMMA KeepsCovered ==
  ASSUME CacheInv, NEW c \in CacheCalls, NEW new \in CacheCallType,
         cacheCall' = [cacheCall EXCEPT ![c] = new],
         store' = store, evictFailed' = evictFailed,
         Cardinality(store) > RetentionCap /\ Evicts(c) => Evicts(c)'
  PROVE  ExcessIsCovered'
<1> SUFFICES ASSUME Cardinality(store) > RetentionCap, ~evictFailed
             PROVE  \E d \in CacheCalls : Evicts(d)'
  BY DEF ExcessIsCovered
<1>1. PICK d \in CacheCalls : Evicts(d)
  BY DEF CacheInv, ExcessIsCovered
<1>2. /\ Excess(store) \in Nat /\ Excess(store') \in Nat
      /\ Excess(store') <= Excess(store)
  BY RecordSets DEF CacheInv, CacheTypes
<1>3. CASE d = c
  BY <1>1, <1>3
<1>4. CASE d # c
  <2>1. Evicts(d)'
    BY <1>1, <1>2, <1>4, StillCovered DEF CacheInv, CacheTypes
  <2>. QED
    BY <2>1
<1>. QED
  BY <1>3, <1>4

LEMMA CacheStep == CacheInv /\ [CacheNext]_cacheVars => CacheInv'
<1> SUFFICES ASSUME CacheInv, [CacheNext]_cacheVars
             PROVE  CacheInv'
  OBVIOUS
<1> USE DEF CacheInv
<1>1. ASSUME NEW c \in CacheCalls, NEW batch \in SUBSET Records, PutMany(c, batch)
      PROVE  CacheInv'
  <2> DEFINE new == [at |-> "opening", batch |-> batch, excess |-> 0]
  <2>1. new \in CacheCallType /\ cacheCall[c].at = "idle"
    BY <1>1 DEF CacheCallType, PutMany
  <2>2. cacheCall' = [cacheCall EXCEPT ![c] = new] /\ transactions' = transactions
    BY <1>1 DEF PutMany
  <2>3. TransactionsAreAwaited'
    BY <2>1, <2>2, MovesOn DEF Kinds
  <2>4. store' = store /\ evictFailed' = evictFailed /\ memory' = memory /\ persistent' = persistent
    BY <1>1 DEF PutMany
  <2>5. ExcessIsCovered'
    BY <2>1, <2>2, <2>4, KeepsCovered DEF Evicts
  <2>. QED
    BY <2>1, <2>2, <2>3, <2>4, <2>5 DEF CacheTypes
<1>2. ASSUME NEW c \in CacheCalls, ClearCache(c) PROVE CacheInv'
  <2> DEFINE new == [cacheCall[c] EXCEPT !.at = "clearing"]
  <2>1. new \in CacheCallType /\ cacheCall[c].at = "idle"
    BY <1>2 DEF CacheTypes, CacheCallType, ClearCache
  <2>2. cacheCall' = [cacheCall EXCEPT ![c] = new] /\ transactions' = transactions
    BY <1>2 DEF CacheTypes, CacheCallType, ClearCache, At
  <2>3. TransactionsAreAwaited'
    BY <2>1, <2>2, MovesOn DEF Kinds
  <2>4. store' = store /\ evictFailed' = evictFailed /\ memory' = {} /\ persistent' = persistent
    BY <1>2 DEF ClearCache
  <2>5. ExcessIsCovered'
    BY <2>1, <2>2, <2>4, KeepsCovered DEF Evicts
  <2>6. Cardinality({}) <= RetentionCap
    BY FS_EmptySet, RetentionCapAssumption
  <2>. QED
    BY <2>1, <2>2, <2>3, <2>4, <2>5, <2>6 DEF CacheTypes
<1>3. ASSUME NEW c \in CacheCalls, OpenedForPut(c) PROVE CacheInv'
  <2>1. store' = store /\ evictFailed' = evictFailed /\ persistent' = persistent
        /\ cacheCall[c].at = "opening" /\ cacheCall[c] \in CacheCallType
    BY <1>3 DEF OpenedForPut, CacheTypes
  <2>2. CASE persistent
    <3> DEFINE new == [cacheCall[c] EXCEPT !.at = "put"]
    <3>1. new \in CacheCallType
      BY <2>1 DEF CacheCallType
    <3>2. cacheCall' = [cacheCall EXCEPT ![c] = new]
      BY <1>3, <2>1, <2>2 DEF OpenedForPut, At, CacheCallType
    <3>3. transactions' \in Seq(CacheCalls \X Kinds) /\ TransactionsAreAwaited'
      BY <1>3, <2>1, <2>2, CreatesTransaction DEF OpenedForPut, Kinds
    <3>4. ExcessIsCovered'
      BY <2>1, <3>1, <3>2, KeepsCovered DEF Evicts
    <3>5. memory' = memory
      BY <1>3, <2>2 DEF OpenedForPut
    <3>. QED
      BY <2>1, <2>2, <3>1, <3>2, <3>3, <3>4, <3>5 DEF CacheTypes
  <2>3. CASE ~persistent
    <3>1. cacheCall' = [cacheCall EXCEPT ![c] = Idle] /\ transactions' = transactions
          /\ memory' = Evicted(memory \union cacheCall[c].batch)
      BY <1>3, <2>3 DEF OpenedForPut, Remember
    <3>2. Idle \in CacheCallType
      BY DEF Idle, CacheCallType
    <3>3. TransactionsAreAwaited'
      BY <2>1, <3>1, <3>2, MovesOn DEF Kinds
    <3>4. ExcessIsCovered'
      BY <2>1, <3>1, <3>2, KeepsCovered DEF Evicts
    <3>5. memory \union cacheCall[c].batch \in SUBSET Records
      BY <2>1 DEF CacheTypes, CacheCallType
    <3>6. memory' \subseteq Records /\ Cardinality(memory') <= RetentionCap
      BY <3>1, <3>5, EvictedIsCapped
    <3>. QED
      BY <2>1, <2>3, <3>1, <3>2, <3>3, <3>4, <3>6 DEF CacheTypes, Idle
  <2>. QED
    BY <2>2, <2>3
<1>4. ASSUME NEW c \in CacheCalls, OpenedForClear(c) PROVE CacheInv'
  <2>1. store' = store /\ evictFailed' = evictFailed /\ persistent' = persistent
        /\ memory' = memory
        /\ cacheCall[c].at = "clearing" /\ cacheCall[c] \in CacheCallType
    BY <1>4 DEF OpenedForClear, CacheTypes
  <2>2. CASE persistent
    <3> DEFINE new == [cacheCall[c] EXCEPT !.at = "clear"]
    <3>1. new \in CacheCallType
      BY <2>1 DEF CacheCallType
    <3>2. cacheCall' = [cacheCall EXCEPT ![c] = new]
      BY <1>4, <2>1, <2>2 DEF OpenedForClear, At, CacheCallType
    <3>3. transactions' \in Seq(CacheCalls \X Kinds) /\ TransactionsAreAwaited'
      BY <1>4, <2>1, <2>2, CreatesTransaction DEF OpenedForClear, Kinds
    <3>4. ExcessIsCovered'
      BY <2>1, <3>1, <3>2, KeepsCovered DEF Evicts
    <3>. QED
      BY <2>1, <2>2, <3>1, <3>2, <3>3, <3>4 DEF CacheTypes
  <2>3. CASE ~persistent
    <3>1. cacheCall' = [cacheCall EXCEPT ![c] = Idle] /\ transactions' = transactions
      BY <1>4, <2>3 DEF OpenedForClear
    <3>2. Idle \in CacheCallType
      BY DEF Idle, CacheCallType
    <3>3. TransactionsAreAwaited'
      BY <2>1, <3>1, <3>2, MovesOn DEF Kinds
    <3>4. ExcessIsCovered'
      BY <2>1, <3>1, <3>2, KeepsCovered DEF Evicts
    <3>. QED
      BY <2>1, <2>3, <3>1, <3>2, <3>3, <3>4 DEF CacheTypes, Idle
  <2>. QED
    BY <2>2, <2>3
<1>5. ASSUME NEW c \in CacheCalls, Resume(c) PROVE CacheInv'
  <2>1. store' = store /\ evictFailed' = evictFailed /\ persistent' = persistent
        /\ memory' = memory /\ cacheCall[c] \in CacheCallType
    BY <1>5 DEF Resume, CacheTypes
  <2>2. persistent = TRUE
    BY <1>5 DEF Resume, CacheTypes
  <2>3. ASSUME NEW kind \in {"count", "evict"},
               kind = "count" => cacheCall[c].at = "written",
               kind = "evict" => cacheCall[c].at = "counted",
               transactions' = Append(transactions, <<c, kind>>), cacheCall' = At(c, kind)
        PROVE  CacheInv'
    <3> DEFINE new == [cacheCall[c] EXCEPT !.at = kind]
    <3>1. new \in CacheCallType /\ new.at = kind /\ new.excess = cacheCall[c].excess
      BY <2>1 DEF CacheCallType
    <3>2. cacheCall' = [cacheCall EXCEPT ![c] = new]
      BY <2>1, <2>3 DEF At, CacheCallType
    <3> HIDE DEF new
    <3>3. transactions' \in Seq(CacheCalls \X Kinds) /\ TransactionsAreAwaited'
      BY <2>3, CreatesTransaction DEF Kinds
    <3>4. cacheCall'[c] = new
      BY <3>2 DEF CacheTypes
    <3>5. Evicts(c) => Evicts(c)'
      BY <2>1, <2>3, <3>1, <3>4 DEF Evicts
    <3>6. ExcessIsCovered'
      BY <2>1, <3>1, <3>2, <3>5, KeepsCovered
    <3>. QED
      BY <2>1, <2>2, <3>1, <3>2, <3>3, <3>6 DEF CacheTypes
  <2>4. ASSUME (cacheCall[c].at = "counted" /\ cacheCall[c].excess = 0) \/ cacheCall[c].at = "done",
               cacheCall' = [cacheCall EXCEPT ![c] = Idle], transactions' = transactions
        PROVE  CacheInv'
    <3>1. Idle \in CacheCallType
      BY DEF Idle, CacheCallType
    <3>2. TransactionsAreAwaited'
      BY <2>4, <3>1, MovesOn DEF Kinds
    <3>3. Cardinality(store) > RetentionCap => Excess(store) \in Nat /\ Excess(store) > 0
      BY RecordSets, RetentionCapAssumption DEF Excess, CacheTypes
    <3>4. Cardinality(store) > RetentionCap => ~Evicts(c)
      BY <2>4, <3>3 DEF Evicts
    <3>5. ExcessIsCovered'
      BY <2>1, <2>4, <3>1, <3>4, KeepsCovered
    <3>. QED
      BY <2>1, <2>2, <2>4, <3>1, <3>2, <3>5 DEF CacheTypes
  <2>. QED
    BY <1>5, <2>3, <2>4 DEF Resume
<1>6. CASE RunTransaction
  BY <1>6, RunInv
<1>7. CASE AbortTransaction
  BY <1>7, AbortInv
<1>8. CASE UNCHANGED cacheVars
  BY <1>8 DEF cacheVars, CacheTypes, TransactionsAreAwaited, ExcessIsCovered, Evicts, Excess
<1>. QED
  BY <1>1, <1>2, <1>3, <1>4, <1>5, <1>6, <1>7, <1>8 DEF CacheNext

LEMMA CacheFollows == CacheInv => CacheTypeOK /\ OverCapIsNoticed
<1> SUFFICES ASSUME CacheInv
             PROVE  CacheTypeOK /\ OverCapIsNoticed
  OBVIOUS
<1> USE DEF CacheInv, CacheTypes
<1>1. CacheTypeOK
  BY DEF CacheTypeOK, CacheCallType, Kinds
<1>2. Cardinality(store) > RetentionCap => Excess(store) \in Nat /\ Excess(store) > 0
  BY RecordSets, RetentionCapAssumption DEF Excess
<1>3. \A c \in CacheCalls : cacheCall[c].excess \in Nat
  BY DEF CacheCallType
<1>4. OverCapIsNoticed
  <2> SUFFICES ASSUME Cardinality(store) > RetentionCap, ~evictFailed
               PROVE  \E c \in CacheCalls :
                        \/ cacheCall[c].at \in {"written", "count", "evict"}
                        \/ cacheCall[c].at = "counted" /\ cacheCall[c].excess > 0
    BY DEF OverCapIsNoticed
  <2>1. PICK c \in CacheCalls : Evicts(c)
    BY DEF ExcessIsCovered
  <2>2. \/ cacheCall[c].at \in {"written", "count", "evict"}
        \/ cacheCall[c].at = "counted" /\ cacheCall[c].excess > 0
    BY <1>2, <1>3, <2>1 DEF Evicts
  <2>. QED
    BY <2>2
<1>. QED
  BY <1>1, <1>4
-----------------------------------------------------------------------------
(***************************************************************************)
(* The notifications.                                                      *)
(***************************************************************************)

Notice == [id: Noticed, read: BOOLEAN]

\* A list the reducer may hold, with what it remembers.
Soundly(list, seen) ==
  /\ list \in Seq(Notice) /\ Len(list) <= MaxNotifications /\ Distinct(list)
  /\ seen \subseteq Noticed /\ IdsOf(list) \subseteq seen

NoticeInv ==
  /\ feed \in Seq(ContractEvents) /\ Len(feed) <= FeedCap
  /\ effectDue \in BOOLEAN
  /\ Soundly(notifications, seenEventIds)
  /\ NothingUnnoticed

\* slice(0, n) keeps the first n items.
LEMMA FirstOfGives ==
  ASSUME NEW T, NEW s \in Seq(T), NEW n \in Nat
  PROVE  /\ FirstOf(s, n) \in Seq(T)
         /\ Len(FirstOf(s, n)) <= n /\ Len(FirstOf(s, n)) <= Len(s)
         /\ \A k \in 1..Len(FirstOf(s, n)) : FirstOf(s, n)[k] = s[k]
<1> DEFINE m == IF Len(s) < n THEN Len(s) ELSE n
<1>1. m \in Nat /\ m <= n /\ m <= Len(s) /\ Len(s) \in Nat
  OBVIOUS
<1>2. FirstOf(s, n) = SubSeq(s, 1, m)
  BY DEF FirstOf
<1> HIDE DEF m
<1>3. \A i \in 1..m : s[i] \in T
  BY <1>1
<1>4. SubSeq(s, 1, m) = [i \in 1..m |-> s[i]]
  BY <1>1
<1>5. SubSeq(s, 1, m) \in Seq(T) /\ Len(SubSeq(s, 1, m)) = m
  BY <1>1, <1>3, <1>4
<1>. QED
  BY <1>1, <1>2, <1>4, <1>5

\* "ADD" of the reducer: sound again, with the event remembered and nothing
\* listed that was remembered before and not listed.
LEMMA AddGives ==
  ASSUME NEW list, NEW seen, Soundly(list, seen), NEW e \in Noticed,
         NEW new, new = Add([list |-> list, seen |-> seen], e)
  PROVE  /\ new = [list |-> new.list, seen |-> new.seen]
         /\ Soundly(new.list, new.seen)
         /\ new.seen = seen \union {e}
         /\ IdsOf(new.list) \subseteq IdsOf(list) \union ({e} \ seen)
<1>1. CASE e \in seen
  <2>1. new = [list |-> list, seen |-> seen]
    BY <1>1 DEF Add
  <2>. QED
    BY <1>1, <2>1
<1>2. CASE e \notin seen
  <2> DEFINE item == [id |-> e, read |-> FALSE]
  <2> DEFINE whole == <<item>> \o list
  <2>1. new.list = FirstOf(whole, MaxNotifications) /\ new.seen = seen \union {e}
        /\ new = [list |-> new.list, seen |-> new.seen]
    BY <1>2 DEF Add
  <2>2. item \in Notice /\ item.id = e /\ list \in Seq(Notice) /\ MaxNotifications \in Nat
    BY NoticeCapsAssumption DEF Notice, Soundly
  <2> HIDE DEF item
  <2>3. /\ whole \in Seq(Notice) /\ Len(whole) = Len(list) + 1 /\ whole[1] = item
        /\ \A k \in 2..Len(whole) : k - 1 \in 1..Len(list) /\ whole[k] = list[k - 1]
        /\ Len(list) \in Nat
    BY <2>2
  <2> HIDE DEF whole
  <2>4. \A k \in 1..Len(list) : list[k].id \in IdsOf(list) /\ list[k].id # e
    BY <1>2, <2>2 DEF Soundly, IdsOf
  <2>5. Distinct(whole)
    <3> SUFFICES ASSUME NEW i \in 1..Len(whole), NEW j \in 1..Len(whole),
                        whole[i].id = whole[j].id
                 PROVE  i = j
      BY DEF Distinct
    <3>1. CASE i = 1
      BY <2>2, <2>3, <2>4, <3>1
    <3>2. CASE j = 1
      BY <2>2, <2>3, <2>4, <3>2
    <3>3. CASE i # 1 /\ j # 1
      <4>1. i - 1 \in 1..Len(list) /\ j - 1 \in 1..Len(list) /\ list[i - 1].id = list[j - 1].id
        BY <2>3, <3>3
      <4>2. i - 1 = j - 1
        BY <4>1 DEF Soundly, Distinct
      <4>. QED
        BY <4>2
    <3>. QED
      BY <3>1, <3>2, <3>3
  <2>6. \A k \in 1..Len(whole) : whole[k].id \in IdsOf(list) \union {e}
    <3>1. \A k \in 1..Len(whole) : k = 1 \/ k \in 2..Len(whole)
      OBVIOUS
    <3>. QED
      BY <2>2, <2>3, <2>4, <3>1
  <2>7. /\ new.list \in Seq(Notice) /\ Len(new.list) <= MaxNotifications
        /\ Len(new.list) \in Nat /\ Len(new.list) <= Len(whole)
        /\ \A k \in 1..Len(new.list) : new.list[k] = whole[k]
    BY <2>1, <2>2, <2>3, FirstOfGives
  <2>8. Distinct(new.list)
    <3>1. \A k \in 1..Len(new.list) : k \in 1..Len(whole) /\ new.list[k] = whole[k]
      BY <2>3, <2>7
    <3>. QED
      BY <2>5, <3>1 DEF Distinct
  <2>9. IdsOf(new.list) \subseteq IdsOf(list) \union {e}
    <3>1. DOMAIN new.list = 1..Len(new.list)
      BY <2>7
    <3>2. \A k \in 1..Len(new.list) : k \in 1..Len(whole) /\ new.list[k] = whole[k]
      BY <2>3, <2>7
    <3>3. \A k \in 1..Len(new.list) : new.list[k].id \in IdsOf(list) \union {e}
      BY <2>6, <3>2
    <3>4. IdsOf(new.list) = {new.list[k].id : k \in 1..Len(new.list)}
      BY <3>1 DEF IdsOf
    <3>. QED
      BY <3>3, <3>4
  <2>. QED
    BY <1>2, <2>1, <2>7, <2>8, <2>9 DEF Soundly
<1>. QED
  BY <1>1, <1>2

\* The loop of the effect, round by round, over the first n events.
Noticing(g, start, list, n) ==
  g = [i \in 0..n |-> IF i = 0 THEN start
                      ELSE IF list[i] \in Noticed THEN Add(g[i - 1], list[i]) ELSE g[i - 1]]

\* The loop can be run to any number of rounds.
LEMMA NoticingExists ==
  ASSUME NEW start, NEW list, NEW n \in Nat
  PROVE  \E g : Noticing(g, start, list, n)
<1> DEFINE Good == {m \in Nat : \E g : Noticing(g, start, list, m)}
<1>1. 0 \in Good
  <2> DEFINE g == [i \in 0..0 |-> start]
  <2>1. g = [i \in 0..0 |->
               IF i = 0 THEN start
               ELSE IF list[i] \in Noticed THEN Add(g[i - 1], list[i]) ELSE g[i - 1]]
    OBVIOUS
  <2>. QED
    BY <2>1 DEF Noticing
<1>2. ASSUME NEW m \in 1..n, m - 1 \in Good PROVE m \in Good
  <2>1. PICK h : Noticing(h, start, list, m - 1)
    BY <1>2
  <2> DEFINE last == IF list[m] \in Noticed THEN Add(h[m - 1], list[m]) ELSE h[m - 1]
  <2> DEFINE g == [i \in 0..m |-> IF i = m THEN last ELSE h[i]]
  <2>2. \A i \in 0..(m - 1) :
          h[i] = IF i = 0 THEN start
                 ELSE IF list[i] \in Noticed THEN Add(h[i - 1], list[i]) ELSE h[i - 1]
    BY <2>1 DEF Noticing
  <2>3. \A i \in 0..m :
          g[i] = IF i = 0 THEN start
                 ELSE IF list[i] \in Noticed THEN Add(g[i - 1], list[i]) ELSE g[i - 1]
    BY <2>2
  <2>4. g = [i \in 0..m |->
               IF i = 0 THEN start
               ELSE IF list[i] \in Noticed THEN Add(g[i - 1], list[i]) ELSE g[i - 1]]
    BY <2>3
  <2>5. Noticing(g, start, list, m)
    BY <2>4 DEF Noticing
  <2> HIDE DEF g
  <2>6. m \in Nat /\ \E r : Noticing(r, start, list, m)
    BY <2>5
  <2>. QED
    BY <2>6
<1> HIDE DEF Good
<1>3. n \in Good
  BY <1>1, <1>2, Induction
<1>. QED
  BY <1>3 DEF Good

\* AfterAll() ends with the last round.
LEMMA AfterAllIsLastRound ==
  ASSUME NEW start, NEW list, Len(list) \in Nat
  PROVE  \E g : Noticing(g, start, list, Len(list)) /\ AfterAll(start, list) = g[Len(list)]
<1> DEFINE state == CHOOSE g : Noticing(g, start, list, Len(list))
<1>1. Noticing(state, start, list, Len(list))
  BY NoticingExists
<1>2. AfterAll(start, list) = state[Len(list)]
  BY DEF AfterAll, Noticing
<1>. QED
  BY <1>1, <1>2

\* What m rounds make of a sound list: sound again, every event of them that
\* is to be noticed remembered, nothing forgotten, and nothing listed that
\* was remembered before and not listed.
Noted(new, list, seen, events, m) ==
  /\ new = [list |-> new.list, seen |-> new.seen]
  /\ Soundly(new.list, new.seen)
  /\ seen \subseteq new.seen
  /\ \A i \in 1..m : events[i] \in Noticed => events[i] \in new.seen
  /\ IdsOf(new.list) \cap seen \subseteq IdsOf(list)

LEMMA AfterAllGives ==
  ASSUME NEW list, NEW seen, Soundly(list, seen), NEW events \in Seq(ContractEvents)
  PROVE  Noted(AfterAll([list |-> list, seen |-> seen], events), list, seen, events, Len(events))
<1> DEFINE start == [list |-> list, seen |-> seen]
<1>0. Len(events) \in Nat
  OBVIOUS
<1>1. PICK g : Noticing(g, start, events, Len(events)) /\ AfterAll(start, events) = g[Len(events)]
  BY <1>0, AfterAllIsLastRound
<1>2. \A i \in 0..Len(events) :
        g[i] = IF i = 0 THEN start
               ELSE IF events[i] \in Noticed THEN Add(g[i - 1], events[i]) ELSE g[i - 1]
  BY <1>1 DEF Noticing
<1> DEFINE Good == {m \in 0..Len(events) : Noted(g[m], list, seen, events, m)}
<1>3. 0 \in Good
  <2>1. g[0] = start /\ 0 \in 0..Len(events)
    BY <1>2
  <2>2. Noted(start, list, seen, events, 0)
    BY DEF Noted
  <2>. QED
    BY <2>1, <2>2
<1>4. ASSUME NEW m \in 1..Len(events), m - 1 \in Good PROVE m \in Good
  <2> DEFINE old == g[m - 1]
  <2> DEFINE new == g[m]
  <2>1. Noted(old, list, seen, events, m - 1) /\ m \in 0..Len(events)
    BY <1>4
  <2>2. new = IF events[m] \in Noticed THEN Add(old, events[m]) ELSE old
    BY <1>2
  <2> HIDE DEF old, new
  <2>r. \A i \in 1..m : i = m \/ i \in 1..(m - 1)
    OBVIOUS
  <2>3. ASSUME events[m] \notin Noticed
        PROVE  Noted(new, list, seen, events, m)
    BY <2>1, <2>r, <2>2, <2>3 DEF Noted
  <2>4. ASSUME events[m] \in Noticed
        PROVE  Noted(new, list, seen, events, m)
    <3>1. new = Add([list |-> old.list, seen |-> old.seen], events[m])
      BY <2>1, <2>2, <2>4 DEF Noted
    <3>2. Soundly(old.list, old.seen)
      BY <2>1 DEF Noted
    <3>3. /\ new = [list |-> new.list, seen |-> new.seen]
          /\ Soundly(new.list, new.seen)
          /\ new.seen = old.seen \union {events[m]}
          /\ IdsOf(new.list) \subseteq IdsOf(old.list) \union ({events[m]} \ old.seen)
      BY <2>4, <3>1, <3>2, AddGives
    <3>4. \A i \in 1..m : events[i] \in Noticed => events[i] \in new.seen
      BY <2>1, <2>r, <3>3 DEF Noted
    <3>5. seen \subseteq new.seen /\ IdsOf(new.list) \cap seen \subseteq IdsOf(list)
      BY <2>1, <3>3 DEF Noted
    <3>. QED
      BY <3>3, <3>4, <3>5 DEF Noted
  <2>5. Noted(new, list, seen, events, m)
    BY <2>3, <2>4
  <2>. QED
    BY <2>1, <2>5 DEF new
<1> HIDE DEF Good
<1>5. Len(events) \in Good
  BY <1>0, <1>3, <1>4, Induction
<1>. QED
  BY <1>1, <1>5 DEF Good

LEMMA NoticeInitInv == NoticeInit => NoticeInv
<1> SUFFICES ASSUME NoticeInit
             PROVE  NoticeInv
  OBVIOUS
<1>1. feed = <<>> /\ notifications = <<>> /\ seenEventIds = {} /\ effectDue = TRUE
  BY DEF NoticeInit
<1>2. <<>> \in Seq(ContractEvents) /\ <<>> \in Seq(Notice) /\ Len(<<>>) = 0
  OBVIOUS
<1>3. Soundly(<<>>, {})
  BY <1>2, NoticeCapsAssumption DEF Soundly, Distinct, IdsOf
<1>. QED
  BY <1>1, <1>2, <1>3, NoticeCapsAssumption DEF NoticeInv, NothingUnnoticed

\* The effect notices every event of the list, and lists none that was gone.
LEMMA EffectInv ==
  ASSUME NoticeInv, EffectOfFeed
  PROVE  NoticeInv' /\ (seenEventIds \ Listed) \cap Listed' = {}
<1> DEFINE after == AfterAll([list |-> notifications, seen |-> seenEventIds], feed)
<1>1. feed' = feed /\ effectDue' = FALSE /\ feed \in Seq(ContractEvents)
      /\ notifications' = after.list /\ seenEventIds' = after.seen
  BY DEF EffectOfFeed, NoticeInv
<1>2. Noted(after, notifications, seenEventIds, feed, Len(feed))
  BY AfterAllGives DEF NoticeInv
<1> HIDE DEF after
<1>3. Soundly(notifications', seenEventIds')
  BY <1>1, <1>2 DEF Noted
<1>4. NothingUnnoticed'
  <2>1. DOMAIN feed = 1..Len(feed)
    BY <1>1
  <2>2. \A i \in DOMAIN feed : feed[i] \in Noticed => feed[i] \in seenEventIds'
    BY <1>1, <1>2, <2>1 DEF Noted
  <2>. QED
    BY <1>1, <2>2 DEF NothingUnnoticed
<1>5. IdsOf(notifications') \cap seenEventIds \subseteq IdsOf(notifications)
  BY <1>1, <1>2 DEF Noted
<1>. QED
  BY <1>1, <1>3, <1>4, <1>5 DEF NoticeInv, Listed

LEMMA NoticeStep ==
  NoticeInv /\ [NoticeNext]_noticeVars => NoticeInv' /\ (seenEventIds \ Listed) \cap Listed' = {}
<1> SUFFICES ASSUME NoticeInv, [NoticeNext]_noticeVars
             PROVE  NoticeInv' /\ (seenEventIds \ Listed) \cap Listed' = {}
  OBVIOUS
<1> USE DEF NoticeInv
<1>1. ASSUME NEW batch \in Seq(ContractEvents), FeedGrows(batch)
      PROVE  NoticeInv' /\ (seenEventIds \ Listed) \cap Listed' = {}
  <2>1. batch \o feed \in Seq(ContractEvents) /\ feed' = FirstOf(batch \o feed, FeedCap)
    BY <1>1 DEF FeedGrows
  <2>2. feed' \in Seq(ContractEvents) /\ Len(feed') <= FeedCap
    BY <2>1, FirstOfGives, NoticeCapsAssumption
  <2>. QED
    BY <1>1, <2>2 DEF FeedGrows, NothingUnnoticed, Listed
<1>2. CASE FeedCleared
  <2>1. feed' = <<>> /\ <<>> \in Seq(ContractEvents) /\ Len(<<>>) <= FeedCap
    BY <1>2, NoticeCapsAssumption DEF FeedCleared
  <2>. QED
    BY <1>2, <2>1 DEF FeedCleared, NothingUnnoticed, Listed
<1>3. CASE EffectOfFeed
  BY <1>3, EffectInv
<1>4. CASE MarkAllRead
  <2>1. notifications \in Seq(Notice) /\ DOMAIN notifications = 1..Len(notifications)
        /\ Len(notifications) \in Nat
    BY DEF Soundly
  <2>2. notifications' = [i \in 1..Len(notifications) |-> [notifications[i] EXCEPT !.read = TRUE]]
    BY <1>4, <2>1 DEF MarkAllRead
  <2>3. \A i \in 1..Len(notifications) :
          /\ [notifications[i] EXCEPT !.read = TRUE] \in Notice
          /\ [notifications[i] EXCEPT !.read = TRUE].id = notifications[i].id
    <3> SUFFICES ASSUME NEW i \in 1..Len(notifications)
                 PROVE  /\ [notifications[i] EXCEPT !.read = TRUE] \in Notice
                        /\ [notifications[i] EXCEPT !.read = TRUE].id = notifications[i].id
      OBVIOUS
    <3>1. notifications[i] \in Notice
      BY <2>1
    <3>. QED
      BY <3>1 DEF Notice
  <2>4. /\ notifications' \in Seq(Notice) /\ Len(notifications') = Len(notifications)
        /\ DOMAIN notifications' = 1..Len(notifications)
        /\ \A i \in 1..Len(notifications) : notifications'[i].id = notifications[i].id
    <3>1. \A i \in 1..Len(notifications) :
            /\ notifications'[i] \in Notice
            /\ notifications'[i].id = notifications[i].id
      BY <2>2, <2>3
    <3>2. DOMAIN notifications' = 1..Len(notifications)
      BY <2>2
    <3>3. notifications' = [i \in 1..Len(notifications) |-> notifications'[i]]
      BY <2>2
    <3>4. notifications' \in Seq(Notice)
      BY <2>1, <3>1, <3>3, IsASeq
    <3>. QED
      BY <2>1, <3>1, <3>2, <3>4, LenProperties
  <2>5. Listed' = Listed
    BY <2>1, <2>4 DEF Listed, IdsOf
  <2>6. Soundly(notifications', seenEventIds)
    BY <2>4, <2>5 DEF Soundly, Distinct, Listed
  <2>. QED
    BY <1>4, <2>5, <2>6 DEF MarkAllRead, NothingUnnoticed
<1>5. ASSUME NEW id, DismissNotice(id)
      PROVE  NoticeInv' /\ (seenEventIds \ Listed) \cap Listed' = {}
  <2>1. notifications \in Seq(Notice) /\ notifications' = Keeping(notifications, Listed \ {id})
    BY <1>5 DEF DismissNotice, Soundly
  <2>2. /\ notifications' \in Seq(Notice)
        /\ Filtered(notifications', notifications, Listed \ {id}, Len(notifications))
    BY <2>1, KeepingIsFilter
  <2>3. Len(notifications) \in Nat /\ Len(notifications') \in Nat
        /\ DOMAIN notifications' = 1..Len(notifications')
    BY <2>1, <2>2
  <2>4. Listed' \subseteq Listed
    BY <2>2, <2>3 DEF Filtered, Listed, IdsOf
  <2>5. Soundly(notifications', seenEventIds)
    <3>1. Distinct(notifications') /\ Len(notifications') <= Len(notifications)
      BY <2>2 DEF Soundly, Filtered
    <3>. QED
      BY <2>2, <2>3, <2>4, <3>1, NoticeCapsAssumption DEF Soundly, Listed
  <2>. QED
    BY <1>5, <2>4, <2>5 DEF DismissNotice, NothingUnnoticed
<1>6. CASE ClearNotices
  <2>1. notifications' = <<>> /\ <<>> \in Seq(Notice) /\ Len(<<>>) = 0 /\ DOMAIN <<>> = {}
    BY <1>6 DEF ClearNotices
  <2>2. Soundly(notifications', seenEventIds) /\ Listed' = {}
    BY <2>1, NoticeCapsAssumption DEF Soundly, Distinct, IdsOf, Listed
  <2>. QED
    BY <1>6, <2>2 DEF ClearNotices, NothingUnnoticed
<1>7. CASE UNCHANGED noticeVars
  BY <1>7 DEF noticeVars, NothingUnnoticed, Listed
<1>8. \A a, b \in ContractEvents : (IF a = b THEN <<a>> ELSE <<a, b>>) \in Seq(ContractEvents)
  OBVIOUS
<1>. QED
  BY <1>1, <1>2, <1>3, <1>4, <1>5, <1>6, <1>7, <1>8 DEF NoticeNext

LEMMA NoticeFollows == NoticeInv => NoticeTypeOK /\ NothingUnnoticed
<1> SUFFICES ASSUME NoticeInv
             PROVE  NoticeTypeOK
  BY DEF NoticeInv
<1>1. Cardinality({notifications[i].id : i \in DOMAIN notifications}) = Len(notifications)
  BY DistinctCount DEF NoticeInv, Soundly
<1>. QED
  BY <1>1 DEF NoticeInv, Soundly, NoticeTypeOK, Notice, Listed, IdsOf
-----------------------------------------------------------------------------
(***************************************************************************)
(* The draft of a form.                                                    *)
(***************************************************************************)

\* What the timer would write is what the form shows, unless the form saves
\* by itself; and after clearDraft() no timer runs.
DraftInv ==
  /\ DraftTypeOK
  /\ StorageFollowsForm
  /\ ~usesSave => valuesRef = values
  /\ submitted /\ stableValues => ~timerSet

LEMMA DraftInitInv == DraftInit => DraftInv
BY BlankAssumption, MaxAgeAssumption
   DEF DraftInit, DraftInv, DraftTypeOK, StorageFollowsForm, ClearedStaysCleared, TypedIsStored

LEMMA DraftStep == DraftInv /\ [DraftNext]_draftVars => DraftInv'
<1> SUFFICES ASSUME DraftInv, [DraftNext]_draftVars
             PROVE  DraftInv'
  OBVIOUS
<1> USE BlankAssumption, MaxAgeAssumption
    DEF DraftInv, DraftTypeOK, StorageFollowsForm, ClearedStaysCleared, TypedIsStored, Persist
<1>1. CASE MountForm
  BY <1>1 DEF MountForm
<1>2. CASE UnmountForm
  BY <1>2 DEF UnmountForm
<1>3. CASE RenderForm
  BY <1>3 DEF RenderForm
<1>4. CASE SetEnabled
  BY <1>4 DEF SetEnabled
<1>5. ASSUME NEW v \in FormValues, Type(v) PROVE DraftInv'
  BY <1>5 DEF Type
<1>6. ASSUME NEW v \in FormValues, Save(v) PROVE DraftInv'
  BY <1>6 DEF Save
<1>7. CASE DebounceFires
  <2>1. age' \in 0..MaxAge + 1
    BY <1>7 DEF DebounceFires
  <2>2. stored' = valuesRef /\ valuesRef \in FormValues /\ timerSet' = FALSE
    BY <1>7 DEF DebounceFires
  <2>3. ~(submitted /\ stableValues)
    BY <1>7 DEF DebounceFires
  <2>. QED
    BY <1>7, <2>1, <2>2, <2>3 DEF DebounceFires
<1>8. CASE DiscardDraft
  BY <1>8 DEF DiscardDraft
<1>9. CASE ClearDraft
  BY <1>9 DEF ClearDraft
<1>10. CASE DraftAges
  BY <1>10 DEF DraftAges
<1>11. CASE UNCHANGED draftVars
  BY <1>11 DEF draftVars
<1>. QED
  BY <1>1, <1>2, <1>3, <1>4, <1>5, <1>6, <1>7, <1>8, <1>9, <1>10, <1>11 DEF DraftNext
-----------------------------------------------------------------------------
(***************************************************************************)
(* The feature flags.                                                      *)
(***************************************************************************)

CacheItem == [overrides: RemotePayloads, fetchedAt: {Unset} \union 0..clock]
LoadType ==
  [at: {"idle", "asked", "ok", "notModified", "failed"},
   cache: CacheItem, now: 0..clock, reply: RemotePayloads]

\* A cache read by a load is still there when the load ends, and a view that
\* came from somewhere is backed by one, which every later load has read.
FlagInv ==
  /\ FlagTypeOK
  /\ storageWorks \in BOOLEAN /\ clock \in Nat
  /\ subject \in Subjects /\ env \in EnvValues
  /\ load \in [Loads -> LoadType]
  /\ \A l \in Loads : load[l].cache # NoCache => cache # NoCache
  /\ storageWorks /\ flagSource # "empty" =>
       /\ cache # NoCache
       /\ load[current].at # "idle" => load[current].cache # NoCache

\* Time only widens what a cache may say.
LEMMA ClockWidens ==
  ASSUME NEW m \in Nat, NEW n \in Nat, m <= n
  PROVE  0..m \subseteq 0..n
OBVIOUS

LEMMA KillSwitch == FlagInv => KillSwitchHolds
<1> SUFFICES ASSUME FlagInv, overrides.value = "off" \/ overrides.percentage = 0
             PROVE  ~EnabledWith(overrides)
  BY DEF KillSwitchHolds
<1> DEFINE value == IF overrides.value # "unset" THEN overrides.value = "on"
                    ELSE IF env # "" THEN env = "on" ELSE DefaultValue
<1>0. subject \in 0..99
  BY EnvAssumption DEF FlagInv
<1>1. overrides \in Override /\ env \in {"", "on", "off"} /\ DefaultValue \in BOOLEAN
  BY PayloadsAssumption, EnvAssumption DEF FlagInv, FlagTypeOK
<1>2. value \in BOOLEAN
  BY <1>1
<1>3. CASE overrides.value = "off"
  <2>1. value = FALSE
    BY <1>3
  <2>. QED
    BY <2>1 DEF EnabledWith, Narrowed
<1>4. CASE overrides.percentage = 0
  <2>1. Narrowed(TRUE, 0) = FALSE
    <3>1. 0 # Unset /\ ~(0 > 100)
      BY DEF Unset
    <3>2. ~(subject < 0)
      BY <1>0
    <3>. QED
      BY <3>1, <3>2 DEF Narrowed
  <2>2. Narrowed(FALSE, 0) = FALSE
    BY DEF Narrowed
  <2>3. EnabledWith(overrides) = Narrowed(value, 0)
    BY <1>4 DEF EnabledWith
  <2> HIDE DEF value
  <2>. QED
    BY <1>2, <2>1, <2>2, <2>3
<1>. QED
  BY <1>3, <1>4

LEMMA StartedType ==
  ASSUME FlagInv
  PROVE  /\ Started \in LoadType /\ NoLoad \in LoadType
         /\ Started.at = "asked" /\ NoLoad.at = "idle" /\ NoLoad.cache = NoCache
         /\ Started.cache # NoCache => cache # NoCache
         /\ storageWorks => Started.cache = cache
<1>1. NoCache \in CacheItem /\ NoOverride \in RemotePayloads /\ 0 \in 0..clock /\ clock \in 0..clock
  BY PayloadsAssumption DEF NoCache, CacheItem, FlagInv
<1>2. ReadCache \in CacheItem
  BY <1>1 DEF ReadCache, CacheItem, FlagInv, FlagTypeOK
<1>. QED
  BY <1>1, <1>2 DEF Started, NoLoad, LoadType, ReadCache

LEMMA FlagInitInv == FlagInit => FlagInv
<1> SUFFICES ASSUME FlagInit
             PROVE  FlagInv
  OBVIOUS
<1>0. cache = NoCache /\ clock = 0 /\ NoOverride \in RemotePayloads
  BY PayloadsAssumption DEF FlagInit
<1>1. PICK l \in Loads : current = l /\ load = [k \in Loads |-> IF k = l THEN Started ELSE NoLoad]
  BY DEF FlagInit
<1>2. NoCache \in CacheItem /\ 0 \in 0..clock
  BY <1>0 DEF NoCache, CacheItem
<1>3. Started \in LoadType /\ NoLoad \in LoadType /\ Started.at = "asked"
      /\ Started.cache = NoCache /\ NoLoad.cache = NoCache
  BY <1>0, <1>2 DEF Started, NoLoad, LoadType, ReadCache
<1>4. load \in [Loads -> LoadType] /\ load[current].at = "asked"
      /\ \A k \in Loads : load[k].cache = NoCache
  BY <1>1, <1>3
<1>5. FlagTypeOK
  BY <1>0, <1>1, <1>2, <1>4 DEF FlagInit, FlagTypeOK, CacheItem
<1>. QED
  BY <1>0, <1>4, <1>5 DEF FlagInit, FlagInv

LEMMA FlagStep == FlagInv /\ [FlagNext]_flagVars => FlagInv'
<1> SUFFICES ASSUME FlagInv, [FlagNext]_flagVars
             PROVE  FlagInv'
  OBVIOUS
<1>1. ASSUME NEW o \in RemotePayloads, Publish(o) PROVE FlagInv'
  BY <1>1 DEF Publish, flagView, FlagInv, FlagTypeOK, CacheItem, LoadType
<1>2. CASE ClockTicks
  <2>1. clock \in Nat /\ clock' = clock + 1 /\ clock' \in Nat /\ 0..clock \subseteq 0..clock'
    BY <1>2 DEF ClockTicks, FlagInv
  <2>2. CacheItem \subseteq CacheItem'
    BY <2>1 DEF CacheItem
  <2>3. LoadType \subseteq LoadType'
    BY <2>1, <2>2 DEF LoadType
  <2>4. cache' = cache /\ load' = load /\ load \in [Loads -> LoadType] /\ cache \in CacheItem
    BY <1>2 DEF ClockTicks, FlagInv, FlagTypeOK, CacheItem
  <2>5. load' \in [Loads -> LoadType'] /\ cache' \in CacheItem'
    BY <2>2, <2>3, <2>4
  <2>. QED
    BY <1>2, <2>1, <2>4, <2>5 DEF ClockTicks, flagView, FlagInv, FlagTypeOK, CacheItem
<1>3. CASE ReloadPage
  <2>1. PICK l \in Loads : current' = l /\ load' = [k \in Loads |-> IF k = l THEN Started ELSE NoLoad]
    BY <1>3 DEF ReloadPage
  <2>2. /\ LoadType' = LoadType /\ CacheItem' = CacheItem
        /\ overrides' = NoOverride /\ flagSource' = "empty" /\ stale' = FALSE
        /\ flagStatus' = "loading" /\ cache' = cache /\ clock' = clock
        /\ published' = published /\ storageWorks' = storageWorks /\ env' = env
    BY <1>3 DEF ReloadPage, LoadType, CacheItem
  <2>3. load' \in [Loads -> LoadType] /\ load'[current'].at = "asked"
        /\ \A k \in Loads : load'[k].cache # NoCache => cache # NoCache
    BY <2>1, StartedType
  <2>4. FlagTypeOK'
    BY <2>1, <2>2, <2>3, PayloadsAssumption DEF FlagInv, FlagTypeOK, CacheItem
  <2>5. subject' \in Subjects
    BY <1>3 DEF ReloadPage, FlagInv
  <2>. QED
    BY <2>2, <2>3, <2>4, <2>5 DEF FlagInv
<1>4. ASSUME NEW l \in Loads, RefreshFlags(l) PROVE FlagInv'
  <2>1. /\ load' = [load EXCEPT ![l] = Started] /\ current' = l /\ flagStatus' = "loading"
        /\ UNCHANGED <<storageWorks, env, subject, published, cache, clock, overrides, flagSource, stale>>
    BY <1>4 DEF RefreshFlags
  <2>2. load' \in [Loads -> LoadType] /\ load'[l] = Started
    BY <2>1, StartedType DEF FlagInv
  <2>3. LoadType' = LoadType /\ CacheItem' = CacheItem
    BY <2>1 DEF LoadType, CacheItem
  <2>4. \A k \in Loads : load'[k].cache # NoCache => cache # NoCache
    BY <2>1, StartedType DEF FlagInv
  <2>. QED
    BY <2>1, <2>2, <2>3, <2>4, StartedType DEF FlagInv, FlagTypeOK
<1>5. ASSUME NEW l \in Loads, EndpointAnswers(l) PROVE FlagInv'
  <2>1. load[l] \in LoadType /\ load[l].at = "asked" /\ published \in RemotePayloads
    BY <1>5 DEF EndpointAnswers, FlagInv, FlagTypeOK
  <2>2. PICK new \in LoadType :
          new.at # "idle" /\ new.cache = load[l].cache /\ load' = [load EXCEPT ![l] = new]
    <3>1. CASE load' = [load EXCEPT ![l].at = "ok", ![l].reply = published]
      <4> DEFINE new == [load[l] EXCEPT !.at = "ok", !.reply = published]
      <4>1. new \in LoadType /\ new.at # "idle" /\ new.cache = load[l].cache
        BY <2>1 DEF LoadType
      <4>. QED
        BY <3>1, <4>1 DEF FlagInv
    <3>2. ASSUME NEW at \in {"notModified", "failed"}, load' = [load EXCEPT ![l].at = at]
          PROVE  \E new \in LoadType :
                   new.at # "idle" /\ new.cache = load[l].cache /\ load' = [load EXCEPT ![l] = new]
      <4> DEFINE new == [load[l] EXCEPT !.at = at]
      <4>1. new \in LoadType /\ new.at # "idle" /\ new.cache = load[l].cache
        BY <2>1 DEF LoadType
      <4>. QED
        BY <3>2, <4>1 DEF FlagInv
    <3>. QED
      BY <1>5, <3>1, <3>2 DEF EndpointAnswers
  <2>3. UNCHANGED <<storageWorks, env, subject, published, cache, clock, current, flagView>>
    BY <1>5 DEF EndpointAnswers
  <2>4. LoadType' = LoadType /\ CacheItem' = CacheItem
    BY <2>3 DEF LoadType, CacheItem
  <2>5. load' \in [Loads -> LoadType] /\ load'[l] = new
        /\ \A k \in Loads : k # l => load'[k] = load[k]
    BY <2>2 DEF FlagInv
  <2>6. \A k \in Loads : load'[k].cache = load[k].cache /\ (load'[k].at = "idle" <=> load[k].at = "idle")
    BY <2>1, <2>2, <2>5
  <2>. QED
    BY <2>3, <2>4, <2>5, <2>6 DEF FlagInv, FlagTypeOK, flagView, CacheItem
<1>6. ASSUME NEW l \in Loads, LoadSucceeds(l) PROVE FlagInv'
  <2>1. load[l] \in LoadType /\ load[l].at = "ok"
    BY <1>6 DEF LoadSucceeds, FlagInv
  <2>2. load[l].reply \in RemotePayloads /\ load[l].now \in 0..clock
    BY <2>1 DEF LoadType
  <2> DEFINE item == [overrides |-> load[l].reply, fetchedAt |-> load[l].now]
  <2>3. item \in CacheItem /\ item # NoCache
    BY <2>2 DEF CacheItem, NoCache, Unset, FlagInv
  <2> HIDE DEF item
  <2>4. /\ cache' = (IF storageWorks THEN item ELSE cache)
        /\ load' = [load EXCEPT ![l] = NoLoad] /\ current' = current
        /\ UNCHANGED <<storageWorks, env, subject, published, clock>>
        /\ IF l = current
             THEN /\ overrides' = load[l].reply /\ flagSource' = "remote" /\ stale' = FALSE
                  /\ flagStatus' = "ready"
             ELSE UNCHANGED <<overrides, flagSource, stale, flagStatus>>
    BY <1>6 DEF LoadSucceeds, ShowResult, IsCurrent, item, flagView
  <2>5. LoadType' = LoadType /\ CacheItem' = CacheItem
    BY <2>4 DEF LoadType, CacheItem
  <2>6. /\ load' \in [Loads -> LoadType] /\ load'[l] = NoLoad
        /\ \A k \in Loads : k # l => load'[k] = load[k]
    BY <2>4, StartedType DEF FlagInv
  <2>7. cache' \in CacheItem /\ (cache # NoCache => cache' # NoCache)
        /\ (storageWorks => cache' # NoCache)
    BY <2>3, <2>4 DEF FlagInv, FlagTypeOK, CacheItem
  <2>8. \A k \in Loads : load'[k].cache # NoCache => cache' # NoCache
    BY <2>6, <2>7, StartedType DEF FlagInv
  <2>9. FlagTypeOK'
    BY <2>2, <2>4, <2>5, <2>6, <2>7, StartedType DEF FlagInv, FlagTypeOK, CacheItem
  <2>10. storageWorks /\ flagSource' # "empty" /\ load'[current].at # "idle" => load'[current].cache # NoCache
    BY <2>4, <2>6, StartedType DEF FlagInv
  <2>. QED
    BY <2>4, <2>5, <2>6, <2>7, <2>8, <2>9, <2>10 DEF FlagInv
<1>7. ASSUME NEW l \in Loads, FallsBack(l) PROVE FlagInv'
  <2> DEFINE known == load[l].cache
  <2>1. load[l] \in LoadType /\ load[l].at # "idle"
    BY <1>7 DEF FallsBack, FlagInv
  <2>2. known \in CacheItem /\ known.overrides \in RemotePayloads
        /\ known.fetchedAt \in Int /\ load[l].now \in Int
    BY <2>1 DEF LoadType, CacheItem, Unset
  <2>3. /\ load' = [load EXCEPT ![l] = NoLoad]
        /\ UNCHANGED <<storageWorks, env, subject, published, cache, clock, current>>
        /\ IF l = current
             THEN /\ overrides' = known.overrides
                  /\ flagSource' = (IF known = NoCache THEN "empty" ELSE "cache")
                  /\ stale' = (known # NoCache /\ load[l].now - known.fetchedAt > FreshnessWindow)
                  /\ flagStatus' = "ready"
             ELSE UNCHANGED <<overrides, flagSource, stale, flagStatus>>
    BY <1>7 DEF FallsBack, ShowResult, IsCurrent, flagView
  <2>4. LoadType' = LoadType /\ CacheItem' = CacheItem
    BY <2>3 DEF LoadType, CacheItem
  <2>5. /\ load' \in [Loads -> LoadType] /\ load'[l] = NoLoad
        /\ \A k \in Loads : k # l => load'[k] = load[k]
    BY <2>3, StartedType DEF FlagInv
  <2>6. \A k \in Loads : load'[k].cache # NoCache => cache # NoCache
    BY <2>5, StartedType DEF FlagInv
  <2>7. stale' \in BOOLEAN
    BY <2>3 DEF FlagInv, FlagTypeOK
  <2>8. flagSource' = "empty" => overrides' = NoOverride /\ ~stale'
    <3>1. CASE l = current
      <4>1. NoCache.overrides = NoOverride
        BY DEF NoCache
      <4>. QED
        BY <2>3, <3>1, <4>1
    <3>2. CASE l # current
      BY <2>3, <3>2 DEF FlagInv, FlagTypeOK
    <3>. QED
      BY <3>1, <3>2
  <2>9. FlagTypeOK'
    BY <2>2, <2>3, <2>4, <2>5, <2>7, <2>8, StartedType DEF FlagInv, FlagTypeOK, CacheItem
  <2>10. storageWorks /\ flagSource' # "empty" => cache # NoCache
    BY <2>3 DEF FlagInv
  <2>11. storageWorks /\ flagSource' # "empty" /\ load'[current].at # "idle" => load'[current].cache # NoCache
    BY <2>3, <2>5, StartedType DEF FlagInv
  <2>. QED
    BY <2>3, <2>4, <2>5, <2>6, <2>9, <2>10, <2>11 DEF FlagInv
<1>8. CASE UNCHANGED flagVars
  BY <1>8 DEF flagVars, flagView, FlagInv, FlagTypeOK, CacheItem, LoadType
<1>. QED
  BY <1>1, <1>2, <1>3, <1>4, <1>5, <1>6, <1>7, <1>8 DEF FlagNext

\* No step but a reload takes a view that came from somewhere back to nothing.
LEMMA FlagsRemainStep ==
  FlagInv /\ [FlagNext]_flagVars =>
    [storageWorks /\ flagSource # "empty" /\ ~ReloadPage => flagSource' # "empty"]_flagVars
<1> SUFFICES ASSUME FlagInv, FlagNext, storageWorks, flagSource # "empty", ~ReloadPage
             PROVE  flagSource' # "empty"
  OBVIOUS
<1>1. ASSUME NEW l \in Loads, FallsBack(l) PROVE flagSource' # "empty"
  <2>1. current \in Loads /\ (load[current].at # "idle" => load[current].cache # NoCache)
    BY DEF FlagInv, FlagTypeOK
  <2>2. CASE l = current
    BY <1>1, <2>1, <2>2 DEF FallsBack, ShowResult, IsCurrent
  <2>3. CASE l # current
    BY <1>1, <2>3 DEF FallsBack, ShowResult, IsCurrent, flagView
  <2>. QED
    BY <2>2, <2>3
<1>2. ASSUME NEW l \in Loads, LoadSucceeds(l) PROVE flagSource' # "empty"
  BY <1>2 DEF LoadSucceeds, ShowResult, IsCurrent, flagView
<1>. QED
  BY <1>1, <1>2 DEF FlagNext, Publish, ClockTicks, RefreshFlags, EndpointAnswers, flagView
-----------------------------------------------------------------------------
(***************************************************************************)
(* The wallet session.                                                     *)
(***************************************************************************)

WalletOrNone == Wallets \union {None}
Pendings == {"modal", "pairing", "address", "accounts"}
WalletCallType ==
  [at: {"idle", "disconnecting"} \union Pendings,
   wallet: WalletOrNone, asked: WalletOrNone, address: Addresses \union {None}]
RestoreType ==
  [at: {"off", "asking", "enumerating"}, asked: WalletOrNone, address: Addresses \union {None}]

\* What is asked, and whom, at each point of a call and of the restoration.
WalletTypes ==
  /\ WalletTypeOK
  /\ connecting \in BOOLEAN /\ pairing \in BOOLEAN /\ overlapped \in BOOLEAN
  /\ walletCall \in [WalletCalls -> WalletCallType] /\ restore \in RestoreType
  /\ \A c \in WalletCalls :
       /\ walletCall[c].at \in {"pairing", "address", "accounts"} =>
            selectedModule \in Wallets /\ walletCall[c].wallet \in Wallets /\ walletCall[c].asked \in Wallets
       /\ walletCall[c].at = "accounts" => walletCall[c].address \in Addresses
  /\ restore.at # "off" => selectedModule \in Wallets /\ restore.asked \in Wallets
  /\ restore.at = "enumerating" => restore.address \in Addresses

\* A session nothing works on: the provider is the stored wallet and owns
\* every account, the address is one of them, and no address, no session.
Coherent ==
  /\ provider # None => storedWallet = provider /\ address # None /\ accounts \subseteq AccountsOf[provider]
  /\ address # None => address \in accounts
  /\ address = None => accounts = {} /\ provider = None /\ storedWallet = None

\* The one restoration or call in flight, and what the session is meanwhile.
RestoreAlone ==
  /\ \A c \in WalletCalls : walletCall[c].at = "idle"
  /\ provider = None /\ accounts = {}
  /\ restore.at = "asking" => address = None
  /\ restore.at = "enumerating" => address = restore.address
CallAlone(c) ==
  /\ restore.at = "off"
  /\ \A d \in WalletCalls : d # c => walletCall[d].at = "idle"
  /\ walletCall[c].at = "disconnecting" => Coherent
  /\ walletCall[c].at \in {"modal", "pairing", "address"} => address = None /\ Coherent
  /\ walletCall[c].at \in {"pairing", "address", "accounts"} =>
       walletCall[c].asked = walletCall[c].wallet /\ selectedModule = walletCall[c].wallet
  /\ walletCall[c].at = "accounts" =>
       /\ address = walletCall[c].address /\ address \in AccountsOf[walletCall[c].wallet]
       /\ accounts = {} /\ provider = None /\ storedWallet = None

\* As long as operations follow one another, one at most is in flight.
OneAtATime ==
  ~overlapped =>
    /\ restore.at # "off" => RestoreAlone
    /\ \A c \in WalletCalls : walletCall[c].at # "idle" => CallAlone(c)
    /\ ~Pending => Coherent

WalletInv ==
  /\ WalletTypes
  /\ WatchIsReadOnly
  /\ NothingPendingNothingShown
  /\ OneAtATime

LEMMA WalletFacts ==
  /\ None \notin Wallets /\ None \notin Addresses
  /\ \A w \in Wallets : AccountsOf[w] \subseteq Addresses /\ AccountsOf[w] # {}
BY WalletsAssumption

LEMMA NoCallType == NoCall \in WalletCallType /\ NoCall.at = "idle" /\ Restored \in RestoreType
                    /\ Restored.at = "off"
BY DEF NoCall, Restored, WalletCallType, RestoreType, WalletOrNone

\* The session that a page begins with.
LEMMA BeginsCoherent ==
  ASSUME storedWallet' \in WalletOrNone, selectedModule' = storedWallet',
         address' = None, accounts' = {}, connecting' = FALSE,
         walletError' = "none", pairing' = FALSE, provider' = None, mode' = "wallet",
         walletCall' = [c \in WalletCalls |-> NoCall],
         restore' = Asking(storedWallet'), overlapped' = FALSE
  PROVE  WalletInv'
<1>1. walletCall' \in [WalletCalls -> WalletCallType]
      /\ \A c \in WalletCalls : walletCall'[c].at = "idle"
  BY NoCallType
<1>2. CASE storedWallet' = None
  <2>1. restore' = Restored /\ restore'.at = "off"
    BY <1>2, NoCallType DEF Asking
  <2>2. WalletTypes'
    BY <1>1, <1>2, <2>1, NoCallType DEF WalletTypes, WalletTypeOK, WalletOrNone
  <2>3. Coherent'
    BY <1>2 DEF Coherent
  <2>. QED
    BY <1>1, <2>1, <2>2, <2>3 DEF WalletInv, WatchIsReadOnly, NothingPendingNothingShown, OneAtATime
<1>3. CASE storedWallet' # None
  <2>1. /\ restore' = [at |-> "asking", asked |-> storedWallet', address |-> None]
        /\ restore'.at = "asking" /\ restore'.asked = storedWallet' /\ storedWallet' \in Wallets
    BY <1>3 DEF Asking, WalletOrNone
  <2>2. restore' \in RestoreType
    BY <2>1 DEF RestoreType, WalletOrNone
  <2>3. WalletTypes'
    BY <1>1, <2>1, <2>2 DEF WalletTypes, WalletTypeOK, WalletOrNone
  <2>4. RestoreAlone'
    BY <1>1, <2>1 DEF RestoreAlone
  <2>5. Pending'
    BY <2>1 DEF Pending
  <2>. QED
    BY <1>1, <2>1, <2>3, <2>4, <2>5
    DEF WalletInv, WatchIsReadOnly, NothingPendingNothingShown, OneAtATime
<1>. QED
  BY <1>2, <1>3

LEMMA WalletInitInv == WalletInit => WalletInv
<1> SUFFICES ASSUME WalletInit
             PROVE  WalletInv
  OBVIOUS
<1>1. walletCall \in [WalletCalls -> WalletCallType]
      /\ \A c \in WalletCalls : walletCall[c].at = "idle"
  BY NoCallType DEF WalletInit
<1>2. CASE storedWallet = None
  <2>1. restore = Restored /\ restore.at = "off"
    BY <1>2, NoCallType DEF Asking, WalletInit
  <2>2. WalletTypes
    BY <1>1, <1>2, <2>1, NoCallType DEF WalletInit, WalletTypes, WalletTypeOK, WalletOrNone
  <2>3. Coherent
    BY <1>2 DEF Coherent, WalletInit
  <2>. QED
    BY <1>1, <2>1, <2>2, <2>3
    DEF WalletInit, WalletInv, WatchIsReadOnly, NothingPendingNothingShown, OneAtATime
<1>3. CASE storedWallet # None
  <2>1. /\ restore = [at |-> "asking", asked |-> storedWallet, address |-> None]
        /\ restore.at = "asking" /\ restore.asked = storedWallet /\ storedWallet \in Wallets
    BY <1>3 DEF Asking, WalletOrNone, WalletInit
  <2>2. restore \in RestoreType
    BY <2>1 DEF RestoreType, WalletOrNone
  <2>3. WalletTypes
    BY <1>1, <2>1, <2>2 DEF WalletInit, WalletTypes, WalletTypeOK, WalletOrNone
  <2>4. RestoreAlone
    BY <1>1, <2>1 DEF RestoreAlone, WalletInit
  <2>5. Pending
    BY <2>1 DEF Pending
  <2>. QED
    BY <1>1, <2>1, <2>3, <2>4, <2>5
    DEF WalletInit, WalletInv, WatchIsReadOnly, NothingPendingNothingShown, OneAtATime
<1>. QED
  BY <1>2, <1>3

\* The restoration: while nothing else began it finds the session empty.
LEMMA RestoreInv ==
  ASSUME WalletInv, RestoreAnswers \/ RestoreEnumerates \/ RestoreFails
  PROVE  WalletInv'
<1> USE DEF WalletInv
<1>1. CASE RestoreAnswers
  <2>1. PICK a \in AccountsOf[restore.asked] :
          /\ address' = a
          /\ restore' = [at |-> "enumerating", asked |-> selectedModule, address |-> a]
    BY <1>1 DEF RestoreAnswers
  <2>2. /\ restore.at = "asking"
        /\ UNCHANGED <<storedWallet, selectedModule, accounts, connecting, walletError,
                       pairing, provider, mode, walletCall, overlapped>>
    BY <1>1 DEF RestoreAnswers
  <2>3. a \in Addresses /\ selectedModule \in Wallets
    BY <2>2, WalletFacts DEF WalletTypes
  <2>4. restore' \in RestoreType /\ restore'.at = "enumerating" /\ restore'.asked = selectedModule
        /\ restore'.address = a
    BY <2>1, <2>3 DEF RestoreType, WalletOrNone
  <2>5. WalletTypes'
    BY <2>1, <2>2, <2>3, <2>4 DEF WalletTypes, WalletTypeOK
  <2>6. OneAtATime'
    <3> SUFFICES ASSUME ~overlapped
                 PROVE  RestoreAlone' /\ (\A c \in WalletCalls : walletCall[c].at = "idle") /\ Pending'
      BY <2>2 DEF OneAtATime
    <3>1. RestoreAlone
      BY <2>2 DEF OneAtATime
    <3>. QED
      BY <2>1, <2>2, <2>4, <3>1 DEF RestoreAlone, Pending
  <2>. QED
    BY <2>2, <2>5, <2>6 DEF WatchIsReadOnly, NothingPendingNothingShown
<1>2. CASE RestoreEnumerates
  <2>1. /\ restore.at = "enumerating" /\ restore' = Restored /\ restore'.at = "off"
        /\ accounts' \in {{restore.address}, AccountsOf[restore.asked] \union {restore.address}}
        /\ UNCHANGED <<storedWallet, selectedModule, address, connecting, walletError,
                       pairing, provider, mode, walletCall, overlapped>>
    BY <1>2, NoCallType DEF RestoreEnumerates, Enumerated
  <2>2. restore.address \in Addresses /\ restore.asked \in Wallets
    BY <2>1 DEF WalletTypes
  <2>3. accounts' \subseteq Addresses /\ restore.address \in accounts'
    BY <2>1, <2>2, WalletFacts
  <2>4. WalletTypes'
    BY <2>1, <2>3, NoCallType DEF WalletTypes, WalletTypeOK
  <2>5. OneAtATime'
    <3> SUFFICES ASSUME ~overlapped
                 PROVE  (\A c \in WalletCalls : walletCall[c].at = "idle") /\ Coherent'
      BY <2>1 DEF OneAtATime
    <3>1. RestoreAlone
      BY <2>1 DEF OneAtATime
    <3>. QED
      BY <2>1, <2>2, <2>3, <3>1, WalletFacts DEF RestoreAlone, Coherent
  <2>. QED
    BY <2>1, <2>4, <2>5 DEF WatchIsReadOnly, NothingPendingNothingShown
<1>3. CASE RestoreFails
  <2>1. /\ restore.at = "asking" /\ restore' = Restored /\ restore'.at = "off"
        /\ storedWallet' = None /\ walletError' = "unknown"
        /\ UNCHANGED <<selectedModule, address, accounts, connecting, pairing, provider,
                       mode, walletCall, overlapped>>
    BY <1>3, NoCallType DEF RestoreFails
  <2>2. WalletTypes'
    BY <2>1, NoCallType DEF WalletTypes, WalletTypeOK
  <2>3. OneAtATime'
    <3> SUFFICES ASSUME ~overlapped
                 PROVE  (\A c \in WalletCalls : walletCall[c].at = "idle") /\ Coherent'
      BY <2>1 DEF OneAtATime
    <3>1. RestoreAlone
      BY <2>1 DEF OneAtATime
    <3>. QED
      BY <2>1, <3>1 DEF RestoreAlone, Coherent
  <2>. QED
    BY <2>1, <2>2, <2>3 DEF WatchIsReadOnly, NothingPendingNothingShown
<1>. QED
  BY <1>1, <1>2, <1>3

\* Only the calls of the interface remain idle or disconnect.
LEMMA CallTypes ==
  ASSUME WalletTypes, NEW c \in WalletCalls
  PROVE  walletCall[c] \in WalletCallType /\ walletCall[c].address \in Addresses \union {None}
         /\ walletCall[c].wallet \in WalletOrNone /\ walletCall[c].asked \in WalletOrNone
<1>1. walletCall[c] \in WalletCallType
  BY DEF WalletTypes
<1>. QED
  BY <1>1 DEF WalletCallType

LEMMA ClassifiedType ==
  ASSUME NEW wordings
  PROVE  Classified(wordings) \in
           {"none", "unknown", "not-installed", "locked", "rejected", "wrong-network"}
<1> DEFINE found == {i \in DOMAIN ErrorKinds : ErrorKinds[i] \in wordings}
           first == CHOOSE i \in found : \A j \in found : i <= j
<1>1. DOMAIN ErrorKinds = {1, 2, 3, 4}
  BY DEF ErrorKinds
<1>2. CASE found = {}
  BY <1>2 DEF Classified
<1>3. CASE found # {}
  <2>1. \E i \in found : \A j \in found : i <= j
    <3>1. found \subseteq {1, 2, 3, 4}
      BY <1>1
    <3>2. 1 \in found \/ 2 \in found \/ 3 \in found \/ 4 \in found
      BY <1>3, <3>1
    <3> HIDE DEF found
    <3>3. CASE 1 \in found
      BY <3>1, <3>3
    <3>4. CASE 1 \notin found /\ 2 \in found
      BY <3>1, <3>4
    <3>5. CASE 1 \notin found /\ 2 \notin found /\ 3 \in found
      BY <3>1, <3>5
    <3>6. CASE 1 \notin found /\ 2 \notin found /\ 3 \notin found
      BY <3>1, <3>2, <3>6
    <3>. QED
      BY <3>3, <3>4, <3>5, <3>6
  <2>2. first \in DOMAIN ErrorKinds
    BY <2>1
  <2>3. ErrorKinds[first] \in {"not-installed", "locked", "rejected", "wrong-network"}
    BY <1>1, <2>2 DEF ErrorKinds
  <2>. QED
    BY <1>3, <2>3 DEF Classified
<1>. QED
  BY <1>2, <1>3

\* An operation that begins finds nothing pending, or is counted.
LEMMA BeginsAlone ==
  ASSUME WalletInv, Begins, ~overlapped'
  PROVE  /\ ~overlapped /\ Coherent /\ restore.at = "off"
         /\ \A c \in WalletCalls : walletCall[c].at = "idle"
<1>1. ~overlapped /\ ~Pending
  BY DEF Begins, WalletInv, WalletTypes
<1>. QED
  BY <1>1 DEF WalletInv, OneAtATime, Pending

LEMMA BeginsType ==
  ASSUME WalletInv, Begins
  PROVE  overlapped' \in BOOLEAN
BY DEF Begins, WalletInv, WalletTypes

\* connect() from its modal to the address.
LEMMA ConnectInv ==
  ASSUME WalletInv, NEW c \in WalletCalls,
         Connect(c) \/ (\E w \in Wallets : ModalSelects(c, w)) \/ PairingUriKnown(c) \/ AddressKnown(c)
  PROVE  WalletInv'
<1> USE DEF WalletInv
<1>0. walletCall \in [WalletCalls -> WalletCallType]
  BY DEF WalletTypes
<1>1. CASE Connect(c)
  <2>1. /\ walletCall[c].at = "idle" /\ address = None
        /\ walletCall' = [walletCall EXCEPT ![c].at = "modal"]
        /\ connecting' = TRUE /\ walletError' = "none" /\ Begins
        /\ UNCHANGED <<storedWallet, selectedModule, pairing, address, accounts, provider, mode, restore>>
    BY <1>1 DEF Connect, session
  <2>2. /\ walletCall'[c].at = "modal"
        /\ \A d \in WalletCalls : d # c => walletCall'[d] = walletCall[d]
    BY <1>0, <2>1 DEF WalletCallType
  <2>3. walletCall' \in [WalletCalls -> WalletCallType]
    BY <1>0, <2>1 DEF WalletCallType, Pendings
  <2>4. WalletTypes'
    <3>1. WalletTypeOK'
      BY <2>1, <2>2, BeginsType DEF WalletTypes, WalletTypeOK
    <3>. QED
      BY <2>1, <2>2, <2>3, <3>1, BeginsType DEF WalletTypes
  <2>5. OneAtATime'
    <3> SUFFICES ASSUME ~overlapped'
                 PROVE  /\ CallAlone(c)' /\ restore.at = "off"
                        /\ \A d \in WalletCalls : d # c => walletCall'[d].at = "idle"
      BY <2>1, <2>2 DEF OneAtATime, Pending
    <3>1. Coherent /\ restore.at = "off" /\ \A d \in WalletCalls : walletCall[d].at = "idle"
      BY <2>1, BeginsAlone
    <3>. QED
      BY <2>1, <2>2, <3>1 DEF CallAlone, Coherent
  <2>. QED
    BY <2>1, <2>2, <2>4, <2>5 DEF WatchIsReadOnly, NothingPendingNothingShown
<1>2. ASSUME NEW w \in Wallets, ModalSelects(c, w) PROVE WalletInv'
  <2>1. /\ walletCall[c].at = "modal" /\ selectedModule' = w
        /\ walletCall' = [walletCall EXCEPT ![c].wallet = w, ![c].asked = w,
                            ![c].at = IF w \in PairedWallets THEN "pairing" ELSE "address"]
        /\ pairing' = (pairing \/ w \in PairedWallets)
        /\ UNCHANGED <<storedWallet, address, accounts, provider, mode, connecting, walletError,
                       restore, overlapped>>
    BY <1>2 DEF ModalSelects, session
  <2>2. /\ walletCall'[c].at \in {"pairing", "address"}
        /\ walletCall'[c].wallet = w /\ walletCall'[c].asked = w
        /\ \A d \in WalletCalls : d # c => walletCall'[d] = walletCall[d]
    BY <1>0, <2>1 DEF WalletCallType
  <2>3. walletCall' \in [WalletCalls -> WalletCallType]
    BY <1>0, <2>1 DEF WalletCallType, Pendings, WalletOrNone
  <2>4. WalletTypes'
    <3>1. WalletTypeOK'
      BY <2>1, <2>2 DEF WalletTypes, WalletTypeOK
    <3>. QED
      BY <2>1, <2>2, <2>3, <3>1 DEF WalletTypes
  <2>5. OneAtATime'
    <3> SUFFICES ASSUME ~overlapped
                 PROVE  /\ CallAlone(c)' /\ restore.at = "off"
                        /\ \A d \in WalletCalls : d # c => walletCall'[d].at = "idle"
      BY <2>1, <2>2 DEF OneAtATime, Pending
    <3>1. CallAlone(c)
      BY <2>1 DEF OneAtATime
    <3>. QED
      BY <2>1, <2>2, <3>1 DEF CallAlone, Coherent
  <2>. QED
    BY <2>1, <2>2, <2>4, <2>5 DEF WatchIsReadOnly, NothingPendingNothingShown
<1>3. CASE PairingUriKnown(c)
  <2>1. /\ walletCall[c].at = "pairing"
        /\ walletCall' = [walletCall EXCEPT ![c].at = "address", ![c].asked = selectedModule]
        /\ UNCHANGED <<storedWallet, selectedModule, address, accounts, provider, mode, connecting,
                       walletError, pairing, restore, overlapped>>
    BY <1>3 DEF PairingUriKnown, session
  <2>2. /\ walletCall'[c].at = "address" /\ walletCall'[c].wallet = walletCall[c].wallet
        /\ walletCall'[c].asked = selectedModule /\ selectedModule \in Wallets
        /\ \A d \in WalletCalls : d # c => walletCall'[d] = walletCall[d]
    BY <1>0, <2>1 DEF WalletCallType, WalletTypes
  <2>3. walletCall' \in [WalletCalls -> WalletCallType]
    BY <1>0, <2>1, <2>2 DEF WalletCallType, Pendings, WalletOrNone
  <2>4. WalletTypes'
    <3>1. WalletTypeOK'
      BY <2>1, <2>2 DEF WalletTypes, WalletTypeOK
    <3>. QED
      BY <2>1, <2>2, <2>3, <3>1 DEF WalletTypes
  <2>5. OneAtATime'
    <3> SUFFICES ASSUME ~overlapped
                 PROVE  /\ CallAlone(c)' /\ restore.at = "off"
                        /\ \A d \in WalletCalls : d # c => walletCall'[d].at = "idle"
      BY <2>1, <2>2 DEF OneAtATime, Pending
    <3>1. CallAlone(c)
      BY <2>1 DEF OneAtATime
    <3>. QED
      BY <2>1, <2>2, <3>1 DEF CallAlone, Coherent
  <2>. QED
    BY <2>1, <2>2, <2>4, <2>5 DEF WatchIsReadOnly, NothingPendingNothingShown
<1>4. CASE AddressKnown(c)
  <2>1. PICK a \in AccountsOf[walletCall[c].asked] :
          /\ address' = a
          /\ walletCall' = [walletCall EXCEPT ![c].at = "accounts",
                              ![c].asked = selectedModule, ![c].address = a]
    BY <1>4 DEF AddressKnown
  <2>2. /\ walletCall[c].at = "address"
        /\ UNCHANGED <<storedWallet, selectedModule, accounts, provider, mode, connecting,
                       walletError, pairing, restore, overlapped>>
    BY <1>4 DEF AddressKnown
  <2>3. a \in Addresses /\ selectedModule \in Wallets /\ walletCall[c].wallet \in Wallets
    BY <2>2, WalletFacts DEF WalletTypes
  <2>4. /\ walletCall'[c].at = "accounts" /\ walletCall'[c].wallet = walletCall[c].wallet
        /\ walletCall'[c].asked = selectedModule /\ walletCall'[c].address = a
        /\ \A d \in WalletCalls : d # c => walletCall'[d] = walletCall[d]
    BY <1>0, <2>1 DEF WalletCallType
  <2>5. walletCall' \in [WalletCalls -> WalletCallType]
    <3>1. [walletCall[c] EXCEPT !.at = "accounts", !.asked = selectedModule, !.address = a] \in WalletCallType
      BY <1>0, <2>3 DEF WalletCallType, Pendings, WalletOrNone
    <3>2. walletCall' = [walletCall EXCEPT
            ![c] = [walletCall[c] EXCEPT !.at = "accounts", !.asked = selectedModule, !.address = a]]
      BY <1>0, <2>1
    <3>. QED
      BY <1>0, <3>1, <3>2
  <2>6. WalletTypes'
    <3>1. WalletTypeOK'
      BY <2>1, <2>2, <2>3, <2>4 DEF WalletTypes, WalletTypeOK
    <3>. QED
      BY <2>1, <2>2, <2>3, <2>4, <2>5, <3>1 DEF WalletTypes
  <2>7. OneAtATime'
    <3> SUFFICES ASSUME ~overlapped
                 PROVE  /\ CallAlone(c)' /\ restore.at = "off"
                        /\ \A d \in WalletCalls : d # c => walletCall'[d].at = "idle"
      BY <2>2, <2>4 DEF OneAtATime, Pending
    <3>1. CallAlone(c)
      BY <2>2 DEF OneAtATime
    <3>. QED
      BY <2>1, <2>2, <2>4, <3>1 DEF CallAlone, Coherent
  <2>. QED
    BY <2>2, <2>4, <2>6, <2>7 DEF WatchIsReadOnly, NothingPendingNothingShown
<1>. QED
  BY <1>1, <1>2, <1>3, <1>4

\* A call that ends leaves the session to whatever else is pending.
LEMMA CallEnds ==
  ASSUME WalletInv, NEW c \in WalletCalls, walletCall[c].at # "idle",
         walletCall' = [walletCall EXCEPT ![c] = NoCall],
         UNCHANGED <<selectedModule, restore, overlapped>>,
         WalletTypeOK', connecting' \in BOOLEAN, pairing' \in BOOLEAN,
         ~overlapped /\ CallAlone(c) => Coherent'
  PROVE  WalletTypes' /\ OneAtATime'
<1>0. walletCall \in [WalletCalls -> WalletCallType] /\ WalletTypes
  BY DEF WalletInv, WalletTypes
<1>1. /\ walletCall'[c] = NoCall /\ walletCall'[c].at = "idle"
      /\ \A d \in WalletCalls : d # c => walletCall'[d] = walletCall[d]
      /\ walletCall' \in [WalletCalls -> WalletCallType]
  BY <1>0, NoCallType
<1>2. WalletTypes'
  BY <1>0, <1>1 DEF WalletTypes
<1>3. OneAtATime'
  <2> SUFFICES ASSUME ~overlapped
               PROVE  restore.at = "off" /\ Coherent' /\ \A d \in WalletCalls : walletCall'[d].at = "idle"
    BY DEF OneAtATime
  <2>1. CallAlone(c)
    BY DEF WalletInv, OneAtATime
  <2>. QED
    BY <1>1, <2>1 DEF CallAlone
<1>. QED
  BY <1>2, <1>3

LEMMA ConnectEndsInv ==
  ASSUME WalletInv, NEW c \in WalletCalls, Connected(c) \/ ConnectFails(c) \/ Disconnected(c)
  PROVE  WalletInv'
<1>0. WalletTypes /\ WalletTypeOK /\ WatchIsReadOnly /\ NothingPendingNothingShown
      /\ walletCall \in [WalletCalls -> WalletCallType]
  BY DEF WalletInv, WalletTypes
<1>1. CASE Connected(c)
  <2>1. /\ walletCall[c].at = "accounts"
        /\ accounts' \in {{walletCall[c].address},
                         AccountsOf[walletCall[c].asked] \union {walletCall[c].address}}
        /\ storedWallet' = walletCall[c].wallet /\ provider' = walletCall[c].wallet /\ mode' = "wallet"
        /\ connecting' = FALSE /\ pairing' = FALSE
        /\ walletCall' = [walletCall EXCEPT ![c] = NoCall]
        /\ UNCHANGED <<selectedModule, address, walletError, restore, overlapped>>
    BY <1>1 DEF Connected, Enumerated
  <2>2. /\ walletCall[c].address \in Addresses /\ walletCall[c].asked \in Wallets
        /\ walletCall[c].wallet \in Wallets
    BY <1>0, <2>1 DEF WalletTypes
  <2>3. accounts' \subseteq Addresses /\ walletCall[c].address \in accounts'
    BY <2>1, <2>2, WalletFacts
  <2>4. \A d \in WalletCalls : walletCall'[d].at \in
           {"idle", "modal", "pairing", "address", "accounts", "disconnecting"}
    BY <1>0, <2>1, NoCallType DEF WalletTypeOK
  <2>5. WalletTypeOK'
    BY <1>0, <2>1, <2>2, <2>3, <2>4 DEF WalletTypeOK, WalletTypes
  <2>6. ASSUME CallAlone(c) PROVE Coherent'
    BY <2>1, <2>2, <2>3, <2>6, WalletFacts DEF CallAlone, Coherent
  <2>7. WalletTypes' /\ OneAtATime'
    BY <2>1, <2>5, <2>6, CallEnds
  <2>. QED
    BY <2>1, <2>7 DEF WalletInv, WatchIsReadOnly, NothingPendingNothingShown
<1>2. CASE ConnectFails(c)
  <2>1. /\ walletCall[c].at \in {"modal", "address"}
        /\ connecting' = FALSE /\ pairing' = FALSE
        /\ walletCall' = [walletCall EXCEPT ![c] = NoCall]
        /\ UNCHANGED <<storedWallet, selectedModule, address, accounts, provider, mode, restore, overlapped>>
    BY <1>2 DEF ConnectFails, session
  <2>2. walletError' \in {"none", "unknown", "not-installed", "locked", "rejected", "wrong-network"}
    <3>1. PICK wordings \in SUBSET {"not-installed", "locked", "rejected"} :
            walletError' = Classified(wordings)
      BY <1>2 DEF ConnectFails
    <3>. QED
      BY <3>1, ClassifiedType
  <2>4. \A d \in WalletCalls : walletCall'[d].at \in
           {"idle", "modal", "pairing", "address", "accounts", "disconnecting"}
    BY <1>0, <2>1, NoCallType DEF WalletTypeOK
  <2>5. WalletTypeOK'
    BY <1>0, <2>1, <2>2, <2>4 DEF WalletTypeOK, WalletTypes
  <2>6. ASSUME CallAlone(c) PROVE Coherent'
    BY <2>1, <2>6 DEF CallAlone, Coherent
  <2>7. WalletTypes' /\ OneAtATime'
    BY <2>1, <2>5, <2>6, CallEnds
  <2>. QED
    BY <1>0, <2>1, <2>7 DEF WalletInv, WatchIsReadOnly, NothingPendingNothingShown
<1>3. CASE Disconnected(c)
  <2>1. /\ walletCall[c].at = "disconnecting"
        /\ storedWallet' = None /\ address' = None /\ accounts' = {} /\ provider' = None /\ mode' = "wallet"
        /\ pairing' = FALSE
        /\ walletCall' = [walletCall EXCEPT ![c] = NoCall]
        /\ UNCHANGED <<selectedModule, connecting, walletError, restore, overlapped>>
    BY <1>3 DEF Disconnected
  <2>4. \A d \in WalletCalls : walletCall'[d].at \in
           {"idle", "modal", "pairing", "address", "accounts", "disconnecting"}
    BY <1>0, <2>1, NoCallType DEF WalletTypeOK
  <2>5. WalletTypeOK'
    BY <1>0, <2>1, <2>4 DEF WalletTypeOK, WalletTypes
  <2>6. Coherent'
    BY <2>1 DEF Coherent
  <2>7. connecting' \in BOOLEAN
    BY <1>0, <2>1 DEF WalletTypes
  <2>8. WalletTypes' /\ OneAtATime'
    BY <2>1, <2>5, <2>6, <2>7, CallEnds
  <2>9. NothingPendingNothingShown'
    <3> SUFFICES ASSUME \A d \in WalletCalls : walletCall'[d].at \in {"idle", "disconnecting"}
                 PROVE  ~connecting
      BY <2>1 DEF NothingPendingNothingShown
    <3>1. \A d \in WalletCalls : walletCall[d].at \in {"idle", "disconnecting"}
      BY <1>0, <2>1
    <3>. QED
      BY <1>0, <3>1 DEF NothingPendingNothingShown
  <2>. QED
    BY <2>1, <2>8, <2>9 DEF WalletInv, WatchIsReadOnly
<1>. QED
  BY <1>1, <1>2, <1>3

\* disconnect() and the two operations that await nothing.
LEMMA SessionInv ==
  ASSUME WalletInv,
         \/ \E c \in WalletCalls : Disconnect(c)
         \/ \E a \in Addresses : WatchAddress(a) \/ SwitchAccount(a)
  PROVE  WalletInv'
<1>0. WalletTypes /\ WalletTypeOK /\ WatchIsReadOnly /\ NothingPendingNothingShown
      /\ walletCall \in [WalletCalls -> WalletCallType]
  BY DEF WalletInv, WalletTypes
<1>1. ASSUME NEW c \in WalletCalls, Disconnect(c) PROVE WalletInv'
  <2>1. /\ walletCall[c].at = "idle" /\ address # None
        /\ walletCall' = [walletCall EXCEPT ![c].at = "disconnecting"] /\ Begins
        /\ UNCHANGED <<storedWallet, selectedModule, address, accounts, provider, mode, connecting,
                       walletError, pairing, restore>>
    BY <1>1 DEF Disconnect, session
  <2>2. /\ walletCall'[c].at = "disconnecting"
        /\ \A d \in WalletCalls : d # c => walletCall'[d] = walletCall[d]
    BY <1>0, <2>1 DEF WalletCallType
  <2>3. walletCall' \in [WalletCalls -> WalletCallType]
    BY <1>0, <2>1 DEF WalletCallType, Pendings
  <2>4. WalletTypes'
    <3>1. WalletTypeOK'
      BY <1>0, <2>1, <2>2, BeginsType DEF WalletTypes, WalletTypeOK
    <3>. QED
      BY <1>0, <2>1, <2>2, <2>3, <3>1, BeginsType DEF WalletTypes
  <2>5. OneAtATime'
    <3> SUFFICES ASSUME ~overlapped'
                 PROVE  /\ CallAlone(c)' /\ restore.at = "off"
                        /\ \A d \in WalletCalls : d # c => walletCall'[d].at = "idle"
      BY <2>1, <2>2 DEF OneAtATime, Pending
    <3>1. Coherent /\ restore.at = "off" /\ \A d \in WalletCalls : walletCall[d].at = "idle"
      BY <2>1, BeginsAlone
    <3>. QED
      BY <2>1, <2>2, <3>1 DEF CallAlone, Coherent
  <2>6. NothingPendingNothingShown'
    <3> SUFFICES ASSUME \A d \in WalletCalls : walletCall'[d].at \in {"idle", "disconnecting"}
                 PROVE  ~connecting /\ ~pairing
      BY <2>1 DEF NothingPendingNothingShown
    <3>1. \A d \in WalletCalls : walletCall[d].at \in {"idle", "disconnecting"}
      BY <2>1, <2>2
    <3>. QED
      BY <1>0, <3>1 DEF NothingPendingNothingShown
  <2>. QED
    BY <1>0, <2>1, <2>4, <2>5, <2>6 DEF WalletInv, WatchIsReadOnly
<1>2. ASSUME NEW a \in Addresses, WatchAddress(a) \/ SwitchAccount(a) PROVE WalletInv'
  <2>1. /\ address' = a /\ Begins /\ accounts' \subseteq Addresses /\ a \in accounts'
        /\ \/ provider' = None /\ mode' = "watch"
           \/ UNCHANGED <<accounts, provider, mode>>
        /\ UNCHANGED <<storedWallet, selectedModule, connecting, walletError, pairing,
                       walletCall, restore>>
    BY <1>0, <1>2 DEF WatchAddress, SwitchAccount, WalletTypeOK
  <2>2. WalletTypes'
    <3>1. WalletTypeOK'
      BY <1>0, <2>1, BeginsType DEF WalletTypes, WalletTypeOK
    <3>. QED
      BY <1>0, <2>1, <3>1, BeginsType DEF WalletTypes
  <2>3. OneAtATime'
    <3> SUFFICES ASSUME ~overlapped'
                 PROVE  Coherent' /\ restore.at = "off" /\ (\A d \in WalletCalls : walletCall[d].at = "idle")
      BY <2>1 DEF OneAtATime, Pending
    <3>1. Coherent /\ restore.at = "off" /\ \A d \in WalletCalls : walletCall[d].at = "idle"
      BY <2>1, BeginsAlone
    <3>. QED
      BY <2>1, <3>1, WalletFacts DEF Coherent
  <2>. QED
    BY <1>0, <2>1, <2>2, <2>3 DEF WalletInv, WatchIsReadOnly, NothingPendingNothingShown
<1>. QED
  BY <1>1, <1>2

LEMMA WalletStep == WalletInv /\ [WalletNext]_walletVars => WalletInv'
<1> SUFFICES ASSUME WalletInv, [WalletNext]_walletVars
             PROVE  WalletInv'
  OBVIOUS
<1>1. CASE Reload
  <2>1. storedWallet' \in WalletOrNone
    BY <1>1 DEF WalletInv, WalletTypes, WalletTypeOK, WalletOrNone, Reload
  <2>. QED
    BY <1>1, <2>1, BeginsCoherent DEF Reload
<1>2. CASE UNCHANGED walletVars
  BY <1>2 DEF walletVars, WalletInv, WalletTypes, WalletTypeOK, WatchIsReadOnly,
     NothingPendingNothingShown, OneAtATime, Pending, RestoreAlone, CallAlone, Coherent
<1>. QED
  BY <1>1, <1>2, RestoreInv, ConnectInv, ConnectEndsInv, SessionInv DEF WalletNext

LEMMA WalletFollows == WalletInv => WalletTypeOK /\ SessionIsCoherent
BY DEF WalletInv, WalletTypes, OneAtATime, Coherent, SessionIsCoherent, SessionAtRest
-----------------------------------------------------------------------------
(***************************************************************************)
(* The session.                                                            *)
(***************************************************************************)

ClientInv ==
  /\ WalletInv /\ ToastInv /\ CacheInv
  /\ NoticeInv /\ DraftInv /\ FlagInv

LEMMA ClientInitInv == Init => ClientInv
BY WalletInitInv, ToastInitInv, CacheInitInv, NoticeInitInv, DraftInitInv, FlagInitInv
   DEF Init, ClientInv

\* A step of the session is a step of each part, or leaves it alone.
LEMMA StepOfParts ==
  [Next]_vars =>
    /\ [WalletNext]_walletVars /\ [ToastNext]_toastVars /\ [CacheNext]_cacheVars
    /\ [NoticeNext]_noticeVars /\ [DraftNext]_draftVars /\ [FlagNext]_flagVars
BY DEF Next, vars

LEMMA ClientNextInv == ClientInv /\ [Next]_vars => ClientInv'
BY StepOfParts, WalletStep, ToastStep, CacheStep, NoticeStep, DraftStep, FlagStep
   DEF ClientInv

LEMMA ClientInvHolds == Spec => []ClientInv
BY ClientInitInv, ClientNextInv, PTL DEF Spec

\* Each store of the session keeps its types and is sound by itself: the
\* timers of the toasts, the retention cap of the cache, the notifications of
\* the feed, the kill switch of a flag.
THEOREM StoresAreAlwaysSound == Spec => []StoresAreSound
<1>1. ClientInv => StoresAreSound
  BY WalletFollows, ToastFollows, CacheFollows, NoticeFollows, KillSwitch
     DEF ClientInv, StoresAreSound, DraftInv, FlagInv
<1>. QED
  BY <1>1, ClientInvHolds, PTL

\* Whichever answers of the wallet arrive late, a watched session has no
\* provider, the interface shows no connection that nobody makes, and a
\* session whose operations followed one another is at rest what was stored.
THEOREM SessionIsAlwaysCoherent == Spec => []SessionIsCoherent
<1>1. ClientInv => SessionIsCoherent
  BY WalletFollows DEF ClientInv
<1>. QED
  BY <1>1, ClientInvHolds, PTL

\* The debounced saving of lib/forms/useDraftPersistence.ts: no timer of the
\* past writes over a form that was cleared or has changed since.
THEOREM StorageAlwaysFollowsForm == Spec => []StorageFollowsForm
<1>1. ClientInv => StorageFollowsForm
  BY DEF ClientInv, DraftInv
<1>. QED
  BY <1>1, ClientInvHolds, PTL

\* enforceOverflow() of lib/toast/toastQueue.ts: an overflow never takes a toast
\* while one of lower priority stays.
THEOREM ErrorsAlwaysSurvive == Spec => ErrorsSurvive
<1>1. ClientInv /\ [Next]_vars =>
        [(\E call \in ToastCalls : Push(call)) \/ (\E n \in Capacities : SetMaxVisible(n))
           => \A i \in DOMAIN toasts, j \in DOMAIN toasts' :
                toasts[i].id \notin IdsOf(toasts')
                  => toasts'[j].priority >= toasts[i].priority]_toastVars
  BY OverflowStep, StepOfParts DEF ClientInv
<1>. QED
  BY <1>1, ClientInvHolds, PTL DEF Spec, ErrorsSurvive

\* seenEventIds of lib/notifications/NotificationStore.tsx: what was dismissed,
\* cleared or pushed out is never listed again, whatever is delivered again.
THEOREM GoneAlwaysStaysGone == Spec => GoneStaysGone
<1>1. ClientInv /\ [Next]_vars => [(seenEventIds \ Listed) \cap Listed' = {}]_noticeVars
  BY NoticeStep, StepOfParts DEF ClientInv
<1>. QED
  BY <1>1, ClientInvHolds, PTL DEF Spec, GoneStaysGone

\* FlagProvider.tsx: while the page is open and its storage works, flags that
\* have seen a payload never fall back to the defaults, whichever loads fail
\* and whatever a superseded one answers.
THEOREM FlagsNeverBackToEmpty == Spec => NeverBackToEmpty
<1>1. ClientInv /\ [Next]_vars =>
        [storageWorks /\ flagSource # "empty" /\ ~ReloadPage => flagSource' # "empty"]_flagVars
  BY FlagsRemainStep, StepOfParts DEF ClientInv
<1>. QED
  BY <1>1, ClientInvHolds, PTL DEF Spec, NeverBackToEmpty
=============================================================================
