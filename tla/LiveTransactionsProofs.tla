----------------------- MODULE LiveTransactionsProofs -----------------------
(***************************************************************************)
(* Theorems about the live feed, for any contracts, transactions and       *)
(* bounds: every row on screen follows the selected contract, the types,   *)
(* and the lookups of useLiveTransactions().                               *)
(*                                                                         *)
(* What the merge makes of a list of any length is proved by induction     *)
(* over its rounds. The induction is done with sets: of the numbers that   *)
(* break a claim one is the least.                                         *)
(***************************************************************************)
EXTENDS LiveTransactions, WellFoundedInduction, SequenceTheorems, TLAPS

\* A set of natural numbers has a least element: induction is done by looking
\* at the least counterexample.
LEMMA LeastNumber ==
  ASSUME NEW T, T \subseteq Nat, T # {}
  PROVE  \E x \in T : \A y \in T : x <= y
<1>1. \A x, y \in Nat : x < y => <<x, y>> \in OpToRel(<, Nat)
  BY DEF OpToRel
<1>2. \E R : IsWellFoundedOn(R, Nat) /\ \A x, y \in Nat : x < y => <<x, y>> \in R
  BY <1>1, NatLessThanWellFounded, Zenon
<1>3. PICK R : IsWellFoundedOn(R, Nat) /\ \A x, y \in Nat : x < y => <<x, y>> \in R
  BY <1>2
<1>4. PICK x \in T : \A y \in T : ~(<<y, x>> \in R)
  BY <1>3, WFMin
<1>5. \A y \in T : x <= y
  <2> SUFFICES ASSUME NEW y \in T PROVE x <= y
    OBVIOUS
  <2>1. x \in Nat /\ y \in Nat /\ ~(y < x)
    BY <1>3, <1>4
  <2>. QED
    BY <2>1
<1>. QED
  BY <1>5

\* What holds of 0, and of each number up to m after its predecessor.
LEMMA Induction ==
  ASSUME NEW m \in Nat, NEW Good, 0 \in Good,
         \A n \in 1..m : n - 1 \in Good => n \in Good
  PROVE  0..m \subseteq Good
<1> DEFINE Bad == {n \in 0..m : n \notin Good}
<1> SUFFICES ASSUME Bad # {}
             PROVE  FALSE
  OBVIOUS
<1>0. Bad \subseteq Nat
  OBVIOUS
<1>1. PICK n \in Bad : \A k \in Bad : n <= k
  BY <1>0, LeastNumber
<1>2. n # 0 /\ n \in 1..m /\ n - 1 \in 0..m /\ n - 1 \notin Bad
  BY <1>1
<1>3. n - 1 \in Good
  BY <1>2
<1>4. n \in Good
  BY <1>2, <1>3
<1>. QED
  BY <1>1, <1>4

\* A set of positions in a sequence has a last one.
LEMMA LastPosition ==
  ASSUME NEW m \in Nat, NEW S \in SUBSET (1..m), S # {}
  PROVE  Max(S) \in S /\ \A k \in S : k <= Max(S)
<1> DEFINE T == {m - k : k \in S}
<1>1. T \subseteq Nat /\ T # {}
  OBVIOUS
<1>2. PICK x \in T : \A y \in T : x <= y
  BY <1>1, LeastNumber
<1>3. PICK l \in S : x = m - l
  OBVIOUS
<1>4. \A k \in S : l >= k
  <2> SUFFICES ASSUME NEW k \in S PROVE l >= k
    OBVIOUS
  <2>1. m - k \in T /\ m - l <= m - k
    BY <1>2, <1>3
  <2>. QED
    BY <2>1
<1>5. \E x1 \in S : \A y \in S : x1 >= y
  BY <1>4
<1>. QED
  BY <1>5 DEF Max

-----------------------------------------------------------------------------

\* A row of the merge, or none.
RowOrNone == [placeholder: BOOLEAN, status: Status \cup {"NONE"}]

\* What the contract emits.
Emitted == {Registered(t) : t \in TxIds} \cup {StatusChanged(t, s) : t \in TxIds, s \in Status}

\* The app knows how to read what the contract emits.
LEMMA EmittedType == Emitted \subseteq Event
BY DEF Emitted, Event, Registered, StatusChanged

\* The statuses the events of a list give to a transaction.
Given(list, t) ==
  {"PENDING" : k \in {k \in 1..Len(list) : list[k] = Registered(t)}}
  \cup {list[k].toStatus : k \in {k \in 1..Len(list) :
           list[k].txId = t /\ list[k].type = "StatusChanged"}}

\* The loop of mergeTransactionEvents(), round by round, over the first n events.
Rounds(g, list, n) ==
  g = [i \in 0..n |-> IF i = 0 THEN MOCK_TXS ELSE Fold(g[i - 1], list[i])]

\* The loop can be run to any number of rounds.
LEMMA RoundsExist ==
  ASSUME NEW list, NEW n \in Nat
  PROVE  \E g : Rounds(g, list, n)
<1> DEFINE Good == {m \in Nat : \E g : Rounds(g, list, m)}
<1>1. 0 \in Good
  <2> DEFINE g == [i \in 0..0 |-> MOCK_TXS]
  <2>1. g = [i \in 0..0 |-> IF i = 0 THEN MOCK_TXS ELSE Fold(g[i - 1], list[i])]
    OBVIOUS
  <2>. QED
    BY <2>1 DEF Rounds
<1>2. ASSUME NEW m \in 1..n, m - 1 \in Good PROVE m \in Good
  <2>1. PICK h : Rounds(h, list, m - 1)
    BY <1>2
  <2> DEFINE g == [i \in 0..m |-> IF i = m THEN Fold(h[m - 1], list[m]) ELSE h[i]]
  <2>2. \A i \in 0..(m - 1) : h[i] = IF i = 0 THEN MOCK_TXS ELSE Fold(h[i - 1], list[i])
    BY <2>1 DEF Rounds
  <2>3. \A i \in 0..m : g[i] = IF i = 0 THEN MOCK_TXS ELSE Fold(g[i - 1], list[i])
    BY <2>2
  <2>4. g = [i \in 0..m |-> IF i = 0 THEN MOCK_TXS ELSE Fold(g[i - 1], list[i])]
    BY <2>3
  <2>5. Rounds(g, list, m)
    BY <2>4 DEF Rounds
  <2> HIDE DEF g
  <2>6. m \in Nat /\ \E r : Rounds(r, list, m)
    BY <2>5
  <2>. QED
    BY <2>6
<1> HIDE DEF Good
<1>3. n \in Good
  BY <1>1, <1>2, Induction
<1>. QED
  BY <1>3 DEF Good

\* mergeTransactionEvents() ends with the last round.
LEMMA MergeIsLastRound ==
  ASSUME NEW list, Len(list) \in Nat
  PROVE  \E g : Rounds(g, list, Len(list)) /\ mergeTransactionEvents(list) = g[Len(list)]
<1> DEFINE rows == CHOOSE g : Rounds(g, list, Len(list))
<1>1. Rounds(rows, list, Len(list))
  BY RoundsExist
<1>2. mergeTransactionEvents(list) = rows[Len(list)]
  BY DEF mergeTransactionEvents, Rounds
<1>. QED
  BY <1>1, <1>2

\* One round keeps the type of the rows, and gives a row only a status its
\* event gives.
LEMMA FoldRound ==
  ASSUME NEW rows \in [TxIds -> RowOrNone], NEW e \in Emitted
  PROVE  /\ Fold(rows, e) \in [TxIds -> RowOrNone]
         /\ \A t \in TxIds :
              \/ Fold(rows, e)[t] = rows[t]
              \/ e = Registered(t) /\ Fold(rows, e)[t].status = "PENDING"
              \/ /\ e.txId = t /\ e.type = "StatusChanged"
                 /\ e.toStatus \in Status /\ Fold(rows, e)[t].status = e.toStatus
<1>1. CASE \E u \in TxIds : e = Registered(u)
  <2>1. PICK u \in TxIds : e = Registered(u)
    BY <1>1
  <2>2. e.txId = u /\ e.type = "TransactionRegistered" /\ e.txId # None
    BY <2>1, MergeAssumption DEF Registered
  <2>3. Fold(rows, e) = IF rows[u] = NoRow THEN [rows EXCEPT ![u] = Placeholder] ELSE rows
    BY <2>2 DEF Fold
  <2>4. Placeholder \in RowOrNone /\ Placeholder.status = "PENDING"
    BY DEF Placeholder, RowOrNone, Status
  <2>5. CASE rows[u] = NoRow
    <3>1. Fold(rows, e) = [rows EXCEPT ![u] = Placeholder]
      BY <2>3, <2>5
    <3>. QED
      BY <2>1, <2>4, <3>1
  <2>6. CASE rows[u] # NoRow
    BY <2>3, <2>6
  <2>. QED
    BY <2>5, <2>6
<1>2. CASE \E u \in TxIds, s \in Status : e = StatusChanged(u, s)
  <2>1. PICK u \in TxIds, s \in Status : e = StatusChanged(u, s)
    BY <1>2
  <2>2. e.txId = u /\ e.type = "StatusChanged" /\ e.toStatus = s /\ e.txId # None
    BY <2>1, MergeAssumption DEF StatusChanged
  <2>3. Fold(rows, e) = IF rows[u] # NoRow THEN [rows EXCEPT ![u].status = s] ELSE rows
    BY <2>1, <2>2 DEF Fold
  <2>4. rows[u] \in RowOrNone
    OBVIOUS
  <2>5. [rows[u] EXCEPT !.status = s] \in RowOrNone /\ [rows[u] EXCEPT !.status = s].status = s
    BY <2>4 DEF RowOrNone
  <2>6. CASE rows[u] = NoRow
    BY <2>3, <2>6
  <2>7. CASE rows[u] # NoRow
    <3>1. Fold(rows, e) = [rows EXCEPT ![u] = [rows[u] EXCEPT !.status = s]]
      BY <2>3, <2>7
    <3>. QED
      BY <2>2, <2>5, <2>7, <3>1
  <2>. QED
    BY <2>6, <2>7
<1>. QED
  BY <1>1, <1>2 DEF Emitted

\* Every row the merge shows beside the mock rows has a status its events give.
LEMMA MergeGives ==
  ASSUME NEW list \in Seq(Emitted)
  PROVE  /\ mergeTransactionEvents(list) \in [TxIds -> RowOrNone]
         /\ \A t \in TxIds \ MockIds :
              mergeTransactionEvents(list)[t] # NoRow
                => mergeTransactionEvents(list)[t].status \in Given(list, t)
<1> DEFINE m == Len(list)
<1>0. m \in Nat /\ \A k \in 1..m : list[k] \in Emitted
  OBVIOUS
<1>1. PICK g : Rounds(g, list, m) /\ mergeTransactionEvents(list) = g[m]
  BY <1>0, MergeIsLastRound
<1>2. /\ g[0] = MOCK_TXS
      /\ \A n \in 1..m : g[n] = Fold(g[n - 1], list[n])
  <2>1. \A n \in 0..m : g[n] = IF n = 0 THEN MOCK_TXS ELSE Fold(g[n - 1], list[n])
    BY <1>1 DEF Rounds
  <2>. QED
    BY <1>0, <2>1
<1> DEFINE Sound(rows) ==
      /\ rows \in [TxIds -> RowOrNone]
      /\ \A t \in TxIds \ MockIds : rows[t].status \in {"NONE"} \cup Given(list, t)
      /\ \A t \in TxIds : rows[t].status = "NONE" => rows[t] = NoRow
<1> DEFINE Good == {n \in 0..m : Sound(g[n])}
<1>3. 0 \in Good
  <2>1. MOCK_TXS \in [TxIds -> RowOrNone]
    BY DEF MOCK_TXS, RowOrNone, MockRow, NoRow, Status
  <2>2. \A t \in TxIds \ MockIds : MOCK_TXS[t] = NoRow /\ NoRow.status = "NONE"
    BY DEF MOCK_TXS, NoRow
  <2>3. \A t \in TxIds : MOCK_TXS[t] = NoRow \/ MOCK_TXS[t].status = "PROCESSING"
    BY DEF MOCK_TXS, MockRow
  <2>4. Sound(MOCK_TXS)
    BY <2>1, <2>2, <2>3
  <2>. QED
    BY <1>0, <1>2, <2>4
<1>4. ASSUME NEW n \in 1..m, n - 1 \in Good PROVE n \in Good
  <2>1. g[n] = Fold(g[n - 1], list[n]) /\ list[n] \in Emitted
    BY <1>0, <1>2
  <2>2. Sound(g[n - 1])
    BY <1>4
  <2> HIDE <1>4
  <2> HIDE DEF Good
  <2>3. g[n] \in [TxIds -> RowOrNone]
    BY <2>1, <2>2, FoldRound
  <2>4. \A t \in TxIds :
          \/ g[n][t] = g[n - 1][t]
          \/ list[n] = Registered(t) /\ g[n][t].status = "PENDING"
          \/ /\ list[n].txId = t /\ list[n].type = "StatusChanged"
             /\ list[n].toStatus \in Status /\ g[n][t].status = list[n].toStatus
    BY <2>1, <2>2, FoldRound
  <2>5. \A t \in TxIds \ MockIds : g[n][t].status \in {"NONE"} \cup Given(list, t)
    <3> SUFFICES ASSUME NEW t \in TxIds \ MockIds
                 PROVE  g[n][t].status \in {"NONE"} \cup Given(list, t)
      OBVIOUS
    <3>1. CASE g[n][t] = g[n - 1][t]
      BY <2>2, <3>1
    <3>2. CASE list[n] = Registered(t) /\ g[n][t].status = "PENDING"
      BY <1>0, <3>2 DEF Given
    <3>3. CASE /\ list[n].txId = t /\ list[n].type = "StatusChanged"
               /\ g[n][t].status = list[n].toStatus
      BY <1>0, <3>3 DEF Given
    <3>. QED
      BY <2>4, <3>1, <3>2, <3>3
  <2>6. \A t \in TxIds : g[n][t].status = "NONE" => g[n][t] = NoRow
    BY <2>2, <2>4 DEF Status
  <2>. QED
    BY <2>3, <2>5, <2>6 DEF Good
<1> HIDE DEF Good, m
<1>5. m \in Good
  <2>1. \A n \in 1..m : n - 1 \in Good => n \in Good
    BY <1>4
  <2>2. 0..m \subseteq Good
    BY <1>0, <1>3, <2>1, Induction
  <2>. QED
    BY <1>0, <2>2
<1>6. Sound(g[m])
  BY <1>5 DEF Good
<1>. QED
  BY <1>1, <1>6 DEF NoRow, m

-----------------------------------------------------------------------------
(***************************************************************************)
(* The inductive invariant of the feed: a poll on its way carries events   *)
(* its contract has emitted, a poll of the present poller those of the     *)
(* selected contract, and so do the events in the list.                    *)
(***************************************************************************)
FeedTypes ==
  /\ chain \in [Contracts -> Seq(Emitted)]
  /\ \A c \in Contracts : Len(chain[c]) <= MaxEvents
  /\ contractId \in Contracts
  /\ generation \in 0..MaxSwitches
  /\ cursor \in 0..MaxEvents
  /\ stored \in [Contracts -> 0..MaxEvents]
  /\ events \in Seq(Emitted) /\ Len(events) <= Cap

Polls == [poller: 0..MaxSwitches, contract: Contracts, after: 0..MaxEvents, upto: 0..MaxEvents]

PollsAreOfTheChain ==
  /\ polls \subseteq Polls
  /\ \A p \in polls :
       /\ p.upto <= Len(chain[p.contract])
       /\ p.poller <= generation
       /\ p.poller = generation => p.contract = contractId

EventsAreOfTheChain ==
  \A k \in 1..Len(events) : \E j \in 1..Len(chain[contractId]) : events[k] = chain[contractId][j]

FeedInv == FeedTypes /\ PollsAreOfTheChain /\ EventsAreOfTheChain

\* The feed starts empty.
LEMMA FeedInitInv == FeedInit => FeedInv
<1> SUFFICES ASSUME FeedInit
             PROVE  FeedInv
  OBVIOUS
<1>1. FeedTypes
  BY FeedAssumption DEF FeedInit, FeedTypes
<1>2. PollsAreOfTheChain
  BY DEF FeedInit, PollsAreOfTheChain
<1>3. EventsAreOfTheChain
  BY DEF FeedInit, EventsAreOfTheChain
<1>. QED
  BY <1>1, <1>2, <1>3 DEF FeedInv

\* The list after a batch.
AfterBatch(c, after, upto, list) == Capped(SubSeq(c, after + 1, upto) \o list)

\* A list within the cap whose events are of one sequence or the other.
OfEither(new, c, list) ==
  /\ new \in Seq(Emitted) /\ Len(new) <= Cap
  /\ \A k \in 1..Len(new) : \/ \E j \in 1..Len(c) : new[k] = c[j]
                            \/ \E j \in 1..Len(list) : new[k] = list[j]

\* What the cap leaves of a batch before the list is of the chain or the list.
LEMMA CappedBatch ==
  ASSUME NEW c \in Seq(Emitted), NEW list \in Seq(Emitted),
         NEW after \in Nat, NEW upto \in Nat, upto <= Len(c)
  PROVE  OfEither(AfterBatch(c, after, upto, list), c, list)
<1> DEFINE batch == SubSeq(c, after + 1, upto)
<1> DEFINE whole == batch \o list
<1> DEFINE len == IF Len(whole) < Cap THEN Len(whole) ELSE Cap
<1>1. /\ batch \in Seq(Emitted)
      /\ \A k \in 1..Len(batch) : \E j \in 1..Len(c) : batch[k] = c[j]
  <2>1. Len(c) \in Nat /\ \A j \in 1..Len(c) : c[j] \in Emitted
    OBVIOUS
  <2>2. batch = [k \in 1..(upto - after) |-> c[k + after]]
    BY <2>1
  <2>3. \A k \in 1..(upto - after) : k + after \in 1..Len(c) /\ c[k + after] \in Emitted
    BY <2>1
  <2>4. batch \in Seq(Emitted)
    BY <2>1, <2>3, SubSeqProperties
  <2>5. Len(batch) = IF after < upto THEN upto - after ELSE 0
    BY <2>1
  <2>6. \A k \in 1..Len(batch) : k \in 1..(upto - after) /\ batch[k] = c[k + after]
    BY <2>1, <2>2, <2>5
  <2> HIDE DEF batch
  <2>. QED
    BY <2>3, <2>4, <2>6
<1> HIDE DEF batch
<1>2. /\ whole \in Seq(Emitted) /\ Len(whole) = Len(batch) + Len(list)
      /\ \A k \in 1..Len(whole) : \/ k \in 1..Len(batch) /\ whole[k] = batch[k]
                                  \/ /\ k - Len(batch) \in 1..Len(list)
                                     /\ whole[k] = list[k - Len(batch)]
  BY <1>1
<1>3. \A k \in 1..Len(whole) : \/ \E j \in 1..Len(c) : whole[k] = c[j]
                              \/ \E j \in 1..Len(list) : whole[k] = list[j]
  BY <1>1, <1>2
<1> HIDE DEF whole
<1>4. len \in Nat /\ len <= Cap /\ len <= Len(whole) /\ Len(whole) \in Nat
  BY <1>2, FeedAssumption
<1> HIDE DEF len
<1>5. /\ SubSeq(whole, 1, len) \in Seq(Emitted) /\ Len(SubSeq(whole, 1, len)) = len
      /\ \A k \in 1..len : SubSeq(whole, 1, len)[k] = whole[k]
  BY <1>2, <1>4
<1>6. Capped(batch \o list) = SubSeq(whole, 1, len)
  BY DEF Capped, whole, len
<1>7. \A k \in 1..len : k \in 1..Len(whole)
  BY <1>4
<1>. QED
  BY <1>3, <1>4, <1>5, <1>6, <1>7 DEF AfterBatch, batch, OfEither

\* Each action keeps the invariant: a stopped poller's answer changes nothing
\* but the stored cursor, and a switch empties the list.
LEMMA FeedStep == FeedInv /\ [FeedNext]_feedVars => FeedInv'
<1> SUFFICES ASSUME FeedInv, [FeedNext]_feedVars
             PROVE  FeedInv'
  OBVIOUS
<1>0. FeedTypes /\ PollsAreOfTheChain /\ EventsAreOfTheChain
  BY DEF FeedInv
<1>1. ASSUME NEW c \in Contracts, Emit(c) PROVE FeedInv'
  <2>1. PICK e \in Emitted : chain' = [chain EXCEPT ![c] = Append(@, e)]
    BY <1>1 DEF Emit, Emitted
  <2>2. UNCHANGED feed /\ Len(chain[c]) < MaxEvents
    BY <1>1 DEF Emit
  <2>3. chain[c] \in Seq(Emitted)
    BY <1>0 DEF FeedTypes
  <2>4. /\ Append(chain[c], e) \in Seq(Emitted)
        /\ Len(Append(chain[c], e)) = Len(chain[c]) + 1 /\ Len(chain[c]) \in Nat
        /\ \A j \in 1..Len(chain[c]) : Append(chain[c], e)[j] = chain[c][j]
    BY <2>3
  <2>5. chain' \in [Contracts -> Seq(Emitted)]
    BY <1>0, <2>1, <2>4 DEF FeedTypes
  <2>6. \A d \in Contracts : chain'[d] = IF d = c THEN Append(chain[c], e) ELSE chain[d]
    BY <1>0, <2>1 DEF FeedTypes
  <2>7. \A d \in Contracts : /\ Len(chain[d]) \in Nat /\ Len(chain[d]) <= Len(chain'[d])
                            /\ Len(chain'[d]) <= MaxEvents
                            /\ \A j \in 1..Len(chain[d]) : chain'[d][j] = chain[d][j]
    <3> SUFFICES ASSUME NEW d \in Contracts
                 PROVE  /\ Len(chain[d]) \in Nat /\ Len(chain[d]) <= Len(chain'[d])
                        /\ Len(chain'[d]) <= MaxEvents
                        /\ \A j \in 1..Len(chain[d]) : chain'[d][j] = chain[d][j]
      OBVIOUS
    <3>1. Len(chain[d]) \in Nat /\ Len(chain[d]) <= MaxEvents
      BY <1>0 DEF FeedTypes
    <3>2. CASE d = c
      <4>1. chain'[d] = Append(chain[c], e)
        BY <2>6, <3>2
      <4>. QED
        BY <2>2, <2>4, <3>2, <4>1, FeedAssumption
    <3>3. CASE d # c
      BY <2>6, <3>1, <3>3
    <3>. QED
      BY <3>2, <3>3
  <2>8. FeedTypes'
    BY <1>0, <2>2, <2>5, <2>7 DEF FeedTypes, feed
  <2>9. PollsAreOfTheChain'
    <3> SUFFICES ASSUME NEW p \in polls
                 PROVE  p.upto <= Len(chain'[p.contract])
      BY <1>0, <2>2 DEF PollsAreOfTheChain, feed
    <3>1. p.contract \in Contracts /\ p.upto \in Nat /\ p.upto <= Len(chain[p.contract])
      BY <1>0 DEF PollsAreOfTheChain, Polls
    <3>2. Len(chain'[p.contract]) \in Nat
      BY <2>5, <3>1
    <3>. QED
      BY <2>7, <3>1, <3>2
  <2>10. EventsAreOfTheChain'
    <3>1. contractId \in Contracts /\ Len(chain'[contractId]) \in Nat
      BY <1>0, <2>5 DEF FeedTypes
    <3>2. \A j \in 1..Len(chain[contractId]) :
            j \in 1..Len(chain'[contractId]) /\ chain'[contractId][j] = chain[contractId][j]
      BY <2>7, <3>1
    <3>. QED
      BY <1>0, <2>2, <3>2 DEF EventsAreOfTheChain, feed
  <2>. QED
    BY <2>8, <2>9, <2>10 DEF FeedInv
<1>2. ASSUME NEW c \in Contracts, SwitchContract(c) PROVE FeedInv'
  <2>1. /\ generation < MaxSwitches /\ generation' = generation + 1
        /\ contractId' = c /\ cursor' = stored[c] /\ events' = <<>>
        /\ UNCHANGED <<chain, stored, polls>>
    BY <1>2 DEF SwitchContract, external
  <2>2. FeedTypes'
    BY <1>0, <2>1, FeedAssumption DEF FeedTypes
  <2>3. PollsAreOfTheChain'
    BY <1>0, <2>1 DEF PollsAreOfTheChain, FeedTypes, Polls
  <2>4. EventsAreOfTheChain'
    BY <2>1 DEF EventsAreOfTheChain
  <2>. QED
    BY <2>2, <2>3, <2>4 DEF FeedInv
<1>3. CASE AnswerPoll
  <2>1. PICK after \in 0..(Len(chain[contractId]) - 1) :
          polls' = polls \cup {[poller |-> generation, contract |-> contractId,
                                after |-> after, upto |-> Len(chain[contractId])]}
    BY <1>3 DEF AnswerPoll
  <2>2. UNCHANGED <<chain, contractId, generation, cursor, stored, events>>
    BY <1>3 DEF AnswerPoll, external
  <2>3. /\ Len(chain[contractId]) \in 0..MaxEvents /\ after \in 0..MaxEvents
        /\ contractId \in Contracts /\ generation \in 0..MaxSwitches
    BY <1>0, FeedAssumption DEF FeedTypes
  <2>4. PollsAreOfTheChain'
    BY <1>0, <2>1, <2>2, <2>3 DEF PollsAreOfTheChain, Polls
  <2>. QED
    BY <1>0, <2>2, <2>4 DEF FeedInv, FeedTypes, EventsAreOfTheChain
<1>4. CASE ReceivePoll
  <2>1. PICK p \in polls :
          /\ UNCHANGED <<external, contractId, generation, address, paused, enriched>>
          /\ polls' = polls \ {p}
          /\ stored' = [stored EXCEPT ![p.contract] = p.upto]
          /\ IF p.poller = generation
               THEN /\ cursor' = p.upto
                    /\ events' = Capped(SubSeq(chain[p.contract], p.after + 1, p.upto) \o events)
                    /\ Fetch(mergeTransactionEvents(events'), fetchedIds, address, paused)
               ELSE UNCHANGED <<cursor, events, fetchedIds, calls>>
    BY <1>4 DEF ReceivePoll
  <2>2. /\ p.contract \in Contracts /\ p.after \in Nat /\ p.upto \in 0..MaxEvents
        /\ p.upto <= Len(chain[p.contract])
        /\ p.poller = generation => p.contract = contractId
    BY <1>0, FeedAssumption DEF PollsAreOfTheChain, Polls
  <2>3. UNCHANGED <<chain, contractId, generation>>
    BY <2>1 DEF external
  <2>4. stored' \in [Contracts -> 0..MaxEvents]
    BY <1>0, <2>1, <2>2 DEF FeedTypes
  <2>5. PollsAreOfTheChain'
    BY <1>0, <2>1, <2>3 DEF PollsAreOfTheChain
  <2>6. CASE p.poller = generation
    <3>1. /\ cursor' = p.upto /\ p.contract = contractId
          /\ events' = Capped(SubSeq(chain[contractId], p.after + 1, p.upto) \o events)
      BY <2>1, <2>2, <2>6
    <3>2. /\ chain[contractId] \in Seq(Emitted) /\ events \in Seq(Emitted)
          /\ p.upto \in Nat /\ p.after \in Nat /\ p.upto <= Len(chain[contractId])
      BY <1>0, <2>2, <3>1, FeedAssumption DEF FeedTypes
    <3>3. /\ events' \in Seq(Emitted) /\ Len(events') <= Cap
          /\ \A k \in 1..Len(events') :
               \/ \E j \in 1..Len(chain[contractId]) : events'[k] = chain[contractId][j]
               \/ \E j \in 1..Len(events) : events'[k] = events[j]
      <4>1. events' = AfterBatch(chain[contractId], p.after, p.upto, events)
        BY <3>1 DEF AfterBatch
      <4>2. OfEither(AfterBatch(chain[contractId], p.after, p.upto, events), chain[contractId], events)
        BY <3>2, CappedBatch
      <4>. QED
        BY <4>1, <4>2 DEF OfEither
    <3>4. FeedTypes'
      BY <1>0, <2>2, <2>3, <2>4, <3>1, <3>3 DEF FeedTypes
    <3>5. EventsAreOfTheChain'
      BY <1>0, <2>3, <3>3 DEF EventsAreOfTheChain
    <3>. QED
      BY <2>5, <3>4, <3>5 DEF FeedInv
  <2>7. CASE p.poller # generation
    BY <1>0, <2>1, <2>3, <2>4, <2>5, <2>7 DEF FeedInv, FeedTypes, EventsAreOfTheChain
  <2>. QED
    BY <2>6, <2>7
<1>5. CASE UNCHANGED <<chain, feed>>
  BY <1>0, <1>5 DEF feed, FeedInv, FeedTypes, PollsAreOfTheChain, EventsAreOfTheChain
<1>6. CASE ToggleWallet \/ ToggleVisibility \/ AnswerCall \/ ReceiveCall \/ UNCHANGED feedVars
  BY <1>5, <1>6 DEF ToggleWallet, ToggleVisibility, AnswerCall, ReceiveCall, feedVars, external
<1>. QED
  BY <1>1, <1>2, <1>3, <1>4, <1>6 DEF FeedNext

\* The feed's invariant holds throughout.
LEMMA FeedHolds == FeedSpec => []FeedInv
BY FeedInitInv, FeedStep, PTL DEF FeedSpec

\* The rows show only what the selected contract's events give.
LEMMA RowsFollow == FeedInv => RowsAreOfTheContract
<1> SUFFICES ASSUME FeedInv, NEW t \in TxIds \ MockIds, baseline[t] # NoRow
             PROVE  baseline[t].status \in History(contractId, t)
  BY DEF RowsAreOfTheContract
<1>1. events \in Seq(Emitted) /\ chain[contractId] \in Seq(Emitted)
  BY DEF FeedInv, FeedTypes
<1>2. baseline[t].status \in Given(events, t)
  BY <1>1, MergeGives DEF baseline
<1>3. \A k \in 1..Len(events) :
        \E j \in DOMAIN chain[contractId] : events[k] = chain[contractId][j]
  BY <1>1 DEF FeedInv, EventsAreOfTheChain
<1>. QED
  BY <1>2, <1>3 DEF Given, History

\* However late the polls of the contracts selected before are answered, a
\* live row is registered on the selected contract and shows a status it has
\* had there.
THEOREM LiveRowsSound == FeedSpec => []RowsAreOfTheContract
BY FeedHolds, RowsFollow, PTL

-----------------------------------------------------------------------------
\* What the contract knows of a transaction is a status.
LEMMA StatusOnType ==
  ASSUME FeedTypes, NEW c \in Contracts, NEW t \in TxIds
  PROVE  StatusOn(c, t) \in Status \cup {"NONE"}
<1> DEFINE its == {k \in DOMAIN chain[c] : chain[c][k].txId = t}
<1>1. /\ Len(chain[c]) \in Nat /\ DOMAIN chain[c] = 1..Len(chain[c])
      /\ \A k \in 1..Len(chain[c]) : chain[c][k] \in Emitted
  BY DEF FeedTypes
<1>2. CASE its = {}
  BY <1>2 DEF StatusOn
<1>3. CASE its # {}
  <2>1. Max(its) \in its
    BY <1>1, <1>3, LastPosition
  <2>2. chain[c][Max(its)] \in Emitted
    BY <1>1, <2>1
  <2> HIDE DEF its
  <2>3. \A e \in Emitted : e.type = "TransactionRegistered" \/ e.toStatus \in Status
    BY DEF Emitted, Registered, StatusChanged
  <2>. QED
    BY <1>3, <2>2, <2>3 DEF StatusOn, Status, its
<1>. QED
  BY <1>2, <1>3

Calls == [selection: 0..MaxSwitches, contract: Contracts, txId: TxIds,
          answer: Status \cup {"WAITING", "NO_RESULT"}]

HookTypes ==
  /\ address \in BOOLEAN /\ paused \in BOOLEAN
  /\ fetchedIds \subseteq TxIds
  /\ calls \subseteq Calls
  /\ enriched \in [TxIds -> Status \cup {NotEnriched}]

\* The enrichment effect adds well-formed lookups.
LEMMA FetchTypes ==
  ASSUME NEW rows, NEW fetched, NEW connected, NEW hidden,
         Fetch(rows, fetched, connected, hidden), fetched \subseteq TxIds,
         generation' \in 0..MaxSwitches, contractId' \in Contracts, calls \subseteq Calls
  PROVE  fetchedIds' \subseteq TxIds /\ calls' \subseteq Calls
<1>1. Lookups(rows, fetched, connected, hidden) \subseteq TxIds
  BY DEF Lookups
<1>. QED
  BY <1>1 DEF Fetch, Calls

\* Each action keeps the types of the hook's state.
LEMMA HookStep == FeedInv /\ FeedInv' /\ HookTypes /\ [FeedNext]_feedVars => HookTypes'
<1> SUFFICES ASSUME FeedInv, FeedInv', HookTypes, [FeedNext]_feedVars
             PROVE  HookTypes'
  OBVIOUS
<1>0. contractId' \in Contracts /\ generation' \in 0..MaxSwitches
  BY DEF FeedInv, FeedTypes
<1>1. ASSUME NEW c \in Contracts, Emit(c) PROVE HookTypes'
  BY <1>1 DEF Emit, hook, HookTypes
<1>2. ASSUME NEW c \in Contracts, SwitchContract(c) PROVE HookTypes'
  <2>1. /\ Fetch(baseline, {}, address, paused)
        /\ enriched' = [t \in TxIds |-> NotEnriched] /\ UNCHANGED <<address, paused>>
    BY <1>2 DEF SwitchContract
  <2>2. fetchedIds' \subseteq TxIds /\ calls' \subseteq Calls
    BY <1>0, <2>1, FetchTypes DEF HookTypes
  <2>. QED
    BY <2>1, <2>2 DEF HookTypes
<1>3. CASE AnswerPoll
  BY <1>3 DEF AnswerPoll, hook, HookTypes
<1>4. CASE ReceivePoll
  <2>1. /\ UNCHANGED <<address, paused, enriched>>
        /\ \/ Fetch(mergeTransactionEvents(events'), fetchedIds, address, paused)
           \/ UNCHANGED <<fetchedIds, calls>>
    BY <1>4 DEF ReceivePoll
  <2>2. fetchedIds' \subseteq TxIds /\ calls' \subseteq Calls
    BY <1>0, <2>1, FetchTypes DEF HookTypes
  <2>. QED
    BY <2>1, <2>2 DEF HookTypes
<1>5. CASE ToggleWallet
  <2>1. /\ Fetch(baseline, fetchedIds, address', paused) /\ UNCHANGED <<paused, enriched>>
        /\ address' \in BOOLEAN
    BY <1>5 DEF ToggleWallet, HookTypes
  <2>2. fetchedIds' \subseteq TxIds /\ calls' \subseteq Calls
    BY <1>0, <2>1, FetchTypes DEF HookTypes
  <2>. QED
    BY <2>1, <2>2 DEF HookTypes
<1>6. CASE ToggleVisibility
  <2>1. /\ Fetch(baseline, fetchedIds, address, paused') /\ UNCHANGED <<address, enriched>>
        /\ paused' \in BOOLEAN
    BY <1>6 DEF ToggleVisibility, HookTypes
  <2>2. fetchedIds' \subseteq TxIds /\ calls' \subseteq Calls
    BY <1>0, <2>1, FetchTypes DEF HookTypes
  <2>. QED
    BY <2>1, <2>2 DEF HookTypes
<1>7. CASE AnswerCall
  <2>1. PICK call \in calls : \E a \in {Answer(call.contract, call.txId), "NO_RESULT"} :
          calls' = (calls \ {call}) \cup {[call EXCEPT !.answer = a]}
    BY <1>7 DEF AnswerCall
  <2>2. call \in Calls
    BY DEF HookTypes
  <2>3. StatusOn(call.contract, call.txId) \in Status \cup {"NONE"}
    BY <2>2, StatusOnType DEF FeedInv, Calls
  <2>4. Answer(call.contract, call.txId) \in Status \cup {"NO_RESULT"}
    BY <2>3 DEF Answer
  <2>5. \A a \in Status \cup {"NO_RESULT"} : [call EXCEPT !.answer = a] \in Calls
    BY <2>2 DEF Calls
  <2>6. calls' \subseteq Calls
    BY <2>1, <2>4, <2>5 DEF HookTypes
  <2>. QED
    BY <1>7, <2>6 DEF AnswerCall, HookTypes
<1>8. CASE ReceiveCall
  <2>1. PICK call \in calls :
          /\ call.answer # "WAITING" /\ calls' = calls \ {call}
          /\ enriched' = IF call.answer = "NO_RESULT" THEN enriched
                         ELSE [enriched EXCEPT ![call.txId] = call.answer]
          /\ UNCHANGED <<address, paused, fetchedIds>>
    BY <1>8 DEF ReceiveCall
  <2>2. call \in Calls
    BY DEF HookTypes
  <2>3. call.answer = "NO_RESULT" \/ call.answer \in Status
    BY <2>1, <2>2 DEF Calls
  <2>. QED
    BY <2>1, <2>3 DEF HookTypes
<1>9. CASE UNCHANGED feedVars
  BY <1>9 DEF feedVars, hook, HookTypes
<1>. QED
  BY <1>1, <1>2, <1>3, <1>4, <1>5, <1>6, <1>7, <1>8, <1>9 DEF FeedNext

\* They hold in the beginning.
LEMMA HookInit == FeedInit => HookTypes
BY DEF FeedInit, HookTypes

\* Both invariants together give the types.
LEMMA TypesFollow == FeedInv /\ HookTypes => FeedTypeOK
<1> SUFFICES ASSUME FeedInv, HookTypes
             PROVE  FeedTypeOK
  OBVIOUS
<1>1. \A s \in Seq(Emitted) : s \in Seq(Event)
  BY EmittedType
<1>. QED
  BY <1>1 DEF FeedInv, FeedTypes, PollsAreOfTheChain, Polls, HookTypes, Calls, FeedTypeOK

\* Types of the variables.
THEOREM LiveTypes == FeedSpec => []FeedTypeOK
<1>1. FeedSpec => []HookTypes
  BY FeedHolds, HookInit, HookStep, PTL DEF FeedSpec
<1>. QED
  BY <1>1, FeedHolds, TypesFollow, PTL

-----------------------------------------------------------------------------
\* Without events the rows are the mock rows.
LEMMA NoEventsNoChange == mergeTransactionEvents(<<>>) = MOCK_TXS
<1>1. Len(<<>>) = 0
  OBVIOUS
<1>2. PICK g : Rounds(g, <<>>, 0) /\ mergeTransactionEvents(<<>>) = g[0]
  BY <1>1, MergeIsLastRound
<1>. QED
  BY <1>2 DEF Rounds

\* No mock row is a placeholder.
LEMMA MockIsNoPlaceholder == \A t \in TxIds : ~mergeTransactionEvents(<<>>)[t].placeholder
BY NoEventsNoChange DEF MOCK_TXS, MockRow, NoRow

(***************************************************************************)
(* The inductive invariant: besides the two properties, a lookup belongs   *)
(* to a selection up to the present one, and what the present one looks up *)
(* is in fetchedIds.                                                       *)
(***************************************************************************)
LookupTypes ==
  /\ generation \in Nat /\ fetchedIds \subseteq TxIds
  /\ address \in BOOLEAN /\ paused \in BOOLEAN

\* A lookup on its way is a record of these fields, whatever its answer is.
LookupsAreRecords ==
  \A call \in calls :
    call = [selection |-> call.selection, contract |-> call.contract,
            txId |-> call.txId, answer |-> call.answer]

LookupsAreRemembered ==
  \A call \in calls :
    /\ call.selection \in Nat /\ call.selection <= generation
    /\ call.selection = generation => call.txId \in fetchedIds

LookupInv ==
  /\ LookupTypes /\ LookupsAreRecords /\ LookupsAreRemembered
  /\ OneLookupAtATime /\ PlaceholdersAreLookedUp

\* The mock rows need no lookup.
LEMMA InitInv == FeedInit => LookupInv
<1> SUFFICES ASSUME FeedInit
             PROVE  LookupInv
  OBVIOUS
<1>1. \A t \in TxIds : ~baseline[t].placeholder
  BY MockIsNoPlaceholder DEF FeedInit, baseline
<1>2. LookupTypes /\ LookupsAreRecords /\ LookupsAreRemembered /\ OneLookupAtATime
  BY DEF FeedInit, LookupTypes, LookupsAreRecords, LookupsAreRemembered, OneLookupAtATime
<1>3. PlaceholdersAreLookedUp
  BY <1>1 DEF PlaceholdersAreLookedUp
<1>. QED
  BY <1>2, <1>3 DEF LookupInv

(***************************************************************************)
(* The enrichment effect after an update: `rows` are the rows it sees, and *)
(* no lookup of `fetched` may be repeated in the present selection.        *)
(***************************************************************************)
LEMMA FetchInv ==
  ASSUME NEW rows, NEW fetched, NEW connected, NEW hidden,
         Fetch(rows, fetched, connected, hidden),
         fetched \subseteq TxIds, generation' \in Nat,
         \A call \in calls :
           /\ call.selection \in Nat /\ call.selection <= generation'
           /\ call.selection = generation' => call.txId \in fetched,
         LookupsAreRecords, OneLookupAtATime
  PROVE  /\ fetchedIds' \subseteq TxIds
         /\ LookupsAreRecords' /\ LookupsAreRemembered' /\ OneLookupAtATime'
         /\ connected /\ ~hidden =>
              \A t \in TxIds : rows[t].placeholder => t \in fetchedIds'
<1> DEFINE ids == Lookups(rows, fetched, connected, hidden)
<1>1. /\ fetchedIds' = fetched \cup ids
      /\ calls' = calls \cup [selection: {generation'}, contract: {contractId'},
                              txId: ids, answer: {"WAITING"}]
  BY DEF Fetch
<1>2. ids \subseteq TxIds /\ ids \cap fetched = {}
  BY DEF Lookups
<1>3. connected /\ ~hidden => \A t \in TxIds : rows[t].placeholder => t \in fetched \cup ids
  BY DEF Lookups
<1> HIDE DEF ids
<1>4. \A call \in calls' \ calls :
        call.selection = generation' /\ call.contract = contractId'
        /\ call.txId \in ids /\ call.answer = "WAITING"
        /\ call = [selection |-> call.selection, contract |-> call.contract,
                   txId |-> call.txId, answer |-> call.answer]
  BY <1>1
<1>5. LookupsAreRecords' /\ LookupsAreRemembered'
  BY <1>1, <1>4 DEF LookupsAreRecords, LookupsAreRemembered
<1>6. OneLookupAtATime'
  <2> SUFFICES ASSUME NEW a \in calls', NEW b \in calls',
                      a.selection = b.selection, a.txId = b.txId
               PROVE  a = b
    BY DEF OneLookupAtATime
  <2>1. CASE a \in calls /\ b \in calls
    BY <2>1 DEF OneLookupAtATime
  <2>2. CASE a \notin calls /\ b \notin calls
    BY <1>4, <2>2
  <2>3. CASE a \in calls /\ b \notin calls
    BY <1>2, <1>4, <2>3
  <2>4. CASE a \notin calls /\ b \in calls
    BY <1>2, <1>4, <2>4
  <2>. QED
    BY <2>1, <2>2, <2>3, <2>4
<1>. QED
  BY <1>1, <1>2, <1>3, <1>5, <1>6

\* Each action keeps the invariant.
LEMMA NextInv == LookupInv /\ [FeedNext]_feedVars => LookupInv'
<1> SUFFICES ASSUME LookupInv, [FeedNext]_feedVars
             PROVE  LookupInv'
  OBVIOUS
<1>0. /\ LookupTypes /\ LookupsAreRecords /\ LookupsAreRemembered /\ OneLookupAtATime
      /\ PlaceholdersAreLookedUp
  BY DEF LookupInv
<1>1. ASSUME NEW c \in Contracts, Emit(c) PROVE LookupInv'
  BY <1>0, <1>1 DEF Emit, feed, hook, LookupInv, LookupTypes, LookupsAreRecords, LookupsAreRemembered,
                    OneLookupAtATime, PlaceholdersAreLookedUp, baseline
<1>2. ASSUME NEW c \in Contracts, SwitchContract(c) PROVE LookupInv'
  <2>1. /\ generation' = generation + 1 /\ events' = <<>>
        /\ Fetch(baseline, {}, address, paused)
        /\ UNCHANGED <<address, paused>>
    BY <1>2 DEF SwitchContract
  <2>2. /\ generation' \in Nat
        /\ \A call \in calls : /\ call.selection \in Nat /\ call.selection <= generation'
                               /\ call.selection # generation'
    BY <1>0, <2>1 DEF LookupTypes, LookupsAreRemembered
  <2>3. fetchedIds' \subseteq TxIds /\ LookupsAreRecords' /\ LookupsAreRemembered' /\ OneLookupAtATime'
    BY <1>0, <2>1, <2>2, FetchInv
  <2>4. PlaceholdersAreLookedUp'
    BY <2>1, MockIsNoPlaceholder DEF PlaceholdersAreLookedUp, baseline
  <2>. QED
    BY <1>0, <2>1, <2>2, <2>3, <2>4 DEF LookupInv, LookupTypes
<1>3. CASE AnswerPoll
  BY <1>0, <1>3 DEF AnswerPoll, external, hook, LookupInv, LookupTypes, LookupsAreRecords, LookupsAreRemembered,
                    OneLookupAtATime, PlaceholdersAreLookedUp, baseline
<1>4. CASE ReceivePoll
  <2>1. UNCHANGED <<generation, address, paused>>
    BY <1>4 DEF ReceivePoll
  <2>2. CASE Fetch(mergeTransactionEvents(events'), fetchedIds, address, paused)
    <3>1. /\ fetchedIds' \subseteq TxIds /\ LookupsAreRecords' /\ LookupsAreRemembered' /\ OneLookupAtATime'
          /\ address /\ ~paused => \A t \in TxIds :
               mergeTransactionEvents(events')[t].placeholder => t \in fetchedIds'
      BY <1>0, <2>1, <2>2, FetchInv DEF LookupTypes, LookupsAreRemembered
    <3>2. PlaceholdersAreLookedUp'
      BY <2>1, <3>1 DEF PlaceholdersAreLookedUp, baseline
    <3>. QED
      BY <1>0, <2>1, <3>1, <3>2 DEF LookupInv, LookupTypes
  <2>3. CASE UNCHANGED <<cursor, events, fetchedIds, calls>>
    BY <1>0, <2>1, <2>3 DEF LookupInv, LookupTypes, LookupsAreRecords, LookupsAreRemembered,
                            OneLookupAtATime, PlaceholdersAreLookedUp, baseline
  <2>. QED
    BY <1>4, <2>2, <2>3 DEF ReceivePoll
<1>5. CASE ToggleWallet
  <2>1. /\ address' \in BOOLEAN /\ UNCHANGED <<generation, events, paused>>
        /\ Fetch(baseline, fetchedIds, address', paused)
    BY <1>0, <1>5 DEF ToggleWallet, feed, LookupTypes
  <2>2. /\ fetchedIds' \subseteq TxIds /\ LookupsAreRecords' /\ LookupsAreRemembered' /\ OneLookupAtATime'
        /\ address' /\ ~paused => \A t \in TxIds : baseline[t].placeholder => t \in fetchedIds'
    BY <1>0, <2>1, FetchInv DEF LookupTypes, LookupsAreRemembered
  <2>3. PlaceholdersAreLookedUp'
    BY <2>1, <2>2 DEF PlaceholdersAreLookedUp, baseline
  <2>. QED
    BY <1>0, <2>1, <2>2, <2>3 DEF LookupInv, LookupTypes
<1>6. CASE ToggleVisibility
  <2>1. /\ paused' \in BOOLEAN /\ UNCHANGED <<generation, events, address>>
        /\ Fetch(baseline, fetchedIds, address, paused')
    BY <1>0, <1>6 DEF ToggleVisibility, feed, LookupTypes
  <2>2. /\ fetchedIds' \subseteq TxIds /\ LookupsAreRecords' /\ LookupsAreRemembered' /\ OneLookupAtATime'
        /\ address /\ ~paused' => \A t \in TxIds : baseline[t].placeholder => t \in fetchedIds'
    BY <1>0, <2>1, FetchInv DEF LookupTypes, LookupsAreRemembered
  <2>3. PlaceholdersAreLookedUp'
    BY <2>1, <2>2 DEF PlaceholdersAreLookedUp, baseline
  <2>. QED
    BY <1>0, <2>1, <2>2, <2>3 DEF LookupInv, LookupTypes
<1>7. CASE AnswerCall
  <2>0. PICK call \in calls :
          /\ \E a \in {Answer(call.contract, call.txId), "NO_RESULT"} :
               calls' = (calls \ {call}) \cup {[call EXCEPT !.answer = a]}
          /\ UNCHANGED <<external, feed, address, paused, fetchedIds, enriched>>
    BY <1>7 DEF AnswerCall
  <2>1. PICK a :
          /\ calls' = (calls \ {call}) \cup {[call EXCEPT !.answer = a]}
          /\ UNCHANGED <<external, feed, address, paused, fetchedIds, enriched>>
    BY <2>0
  <2> DEFINE answered == [call EXCEPT !.answer = a]
  <2>2. answered.selection = call.selection /\ answered.txId = call.txId
    BY <1>0 DEF LookupsAreRecords
  <2>3. LookupsAreRecords'
    BY <1>0, <2>1 DEF LookupsAreRecords
  <2> HIDE DEF answered
  <2>4. calls' = (calls \ {call}) \cup {answered} /\ UNCHANGED <<generation, fetchedIds>>
    BY <2>1 DEF answered, feed
  <2>5. LookupsAreRemembered'
    BY <1>0, <2>2, <2>4 DEF LookupsAreRemembered
  <2>6. OneLookupAtATime'
    BY <1>0, <2>2, <2>4 DEF OneLookupAtATime
  <2>. QED
    BY <1>0, <2>1, <2>3, <2>5, <2>6 DEF feed, LookupInv, LookupTypes, PlaceholdersAreLookedUp, baseline
<1>8. CASE ReceiveCall
  BY <1>0, <1>8 DEF ReceiveCall, external, feed, LookupInv, LookupTypes, LookupsAreRecords, LookupsAreRemembered,
                    OneLookupAtATime, PlaceholdersAreLookedUp, baseline
<1>9. CASE UNCHANGED feedVars
  BY <1>0, <1>9 DEF feedVars, feed, hook, LookupInv, LookupTypes, LookupsAreRecords, LookupsAreRemembered,
                    OneLookupAtATime, PlaceholdersAreLookedUp, baseline
<1>. QED
  BY <1>1, <1>2, <1>3, <1>4, <1>5, <1>6, <1>7, <1>8, <1>9 DEF FeedNext

\* It holds throughout.
LEMMA InvHolds == FeedSpec => []LookupInv
BY InitInv, NextInv, PTL DEF FeedSpec

\* Whatever the merge makes of the events, and whichever of the row, the
\* wallet and the tab comes last, no placeholder on screen is left without a
\* lookup.
THEOREM NoneForgotten == FeedSpec => []PlaceholdersAreLookedUp
BY InvHolds, PTL DEF LookupInv

\* The effect never repeats a lookup that is on its way in the present
\* selection.
THEOREM LookedUpOnce == FeedSpec => []OneLookupAtATime
BY InvHolds, PTL DEF LookupInv
=============================================================================
