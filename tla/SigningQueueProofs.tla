------------------------- MODULE SigningQueueProofs -------------------------
(***************************************************************************)
(* Proofs about the signing queue, for any set of requests and any depth   *)
(* of calls nested by listeners.                                           *)
(***************************************************************************)
EXTENDS SigningQueue, SequenceTheorems, WellFoundedInduction, TLAPS

(* A non-empty set of naturals has a least element: the place where find() *)
(* stops.                                                                  *)
LEMMA LeastNat ==
  ASSUME NEW T, T \subseteq Nat, T # {}
  PROVE  \E x \in T : \A y \in T : x <= y
<1> DEFINE R == {ss \in Nat \X Nat : ss[1] < ss[2]}
<1>0. IsWellFoundedOn(R, Nat)
  BY NatLessThanWellFounded DEF OpToRel
<1> HIDE DEF R
<1>1. \E x \in T : \A y \in T : ~ (<<y, x>> \in R)
  BY <1>0, WFMin
<1>2. ASSUME NEW x \in T, NEW y \in T, ~ (<<y, x>> \in R)
      PROVE  x <= y
  <2>1. x \in Nat /\ y \in Nat
    OBVIOUS
  <2>2. ~(y < x)
    BY <1>2, <2>1 DEF R
  <2>. QED
    BY <2>1, <2>2
<1>. QED
  BY <1>1, <1>2

(* Pushing a frame adds it to the frames. *)
LEMMA PushFacts ==
  ASSUME NEW f \in Frame, NEW s \in Seq(Frame)
  PROVE  /\ Push(f, s) \in Seq(Frame)
         /\ Frames(Push(f, s)) = Frames(s) \cup {f}
         /\ f \notin Frames(s) /\ Distinct(s) => Distinct(Push(f, s))
<1> DEFINE p == Push(f, s)
<1>1. <<f>> \in Seq(Frame) /\ Len(<<f>>) = 1 /\ <<f>>[1] = f
  OBVIOUS
<1>2. Len(s) \in Nat
  OBVIOUS
<1>3. /\ p \in Seq(Frame)
      /\ Len(p) = 1 + Len(s)
      /\ \A k \in 1..(1 + Len(s)) : p[k] = IF k <= 1 THEN <<f>>[k] ELSE s[k - 1]
  BY <1>1, ConcatProperties DEF Push
<1> HIDE DEF p
<1>4. p[1] = f /\ 1 \in 1..Len(p)
  BY <1>1, <1>2, <1>3
<1>5. \A k \in 1..Len(p) : k # 1 => k - 1 \in 1..Len(s) /\ p[k] = s[k - 1]
  BY <1>2, <1>3
<1>6. \A k \in 1..Len(s) : k + 1 \in 1..Len(p) /\ p[k + 1] = s[k]
  BY <1>2, <1>3
<1>7. Frames(p) = Frames(s) \cup {f}
  <2>1. Frames(p) \subseteq Frames(s) \cup {f}
    BY <1>4, <1>5 DEF Frames
  <2>2. Frames(s) \cup {f} \subseteq Frames(p)
    BY <1>4, <1>6 DEF Frames
  <2>. QED
    BY <2>1, <2>2
<1>8. ASSUME f \notin Frames(s), Distinct(s), NEW j \in 1..Len(p), NEW k \in 1..Len(p), p[j] = p[k]
      PROVE  j = k
  <2>1. CASE j = 1 \/ k = 1
    BY <1>4, <1>5, <1>8, <2>1 DEF Frames
  <2>2. CASE j # 1 /\ k # 1
    BY <1>2, <1>5, <1>8, <2>2 DEF Distinct
  <2>. QED
    BY <2>1, <2>2
<1>. QED
  BY <1>3, <1>7, <1>8 DEF p, Distinct

(* Resuming the innermost call removes its frame. *)
LEMMA PopFacts ==
  ASSUME NEW s \in Seq(Frame), s # <<>>
  PROVE  /\ Tail(s) \in Seq(Frame)
         /\ Head(s) \in Frames(s)
         /\ Frames(Tail(s)) \subseteq Frames(s)
         /\ Distinct(s) => Distinct(Tail(s)) /\ Frames(Tail(s)) = Frames(s) \ {Head(s)}
<1>1. Len(s) \in Nat /\ Len(s) # 0
  BY EmptySeq
<1>2. /\ Tail(s) \in Seq(Frame)
      /\ Len(Tail(s)) = Len(s) - 1
      /\ \A i \in 1..Len(Tail(s)) : Tail(s)[i] = s[i + 1]
  BY HeadTailProperties
<1>3. Head(s) = s[1] /\ 1 \in 1..Len(s)
  BY <1>1
<1>4. \A k \in 1..Len(Tail(s)) : k + 1 \in 1..Len(s) /\ Tail(s)[k] = s[k + 1]
  BY <1>1, <1>2
<1>5. \A k \in 1..Len(s) : k # 1 => k - 1 \in 1..Len(Tail(s)) /\ Tail(s)[k - 1] = s[k]
  BY <1>1, <1>2
<1>6. Head(s) \in Frames(s) /\ Frames(Tail(s)) \subseteq Frames(s)
  BY <1>3, <1>4 DEF Frames
<1>7. ASSUME Distinct(s)
      PROVE  Distinct(Tail(s)) /\ Frames(Tail(s)) = Frames(s) \ {Head(s)}
  <2>1. Distinct(Tail(s))
    BY <1>4, <1>7 DEF Distinct
  <2>2. Head(s) \notin Frames(Tail(s))
    BY <1>1, <1>3, <1>4, <1>7 DEF Distinct, Frames
  <2>3. Frames(s) \subseteq Frames(Tail(s)) \cup {Head(s)}
    BY <1>3, <1>5 DEF Frames
  <2>. QED
    BY <1>6, <2>1, <2>2, <2>3
<1>. QED
  BY <1>2, <1>6, <1>7

(* The three kinds of frames are told apart. *)
LEMMA FrameFacts ==
  /\ LoopFrame \in DrainFrame /\ LoopFrame \in Frame
  /\ \A r \in Requests :
       /\ ExecutorFrame(r) \in Frame /\ ExecutorFrame(r) \notin DrainFrame
       /\ BodyFrame(r) \in Frame /\ BodyFrame(r) \in DrainFrame
       /\ BodyFrame(r) # LoopFrame
  /\ \A r, q \in Requests :
       /\ ExecutorFrame(r) = ExecutorFrame(q) => r = q
       /\ BodyFrame(r) = BodyFrame(q) => r = q
BY DEF LoopFrame, ExecutorFrame, BodyFrame, DrainFrame, Frame

(* items.find() finds a request whenever one is pending. *)
LEMMA NextExists ==
  ASSUME QueueTypeOK, NEW r \in Requests, status[r] = "pending",
         \E k \in 1..Len(items) : items[k] = r
  PROVE  \E q \in Requests : IsNext(q)
<1> DEFINE T == {k \in 1..Len(items) : status[items[k]] = "pending"}
<1>1. T \subseteq Nat /\ T # {}
  BY DEF QueueTypeOK
<1>2. PICK k \in T : \A j \in T : k <= j
  BY <1>1, LeastNat
<1>3. items[k] \in Requests
  BY <1>2 DEF QueueTypeOK
<1>4. \A j \in 1..(k - 1) : status[items[j]] # "pending"
  BY <1>2 DEF QueueTypeOK
<1>5. IsNext(items[k])
  BY <1>2, <1>4 DEF IsNext
<1>. QED
  BY <1>3, <1>5

-----------------------------------------------------------------------------
(* Type correctness. *)

LEMMA InitType == QueueInit => QueueTypeOK
<1>1. <<>> \in Seq(Requests) /\ <<>> \in Seq(Frame)
  OBVIOUS
<1>. QED
  BY <1>1 DEF QueueInit, QueueTypeOK, Status

LEMMA RoundType ==
  ASSUME QueueTypeOK, NEW STATE below, below \in Seq(Frame), Round(below)
  PROVE  /\ activeId' \in Requests \cup {Nobody}
         /\ running' \in BOOLEAN
         /\ status' \in [Requests -> Status]
         /\ stack' \in Seq(Frame)
<1>1. CASE \E r \in Requests :
             /\ activeId' = r
             /\ running' = TRUE
             /\ status' = [status EXCEPT ![r] = "signing"]
             /\ stack' = Push(BodyFrame(r), below)
  <2>1. PICK r \in Requests :
             /\ activeId' = r
             /\ running' = TRUE
             /\ status' = [status EXCEPT ![r] = "signing"]
             /\ stack' = Push(BodyFrame(r), below)
    BY <1>1
  <2>2. stack' \in Seq(Frame)
    BY <2>1, PushFacts, FrameFacts
  <2>. QED
    BY <2>1, <2>2 DEF QueueTypeOK, Status
<1>2. CASE /\ activeId' = Nobody
           /\ running' = FALSE
           /\ stack' = below
           /\ UNCHANGED status
  BY <1>2 DEF QueueTypeOK
<1>. QED
  BY <1>1, <1>2 DEF Round

LEMMA NextType == QueueTypeOK /\ [QueueNext]_queueVars => QueueTypeOK'
<1> SUFFICES ASSUME QueueTypeOK, [QueueNext]_queueVars
             PROVE  QueueTypeOK'
  OBVIOUS
<1> USE DEF Status, Terminal, Outcomes, Settled
<1>1. ASSUME NEW r \in Requests, Enqueue(r)
      PROVE  QueueTypeOK'
  <2>1. items' \in Seq(Requests)
    BY <1>1, AppendProperties DEF Enqueue, QueueTypeOK
  <2>2. stack' \in Seq(Frame)
    BY <1>1, PushFacts, FrameFacts DEF Enqueue, QueueTypeOK
  <2>. QED
    BY <1>1, <2>1, <2>2 DEF Enqueue, QueueTypeOK
<1>2. ASSUME NEW r \in Requests, Executor(r)
      PROVE  QueueTypeOK'
  <2>1. Tail(stack) \in Seq(Frame)
    BY <1>2, PopFacts DEF Executor, QueueTypeOK
  <2>2. /\ activeId' \in Requests \cup {Nobody}
        /\ running' \in BOOLEAN
        /\ status' \in [Requests -> Status]
        /\ stack' \in Seq(Frame)
    BY <1>2, <2>1, RoundType DEF Executor, QueueTypeOK
  <2>. QED
    BY <1>2, <2>2 DEF Executor, QueueTypeOK
<1>3. ASSUME NEW r \in Requests, RejectAtOnce(r)
      PROVE  QueueTypeOK'
  <2>1. Tail(stack) \in Seq(Frame)
    BY <1>3, PopFacts DEF RejectAtOnce, QueueTypeOK
  <2>2. PICK outcome \in {"stale", "failed"} : Finish(r, outcome, Tail(stack))
    BY <1>3 DEF RejectAtOnce
  <2>3. stack' \in Seq(Frame)
    BY <2>1, <2>2, PushFacts, FrameFacts DEF Finish
  <2>. QED
    BY <1>3, <2>2, <2>3 DEF RejectAtOnce, Finish, SettledAs, QueueTypeOK
<1>4. ASSUME NEW r \in Requests, StartBuild(r)
      PROVE  QueueTypeOK'
  BY <1>4, PopFacts DEF StartBuild, QueueTypeOK
<1>5. ASSUME NEW r \in Requests, OpenPopup(r)
      PROVE  QueueTypeOK'
  BY <1>5 DEF OpenPopup, QueueTypeOK
<1>6. ASSUME NEW r \in Requests, WalletSigns(r)
      PROVE  QueueTypeOK'
  <2>1. stack' \in Seq(Frame)
    BY <1>6, PushFacts, FrameFacts DEF WalletSigns, Finish, QueueTypeOK
  <2>. QED
    BY <1>6, <2>1 DEF WalletSigns, Finish, SettledAs, QueueTypeOK
<1>7. ASSUME NEW r \in Requests, AwaitRejects(r)
      PROVE  QueueTypeOK'
  <2>1. PICK outcome \in {"stale", "failed"} : Finish(r, outcome, stack)
    BY <1>7 DEF AwaitRejects
  <2>2. stack' \in Seq(Frame)
    BY <2>1, PushFacts, FrameFacts DEF Finish, QueueTypeOK
  <2>. QED
    BY <1>7, <2>1, <2>2 DEF AwaitRejects, Finish, SettledAs, QueueTypeOK
<1>8. CASE NextRound
  <2>1. Tail(stack) \in Seq(Frame)
    BY <1>8, PopFacts DEF NextRound, QueueTypeOK
  <2>. QED
    BY <1>8, <2>1, RoundType DEF NextRound, QueueTypeOK
<1>9. CASE CancelRemaining
  BY <1>9 DEF CancelRemaining, SettledAs, QueueTypeOK
<1>10. CASE UNCHANGED queueVars
  BY <1>10 DEF queueVars, QueueTypeOK
<1>. QED
  BY <1>1, <1>2, <1>3, <1>4, <1>5, <1>6, <1>7, <1>8, <1>9, <1>10
     DEF QueueNext, Continue, Answer

(* The variables keep their types, however calls nest. *)
THEOREM TypeCorrect == QueueSpec => []QueueTypeOK
<1>. QED
  BY InitType, NextType, PTL DEF QueueSpec

-----------------------------------------------------------------------------
(* The inductive invariant, one lemma per action. *)

LEMMA EnqueueInv ==
  ASSUME QueueInv, QueueTypeOK', NEW r \in Requests, Enqueue(r)
  PROVE  QueueInv'
<1> USE FrameFacts DEF Terminal, Outcomes
<1>1. /\ status' = [status EXCEPT ![r] = "pending"]
      /\ status \in [Requests -> Status]
      /\ status[r] = "none"
      /\ UNCHANGED <<promise, activeId, running, awaits>>
  BY DEF Enqueue, QueueInv, QueueTypeOK
<1>2. ExecutorFrame(r) \notin Frames(stack) /\ promise[r] = "none"
  BY <1>1 DEF QueueInv, ExecutorRunsOnce
<1>3. /\ Frames(stack') = Frames(stack) \cup {ExecutorFrame(r)}
      /\ Distinct(stack')
  BY <1>2, PushFacts DEF Enqueue, QueueInv, QueueTypeOK, OneDrain
<1>4. Drains' = Drains
  BY <1>3 DEF Drains
<1>5. /\ Len(items') = Len(items) + 1 /\ Len(items) \in Nat
      /\ items'[Len(items) + 1] = r
      /\ \A k \in 1..Len(items) : items'[k] = items[k] /\ items[k] \in Requests /\ items[k] # r
  <2>1. \A k \in 1..Len(items) : items'[k] = items[k] /\ items[k] \in Requests
    BY AppendProperties DEF Enqueue, QueueInv, QueueTypeOK
  <2>2. Len(items') = Len(items) + 1 /\ Len(items) \in Nat /\ items'[Len(items) + 1] = r
    BY AppendProperties DEF Enqueue, QueueInv, QueueTypeOK
  <2>3. \A k \in 1..Len(items) : items[k] # r
    BY <1>1 DEF QueueInv, QueuedOnce
  <2>. QED
    BY <2>1, <2>2, <2>3
<1>6. OneDrain'
  BY <1>1, <1>3, <1>4 DEF OneDrain, OnePopup, QueueInv
<1>7. SigningIsHeld'
  BY <1>1, <1>4 DEF SigningIsHeld, QueueInv
<1>8. ExecutorRunsOnce'
  BY <1>1, <1>2, <1>3 DEF ExecutorRunsOnce, QueueInv
<1>9. QueuedOnce'
  BY <1>1, <1>5 DEF QueuedOnce, QueueInv
<1>10. StrictFifo'
  BY <1>1, <1>5 DEF StrictFifo, HadTurn, QueueInv
<1>11. NoLostRequest'
  BY <1>1, <1>3 DEF NoLostRequest, QueueInv
<1>12. PromiseTellsOutcome'
  BY <1>1, <1>2 DEF PromiseTellsOutcome, QueueInv
<1>. QED
  BY <1>6, <1>7, <1>8, <1>9, <1>10, <1>11, <1>12 DEF QueueInv

(* A round of drain()'s loop, taken when no other drain() is alive. *)
LEMMA RoundInv ==
  ASSUME QueueInv, NEW STATE below, below \in Seq(Frame), Round(below),
         Distinct(below), Frames(below) \cap DrainFrame = {},
         \A r \in Requests : awaits[r] = "none" /\ status[r] # "signing",
         UNCHANGED <<items, awaits>>
  PROVE  /\ OneDrain' /\ SigningIsHeld' /\ QueuedOnce' /\ StrictFifo'
         /\ \A r \in Requests : ExecutorFrame(r) \in Frames(stack') <=> ExecutorFrame(r) \in Frames(below)
         /\ \A r \in Requests : status'[r] = status[r] \/ (status[r] = "pending" /\ status'[r] = "signing")
         /\ ~running' => \A r \in Requests : status'[r] # "pending"
<1> USE FrameFacts DEF Terminal, Outcomes
<1>0. status \in [Requests -> Status] /\ items \in Seq(Requests)
  BY DEF QueueInv, QueueTypeOK
<1>1. CASE \E r \in Requests :
             /\ IsNext(r)
             /\ activeId' = r
             /\ running' = TRUE
             /\ status' = [status EXCEPT ![r] = "signing"]
             /\ stack' = Push(BodyFrame(r), below)
  <2>1. PICK r \in Requests :
             /\ IsNext(r)
             /\ running' = TRUE
             /\ status' = [status EXCEPT ![r] = "signing"]
             /\ stack' = Push(BodyFrame(r), below)
    BY <1>1
  <2>2. Frames(stack') = Frames(below) \cup {BodyFrame(r)} /\ Distinct(stack')
    BY <2>1, PushFacts
  <2>3. Drains' = {BodyFrame(r)}
    BY <2>2 DEF Drains
  <2>4. status[r] = "pending"
    BY <2>1 DEF IsNext
  <2>5. OneDrain'
    BY <2>1, <2>2, <2>3 DEF OneDrain, OnePopup
  <2>6. SigningIsHeld'
    BY <1>0, <2>1, <2>3 DEF SigningIsHeld
  <2>7. QueuedOnce'
    BY <1>0, <2>1, <2>4 DEF QueuedOnce, QueueInv
  <2>8. StrictFifo'
    <3> SUFFICES ASSUME NEW j \in 1..Len(items), NEW k \in 1..Len(items), j < k,
                        HadTurn(items[k])', status'[items[j]] = "pending"
                 PROVE  FALSE
      BY DEF StrictFifo
    <3>1. items[j] \in Requests /\ items[k] \in Requests
      BY <1>0
    <3>2. status[items[j]] = "pending" /\ items[j] # r
      BY <1>0, <2>1, <3>1
    <3>3. CASE items[k] = r
      <4>1. PICK n \in 1..Len(items) :
              items[n] = r /\ \A i \in 1..(n - 1) : status[items[i]] # "pending"
        BY <2>1 DEF IsNext
      <4>2. n = k
        BY <3>3, <4>1 DEF QueuedOnce, QueueInv
      <4>. QED
        BY <3>2, <4>1, <4>2, <1>0
    <3>4. CASE items[k] # r
      BY <1>0, <2>1, <3>1, <3>2, <3>4 DEF HadTurn, StrictFifo, QueueInv
    <3>. QED
      BY <3>3, <3>4
  <2>9. \A q \in Requests : ExecutorFrame(q) \in Frames(stack') <=> ExecutorFrame(q) \in Frames(below)
    BY <2>2
  <2>10. \A q \in Requests : status'[q] = status[q] \/ (status[q] = "pending" /\ status'[q] = "signing")
    BY <1>0, <2>1, <2>4
  <2>. QED
    BY <2>1, <2>5, <2>6, <2>7, <2>8, <2>9, <2>10
<1>2. CASE /\ \A r \in Requests : ~IsNext(r)
           /\ running' = FALSE
           /\ stack' = below
           /\ UNCHANGED status
  <2>1. Drains' = {}
    BY <1>2 DEF Drains
  <2>2. \A r \in Requests : status[r] # "pending"
    BY <1>2, NextExists DEF QueueInv, QueuedOnce
  <2>3. OneDrain'
    BY <1>2, <2>1 DEF OneDrain, OnePopup
  <2>4. SigningIsHeld'
    BY <1>2, <2>1 DEF SigningIsHeld
  <2>5. QueuedOnce' /\ StrictFifo'
    BY <1>2 DEF QueuedOnce, StrictFifo, HadTurn, QueueInv
  <2>6. \A q \in Requests : ExecutorFrame(q) \in Frames(stack') <=> ExecutorFrame(q) \in Frames(below)
    BY <1>2
  <2>. QED
    BY <1>2, <2>2, <2>3, <2>4, <2>5, <2>6
<1>. QED
  BY <1>1, <1>2 DEF Round

LEMMA ExecutorInv ==
  ASSUME QueueInv, QueueTypeOK', NEW r \in Requests, Executor(r)
  PROVE  QueueInv'
<1> USE FrameFacts DEF Terminal, Outcomes
<1>1. /\ Tail(stack) \in Seq(Frame)
      /\ Distinct(Tail(stack))
      /\ Frames(Tail(stack)) = Frames(stack) \ {ExecutorFrame(r)}
      /\ ExecutorFrame(r) \in Frames(stack)
  BY PopFacts DEF Executor, QueueInv, QueueTypeOK, OneDrain
<1>2. /\ promise' = [promise EXCEPT ![r] = "open"]
      /\ promise \in [Requests -> {"none", "open"} \cup Settled]
      /\ status \in [Requests -> Status]
      /\ UNCHANGED <<items, awaits>>
  BY DEF Executor, QueueInv, QueueTypeOK
<1>3. status[r] # "none"
  BY <1>1 DEF QueueInv, ExecutorRunsOnce
<1>4. CASE running /\ stack' = Tail(stack) /\ UNCHANGED <<status, activeId, running>>
  <2>1. Drains' = Drains
    BY <1>1, <1>4 DEF Drains
  <2>2. OneDrain'
    BY <1>1, <1>2, <1>4, <2>1 DEF OneDrain, OnePopup, QueueInv
  <2>3. SigningIsHeld'
    BY <1>2, <1>4, <2>1 DEF SigningIsHeld, QueueInv
  <2>4. ExecutorRunsOnce'
    BY <1>1, <1>2, <1>3, <1>4 DEF ExecutorRunsOnce, QueueInv
  <2>5. QueuedOnce' /\ StrictFifo' /\ NoLostRequest'
    BY <1>2, <1>4 DEF QueuedOnce, StrictFifo, HadTurn, NoLostRequest, QueueInv
  <2>6. PromiseTellsOutcome'
    BY <1>2, <1>4 DEF PromiseTellsOutcome, QueueInv
  <2>. QED
    BY <2>2, <2>3, <2>4, <2>5, <2>6 DEF QueueInv
<1>5. CASE ~running /\ Round(Tail(stack))
  <2>1. /\ Frames(Tail(stack)) \cap DrainFrame = {}
        /\ \A q \in Requests : awaits[q] = "none" /\ status[q] # "signing"
    BY <1>1, <1>5 DEF QueueInv, OneDrain, SigningIsHeld, Drains
  <2>2. /\ OneDrain' /\ SigningIsHeld' /\ QueuedOnce' /\ StrictFifo'
        /\ \A q \in Requests : ExecutorFrame(q) \in Frames(stack') <=> ExecutorFrame(q) \in Frames(Tail(stack))
        /\ \A q \in Requests : status'[q] = status[q] \/ (status[q] = "pending" /\ status'[q] = "signing")
        /\ ~running' => \A q \in Requests : status'[q] # "pending"
    BY <1>1, <1>2, <1>5, <2>1, RoundInv
  <2>3. ExecutorRunsOnce'
    BY <1>1, <1>2, <1>3, <2>2 DEF ExecutorRunsOnce, QueueInv
  <2>4. NoLostRequest'
    BY <2>2 DEF NoLostRequest
  <2>5. PromiseTellsOutcome'
    BY <1>2, <2>2 DEF PromiseTellsOutcome, QueueInv
  <2>. QED
    BY <2>2, <2>3, <2>4, <2>5 DEF QueueInv
<1>. QED
  BY <1>4, <1>5 DEF Executor

LEMMA NextRoundInv ==
  ASSUME QueueInv, QueueTypeOK', NextRound
  PROVE  QueueInv'
<1> USE FrameFacts DEF Terminal, Outcomes
<1>1. /\ Tail(stack) \in Seq(Frame)
      /\ Distinct(Tail(stack))
      /\ Frames(Tail(stack)) = Frames(stack) \ {LoopFrame}
      /\ LoopFrame \in Drains
  BY PopFacts DEF NextRound, QueueInv, QueueTypeOK, OneDrain, Drains
<1>2. UNCHANGED <<items, promise, awaits>> /\ Round(Tail(stack))
  BY DEF NextRound
<1>3. /\ Frames(Tail(stack)) \cap DrainFrame = {}
      /\ \A q \in Requests : awaits[q] = "none" /\ status[q] # "signing"
  BY <1>1 DEF QueueInv, OneDrain, SigningIsHeld, Drains
<1>4. /\ OneDrain' /\ SigningIsHeld' /\ QueuedOnce' /\ StrictFifo'
      /\ \A q \in Requests : ExecutorFrame(q) \in Frames(stack') <=> ExecutorFrame(q) \in Frames(Tail(stack))
      /\ \A q \in Requests : status'[q] = status[q] \/ (status[q] = "pending" /\ status'[q] = "signing")
      /\ ~running' => \A q \in Requests : status'[q] # "pending"
  BY <1>1, <1>2, <1>3, RoundInv
<1>5. ExecutorRunsOnce'
  BY <1>1, <1>2, <1>4 DEF ExecutorRunsOnce, QueueInv
<1>6. NoLostRequest'
  BY <1>4 DEF NoLostRequest
<1>7. PromiseTellsOutcome'
  BY <1>2, <1>4 DEF PromiseTellsOutcome, QueueInv
<1>. QED
  BY <1>4, <1>5, <1>6, <1>7 DEF QueueInv

(* The active request ends, in the loop's body or after an await. *)
LEMMA FinishInv ==
  ASSUME QueueInv, QueueTypeOK', NEW r \in Requests, NEW outcome \in Outcomes,
         NEW STATE below, below \in Seq(Frame), Finish(r, outcome, below),
         Distinct(below), Frames(below) \cap DrainFrame = {},
         \A q \in Requests : ExecutorFrame(q) \in Frames(below) <=> ExecutorFrame(q) \in Frames(stack),
         status[r] = "signing", running,
         \A q \in Requests : awaits'[q] = "none",
         \A q \in Requests : status[q] = "signing" => q = r
  PROVE  QueueInv'
<1> USE FrameFacts DEF Terminal, Outcomes
<1>1. /\ status' = [status EXCEPT ![r] = outcome]
      /\ promise' = [promise EXCEPT ![r] =
           SettledAs(@, IF outcome = "signed" THEN "resolved" ELSE "rejected")]
      /\ status \in [Requests -> Status]
      /\ promise \in [Requests -> {"none", "open"} \cup Settled]
      /\ stack' = Push(LoopFrame, below)
      /\ UNCHANGED <<items, running>>
  BY DEF Finish, QueueInv, QueueTypeOK
<1>2. Frames(stack') = Frames(below) \cup {LoopFrame} /\ Distinct(stack')
  BY <1>1, PushFacts
<1>3. Drains' = {LoopFrame}
  BY <1>2 DEF Drains
<1>4. OneDrain'
  BY <1>1, <1>2, <1>3 DEF OneDrain, OnePopup
<1>5. SigningIsHeld'
  BY <1>1, <1>3 DEF SigningIsHeld
<1>6. ExecutorRunsOnce'
  BY <1>1, <1>2 DEF ExecutorRunsOnce, QueueInv, SettledAs
<1>7. QueuedOnce'
  BY <1>1 DEF QueuedOnce, QueueInv
<1>8. StrictFifo'
  <2>1. \A k \in 1..Len(items) : items[k] \in Requests
    BY DEF QueueInv, QueueTypeOK
  <2>. QED
    BY <1>1, <2>1 DEF StrictFifo, HadTurn, QueueInv
<1>9. NoLostRequest'
  BY <1>1 DEF NoLostRequest
<1>10. PromiseTellsOutcome'
  BY <1>1 DEF PromiseTellsOutcome, QueueInv, SettledAs
<1>. QED
  BY <1>4, <1>5, <1>6, <1>7, <1>8, <1>9, <1>10 DEF QueueInv

LEMMA RejectAtOnceInv ==
  ASSUME QueueInv, QueueTypeOK', NEW r \in Requests, RejectAtOnce(r)
  PROVE  QueueInv'
<1> USE FrameFacts
<1>1. /\ Tail(stack) \in Seq(Frame)
      /\ Distinct(Tail(stack))
      /\ Frames(Tail(stack)) = Frames(stack) \ {BodyFrame(r)}
      /\ BodyFrame(r) \in Drains
  BY PopFacts DEF RejectAtOnce, QueueInv, QueueTypeOK, OneDrain, Drains
<1>2. /\ Frames(Tail(stack)) \cap DrainFrame = {}
      /\ \A q \in Requests : ExecutorFrame(q) \in Frames(Tail(stack)) <=> ExecutorFrame(q) \in Frames(stack)
  BY <1>1 DEF QueueInv, OneDrain, Drains
<1>3. /\ running
      /\ \A q \in Requests : awaits[q] = "none"
      /\ \A q \in Requests : BodyFrame(q) \in Drains => q = r
  BY <1>1 DEF QueueInv, OneDrain
<1>4. status[r] = "signing" /\ \A q \in Requests : status[q] = "signing" => q = r
  BY <1>1, <1>3 DEF QueueInv, SigningIsHeld
<1>5. PICK outcome \in Outcomes : Finish(r, outcome, Tail(stack))
  BY DEF RejectAtOnce, Outcomes
<1>6. \A q \in Requests : awaits'[q] = "none"
  BY <1>3 DEF RejectAtOnce
<1>. QED
  BY <1>1, <1>2, <1>3, <1>4, <1>5, <1>6, FinishInv

LEMMA AnswerInv ==
  ASSUME QueueInv, QueueTypeOK', NEW r \in Requests, WalletSigns(r) \/ AwaitRejects(r)
  PROVE  QueueInv'
<1>1. /\ stack = <<>>
      /\ awaits[r] # "none"
      /\ awaits' = [awaits EXCEPT ![r] = "none"]
      /\ awaits \in [Requests -> {"none", "build", "sign"}]
  BY DEF WalletSigns, AwaitRejects, QueueInv, QueueTypeOK
<1>2. PICK outcome \in Outcomes : Finish(r, outcome, stack)
  BY DEF WalletSigns, AwaitRejects, Outcomes
<1>3. stack \in Seq(Frame) /\ Distinct(stack)
  BY DEF QueueInv, QueueTypeOK, OneDrain
<1>4. /\ Frames(stack) \cap DrainFrame = {}
      /\ running
      /\ \A q \in Requests : awaits[q] # "none" => q = r
  BY <1>1 DEF QueueInv, OneDrain, OnePopup, Drains
<1>5. status[r] = "signing" /\ \A q \in Requests : status[q] = "signing" => q = r
  BY <1>1, <1>4 DEF QueueInv, SigningIsHeld, Drains
<1>6. \A q \in Requests : awaits'[q] = "none"
  BY <1>1, <1>4
<1>. QED
  BY <1>2, <1>3, <1>4, <1>5, <1>6, FinishInv

(* build() is called: drain() moves from the stack to an await. *)
LEMMA StartBuildInv ==
  ASSUME QueueInv, QueueTypeOK', NEW r \in Requests, StartBuild(r)
  PROVE  QueueInv'
<1> USE FrameFacts DEF Terminal, Outcomes
<1>1. /\ Distinct(Tail(stack))
      /\ Frames(Tail(stack)) = Frames(stack) \ {BodyFrame(r)}
      /\ BodyFrame(r) \in Drains
  BY PopFacts DEF StartBuild, QueueInv, QueueTypeOK, OneDrain, Drains
<1>2. /\ awaits' = [awaits EXCEPT ![r] = "build"]
      /\ awaits \in [Requests -> {"none", "build", "sign"}]
      /\ stack' = Tail(stack)
      /\ UNCHANGED <<items, status, promise, running>>
  BY DEF StartBuild, QueueInv, QueueTypeOK
<1>3. Drains' = {}
  BY <1>1, <1>2 DEF Drains, QueueInv, OneDrain
<1>4. /\ running
      /\ \A q \in Requests : awaits[q] = "none"
      /\ \A q \in Requests : BodyFrame(q) \in Drains => q = r
  BY <1>1 DEF QueueInv, OneDrain
<1>5. OneDrain'
  BY <1>1, <1>2, <1>3, <1>4 DEF OneDrain, OnePopup
<1>6. SigningIsHeld'
  BY <1>1, <1>2, <1>3, <1>4 DEF SigningIsHeld, QueueInv
<1>7. ExecutorRunsOnce'
  BY <1>1, <1>2 DEF ExecutorRunsOnce, QueueInv
<1>8. QueuedOnce' /\ StrictFifo' /\ NoLostRequest' /\ PromiseTellsOutcome'
  BY <1>2, <1>4 DEF QueuedOnce, StrictFifo, HadTurn, NoLostRequest, PromiseTellsOutcome, QueueInv
<1>. QED
  BY <1>5, <1>6, <1>7, <1>8 DEF QueueInv

LEMMA OpenPopupInv ==
  ASSUME QueueInv, QueueTypeOK', NEW r \in Requests, OpenPopup(r)
  PROVE  QueueInv'
<1>1. /\ awaits[r] # "none"
      /\ awaits' = [awaits EXCEPT ![r] = "sign"]
      /\ awaits \in [Requests -> {"none", "build", "sign"}]
      /\ UNCHANGED <<items, status, promise, running, stack>>
  BY DEF OpenPopup, QueueInv, QueueTypeOK
<1>2. \A q \in Requests : awaits'[q] # "none" <=> awaits[q] # "none"
  BY <1>1
<1>3. Drains' = Drains
  BY <1>1 DEF Drains, Frames
<1>4. OneDrain'
  BY <1>1, <1>2, <1>3 DEF OneDrain, OnePopup, Distinct, QueueInv
<1>5. SigningIsHeld'
  BY <1>1, <1>2, <1>3 DEF SigningIsHeld, QueueInv
<1>6. ExecutorRunsOnce' /\ QueuedOnce' /\ StrictFifo' /\ NoLostRequest' /\ PromiseTellsOutcome'
  BY <1>1 DEF ExecutorRunsOnce, QueuedOnce, StrictFifo, HadTurn, NoLostRequest,
              PromiseTellsOutcome, Frames, QueueInv
<1>. QED
  BY <1>4, <1>5, <1>6 DEF QueueInv

LEMMA CancelRemainingInv ==
  ASSUME QueueInv, QueueTypeOK', CancelRemaining
  PROVE  QueueInv'
<1> USE DEF Terminal, Outcomes
<1>1. /\ \A r \in Requests : status'[r] = IF status[r] = "pending" THEN "cancelled" ELSE status[r]
      /\ \A r \in Requests : promise'[r] = IF status[r] = "pending" /\ promise[r] = "open"
                                             THEN "rejected" ELSE promise[r]
      /\ UNCHANGED <<items, running, awaits, stack>>
  BY DEF CancelRemaining, SettledAs
<1>2. Frames(stack') = Frames(stack) /\ Drains' = Drains
  BY <1>1 DEF Drains, Frames
<1>3. \A k \in 1..Len(items) : items[k] \in Requests
  BY DEF QueueInv, QueueTypeOK
<1>4. OneDrain'
  BY <1>1, <1>2 DEF OneDrain, OnePopup, Distinct, QueueInv
<1>5. SigningIsHeld'
  BY <1>1, <1>2 DEF SigningIsHeld, QueueInv
<1>6. ExecutorRunsOnce'
  BY <1>1, <1>2 DEF ExecutorRunsOnce, QueueInv
<1>7. QueuedOnce'
  BY <1>1, <1>3 DEF QueuedOnce, QueueInv
<1>8. StrictFifo'
  BY <1>1, <1>3 DEF StrictFifo, HadTurn, QueueInv
<1>9. NoLostRequest'
  BY <1>1 DEF NoLostRequest, QueueInv
<1>10. PromiseTellsOutcome'
  BY <1>1 DEF PromiseTellsOutcome, QueueInv
<1>. QED
  BY <1>4, <1>5, <1>6, <1>7, <1>8, <1>9, <1>10 DEF QueueInv

LEMMA InitInv == QueueInit => QueueInv
<1> SUFFICES ASSUME QueueInit
             PROVE  QueueInv
  OBVIOUS
<1>1. QueueTypeOK
  BY InitType
<1>2. Frames(stack) = {} /\ Drains = {}
  BY DEF QueueInit, Frames, Drains
<1>3. OneDrain
  BY <1>2 DEF QueueInit, OneDrain, OnePopup, Distinct
<1>4. SigningIsHeld /\ ExecutorRunsOnce
  BY <1>2 DEF QueueInit, SigningIsHeld, ExecutorRunsOnce
<1>5. QueuedOnce /\ StrictFifo /\ NoLostRequest /\ PromiseTellsOutcome
  BY DEF QueueInit, QueuedOnce, StrictFifo, NoLostRequest, PromiseTellsOutcome
<1>. QED
  BY <1>1, <1>3, <1>4, <1>5 DEF QueueInv

LEMMA NextInv == QueueInv /\ [QueueNext]_queueVars => QueueInv'
<1> SUFFICES ASSUME QueueInv, [QueueNext]_queueVars
             PROVE  QueueInv'
  OBVIOUS
<1>1. QueueTypeOK'
  BY NextType DEF QueueInv
<1>2. CASE NextRound
  BY <1>1, <1>2, NextRoundInv
<1>3. CASE CancelRemaining
  BY <1>1, <1>3, CancelRemainingInv
<1>4. ASSUME NEW r \in Requests, Executor(r) \/ RejectAtOnce(r) \/ StartBuild(r)
      PROVE  QueueInv'
  BY <1>1, <1>4, ExecutorInv, RejectAtOnceInv, StartBuildInv
<1>5. ASSUME NEW r \in Requests, OpenPopup(r) \/ WalletSigns(r) \/ AwaitRejects(r)
      PROVE  QueueInv'
  BY <1>1, <1>5, OpenPopupInv, AnswerInv
<1>6. ASSUME NEW r \in Requests, Enqueue(r)
      PROVE  QueueInv'
  BY <1>1, <1>6, EnqueueInv
<1>7. CASE UNCHANGED queueVars
  BY <1>1, <1>7 DEF QueueInv, queueVars, OneDrain, OnePopup, Drains, Frames, Distinct, SigningIsHeld,
     ExecutorRunsOnce, QueuedOnce, StrictFifo, HadTurn, NoLostRequest, PromiseTellsOutcome
<1>. QED
  BY <1>2, <1>3, <1>4, <1>5, <1>6, <1>7 DEF QueueNext, Continue, Answer

-----------------------------------------------------------------------------
(* The safety properties of the queue, from the invariant. *)

(* The invariant holds however listeners nest calls of the queue. *)
THEOREM Invariance == QueueSpec => []QueueInv
<1>. QED
  BY InitInv, NextInv, PTL DEF QueueSpec

(* No two requests are ever with build() or with the wallet. *)
THEOREM Exclusion == QueueSpec => []OnePopup
<1>1. QueueInv => OnePopup
  BY DEF QueueInv, OneDrain
<1>. QED
  BY <1>1, Invariance, PTL

(* No request waits behind one that was enqueued after it. *)
THEOREM Fifo == QueueSpec => []StrictFifo
<1>1. QueueInv => StrictFifo
  BY DEF QueueInv
<1>. QED
  BY <1>1, Invariance, PTL

(* A queue at rest leaves no request behind. *)
THEOREM NoneLost == QueueSpec => []NoLostRequest
<1>1. QueueInv => NoLostRequest
  BY DEF QueueInv
<1>. QED
  BY <1>1, Invariance, PTL

(* A settled promise agrees with what became of its request. *)
THEOREM Truthful == QueueSpec => []PromiseTellsOutcome
<1>1. QueueInv => PromiseTellsOutcome
  BY DEF QueueInv
<1>. QED
  BY <1>1, Invariance, PTL

(* A round of drain()'s loop gives a waiting request its turn, the one the *)
(* serial signer would serve, or changes no status.                        *)
LEMMA RoundServes ==
  ASSUME QueueTypeOK, NEW STATE below, Round(below), items' = items,
         \A q \in Requests : status[q] # "signing"
  PROVE  /\ \A q \in Requests : status'[q] = status[q] \/ status[q] = "pending"
         /\ \A q \in Requests : status[q] = "pending" => status'[q] \in {"pending", "signing"}
         /\ (\E q \in Requests : Serial!Serve(q)) \/ UNCHANGED <<items, status>>
<1>1. CASE \E r \in Requests : IsNext(r) /\ status' = [status EXCEPT ![r] = "signing"]
  <2>1. PICK r \in Requests : IsNext(r) /\ status' = [status EXCEPT ![r] = "signing"]
    BY <1>1
  <2>2. status[r] = "pending"
    BY <2>1 DEF IsNext
  <2>3. Serial!Serve(r)
    BY <2>1 DEF IsNext, Serial!Serve
  <2>. QED
    BY <2>1, <2>2, <2>3 DEF QueueTypeOK
<1>2. CASE UNCHANGED status
  BY <1>2
<1>. QED
  BY <1>1, <1>2 DEF Round

(* The request that ends was signing, and only its handlers are called. *)
LEMMA FinishServes ==
  ASSUME QueueInv, NEW r \in Requests, RejectAtOnce(r) \/ WalletSigns(r) \/ AwaitRejects(r)
  PROVE  /\ status[r] = "signing"
         /\ \E outcome \in Outcomes : status' = [status EXCEPT ![r] = outcome]
         /\ \A q \in Requests : promise[q] # "open" => promise'[q] = promise[q]
         /\ promise'[r] # "open"
         /\ \A q \in Requests : q # r => promise'[q] = promise[q]
         /\ items' = items
<1>1. PICK outcome \in Outcomes, below \in {stack, Tail(stack)} : Finish(r, outcome, below)
  BY DEF RejectAtOnce, WalletSigns, AwaitRejects, Outcomes
<1>2. CASE RejectAtOnce(r)
  <2>1. BodyFrame(r) \in Frames(stack)
    BY <1>2, PopFacts DEF RejectAtOnce, QueueInv, QueueTypeOK
  <2>. QED
    BY <2>1, <1>1, FrameFacts DEF Drains, SigningIsHeld, QueueInv, QueueTypeOK, Finish, SettledAs
<1>3. CASE WalletSigns(r) \/ AwaitRejects(r)
  BY <1>1, <1>3 DEF WalletSigns, AwaitRejects, SigningIsHeld, QueueInv, QueueTypeOK, Finish, SettledAs
<1>. QED
  BY <1>2, <1>3

(* A loop that goes on has no request in its body. *)
LEMMA NoneSigning ==
  ASSUME QueueInv,
         \/ NextRound
         \/ ~running
  PROVE  \A q \in Requests : status[q] # "signing"
<1>1. CASE NextRound
  <2>1. LoopFrame \in Drains
    BY <1>1, PopFacts, FrameFacts DEF NextRound, QueueInv, QueueTypeOK, Drains
  <2>. QED
    BY <2>1, FrameFacts DEF QueueInv, OneDrain, SigningIsHeld
<1>2. CASE ~running
  BY <1>2 DEF QueueInv, OneDrain, SigningIsHeld
<1>. QED
  BY <1>1, <1>2

(* What one step does to the outcomes and the promises. *)
LEMMA StepIsFinal ==
  ASSUME QueueInv, [QueueNext]_queueVars, NEW r \in Requests
  PROVE  /\ status[r] \in Terminal => status'[r] = status[r]
         /\ promise[r] \in Settled => promise'[r] = promise[r]
<1> USE DEF Terminal, Outcomes, Settled
<1>0. status \in [Requests -> Status] /\ promise \in [Requests -> {"none", "open"} \cup Settled]
  BY DEF QueueInv, QueueTypeOK
<1>1. ASSUME NEW q \in Requests, Enqueue(q)
      PROVE  status'[r] = status[r] \/ status[r] = "none"
  BY <1>0, <1>1 DEF Enqueue
<1>2. CASE \E q \in Requests : Enqueue(q)
  BY <1>1, <1>2 DEF Enqueue
<1>3. CASE \E q \in Requests : Executor(q)
  <2>1. PICK q \in Requests : Executor(q)
    BY <1>3
  <2>2. promise[q] = "none" /\ promise' = [promise EXCEPT ![q] = "open"]
    BY <2>1, PopFacts, FrameFacts DEF Executor, QueueInv, QueueTypeOK, ExecutorRunsOnce
  <2>3. status'[r] = status[r] \/ status[r] = "pending"
    BY <2>1, NoneSigning, RoundServes DEF Executor, QueueInv
  <2>. QED
    BY <1>0, <2>2, <2>3
<1>4. CASE NextRound
  BY <1>4, NoneSigning, RoundServes DEF NextRound, QueueInv
<1>5. CASE \E q \in Requests : RejectAtOnce(q) \/ WalletSigns(q) \/ AwaitRejects(q)
  BY <1>0, <1>5, FinishServes
<1>6. CASE CancelRemaining
  BY <1>0, <1>6 DEF CancelRemaining, SettledAs
<1>7. CASE \E q \in Requests : StartBuild(q) \/ OpenPopup(q)
  BY <1>7 DEF StartBuild, OpenPopup
<1>8. CASE UNCHANGED queueVars
  BY <1>8 DEF queueVars
<1>. QED
  BY <1>2, <1>3, <1>4, <1>5, <1>6, <1>7, <1>8 DEF QueueNext, Continue, Answer

(* What became of a request, and of its promise, never changes again. *)
THEOREM Finality == QueueSpec => OutcomeIsFinal
<1>1. QueueInv /\ [QueueNext]_queueVars =>
        [\A r \in Requests :
           /\ status[r] \in Terminal => status'[r] = status[r]
           /\ promise[r] \in Settled => promise'[r] = promise[r]]_<<status, promise>>
  BY StepIsFinal
<1>. QED
  BY <1>1, Invariance, PTL DEF QueueSpec, OutcomeIsFinal

(* Every step of the queue is a step of the serial signer, or none. *)
LEMMA StepServes == QueueInv /\ [QueueNext]_queueVars => [Serial!Next]_(Serial!vars)
<1> SUFFICES ASSUME QueueInv, [QueueNext]_queueVars
             PROVE  Serial!Next \/ UNCHANGED <<items, status>>
  BY DEF Serial!vars
<1> USE DEF Serial!Next
<1>1. CASE \E q \in Requests : Enqueue(q)
  BY <1>1 DEF Enqueue, Serial!Submit
<1>2. CASE \E q \in Requests : Executor(q)
  BY <1>2, NoneSigning, RoundServes DEF Executor, QueueInv
<1>3. CASE NextRound
  BY <1>3, NoneSigning, RoundServes DEF NextRound, QueueInv
<1>4. CASE \E q \in Requests : RejectAtOnce(q) \/ WalletSigns(q) \/ AwaitRejects(q)
  BY <1>4, FinishServes DEF Serial!End, Outcomes
<1>5. CASE CancelRemaining
  BY <1>5 DEF CancelRemaining, Serial!CancelWaiting
<1>6. CASE \E q \in Requests : StartBuild(q) \/ OpenPopup(q)
  BY <1>6 DEF StartBuild, OpenPopup
<1>7. CASE UNCHANGED queueVars
  BY <1>7 DEF queueVars
<1>. QED
  BY <1>1, <1>2, <1>3, <1>4, <1>5, <1>6, <1>7 DEF QueueNext, Continue, Answer

(* The queue implements the serial signer, whatever its listeners do. *)
THEOREM Refinement == QueueSpec => ServesSerially
<1>1. QueueInit => Serial!Init
  BY DEF QueueInit, Serial!Init
<1>. QED
  BY <1>1, StepServes, Invariance, PTL DEF QueueSpec, ServesSerially, Serial!Spec

-----------------------------------------------------------------------------
(* Without nested calls every promise of an ended request is settled.      *)

PromptInv == ExecutorIsPrompt /\ EndedIsSettled

(* A stack of one frame, and what is left when it is resumed. *)
LEMMA PushAlone ==
  ASSUME NEW f \in Frame, NEW s \in Seq(Frame), Len(s) = 0
  PROVE  Frames(Push(f, s)) = {f} /\ Len(Push(f, s)) = 1
<1>1. <<f>> \in Seq(Frame) /\ Len(<<f>>) = 1
  OBVIOUS
<1>2. Len(Push(f, s)) = 1
  BY <1>1, ConcatProperties DEF Push
<1>3. Frames(s) = {}
  BY DEF Frames
<1>. QED
  BY <1>2, <1>3, PushFacts

LEMMA PopAlone ==
  ASSUME NEW s \in Seq(Frame), Len(s) <= 1, s # <<>>
  PROVE  Tail(s) \in Seq(Frame) /\ Len(Tail(s)) = 0 /\ Head(s) \in Frames(s)
<1>1. Len(s) \in Nat /\ Len(s) # 0
  BY EmptySeq
<1>2. Len(Tail(s)) = Len(s) - 1
  BY HeadTailProperties
<1>. QED
  BY <1>1, <1>2, PopFacts

(* The suspended executors and the depth after a round. *)
LEMMA RoundIsPrompt ==
  ASSUME NEW STATE below, below \in Seq(Frame), Len(below) = 0, Round(below)
  PROVE  /\ Len(stack') <= 1
         /\ \A q \in Requests : ExecutorFrame(q) \notin Frames(stack')
<1>1. Frames(below) = {}
  BY DEF Frames
<1>2. CASE \E r \in Requests : stack' = Push(BodyFrame(r), below)
  <2>1. PICK r \in Requests : stack' = Push(BodyFrame(r), below)
    BY <1>2
  <2>2. Frames(stack') = {BodyFrame(r)} /\ Len(stack') = 1
    BY <2>1, PushAlone, FrameFacts
  <2>. QED
    BY <2>2, FrameFacts
<1>3. CASE stack' = below
  BY <1>1, <1>3
<1>. QED
  BY <1>2, <1>3 DEF Round

LEMMA PromptNext ==
  ASSUME MaxDepth = 1, QueueInv, PromptInv, [QueueNext]_queueVars
  PROVE  PromptInv'
<1> USE DEF Terminal, Outcomes
<1>0. /\ status \in [Requests -> Status] /\ promise \in [Requests -> {"none", "open"} \cup Settled]
      /\ stack \in Seq(Frame)
      /\ Len(stack) <= 1
      /\ \A q \in Requests : ExecutorFrame(q) \in Frames(stack) => status[q] = "pending"
      /\ EndedIsSettled
  BY DEF QueueInv, QueueTypeOK, PromptInv, ExecutorIsPrompt
<1>1. ASSUME NEW r \in Requests, Enqueue(r)
      PROVE  PromptInv'
  <2>1. Len(stack) = 0
    BY <1>0, <1>1 DEF Enqueue, CanCall
  <2>2. Frames(stack') = {ExecutorFrame(r)} /\ Len(stack') = 1
    BY <1>0, <1>1, <2>1, PushAlone, FrameFacts DEF Enqueue
  <2>3. ExecutorIsPrompt'
    BY <1>0, <1>1, <2>2, FrameFacts DEF Enqueue, ExecutorIsPrompt
  <2>4. EndedIsSettled'
    BY <1>0, <1>1 DEF Enqueue, EndedIsSettled
  <2>. QED
    BY <2>3, <2>4 DEF PromptInv
<1>2. ASSUME NEW r \in Requests, Executor(r)
      PROVE  PromptInv'
  <2>1. Tail(stack) \in Seq(Frame) /\ Len(Tail(stack)) = 0 /\ ExecutorFrame(r) \in Frames(stack)
    BY <1>0, <1>2, PopAlone DEF Executor
  <2>2. status[r] = "pending" /\ promise' = [promise EXCEPT ![r] = "open"]
    BY <1>0, <1>2, <2>1 DEF Executor
  <2>3. CASE stack' = Tail(stack) /\ UNCHANGED status
    <3>1. ExecutorIsPrompt'
      BY <2>1, <2>3 DEF ExecutorIsPrompt, Frames
    <3>2. EndedIsSettled'
      BY <1>0, <2>2, <2>3 DEF EndedIsSettled
    <3>. QED
      BY <3>1, <3>2 DEF PromptInv
  <2>4. CASE ~running /\ Round(Tail(stack))
    <3>1. ExecutorIsPrompt'
      BY <2>1, <2>4, RoundIsPrompt DEF ExecutorIsPrompt
    <3>2. /\ \A q \in Requests : status'[q] = status[q] \/ status[q] = "pending"
          /\ \A q \in Requests : status[q] = "pending" => status'[q] \in {"pending", "signing"}
      BY <1>2, <2>4, NoneSigning, RoundServes DEF Executor, QueueInv
    <3>3. EndedIsSettled'
      BY <1>0, <2>2, <3>2 DEF EndedIsSettled
    <3>. QED
      BY <3>1, <3>3 DEF PromptInv
  <2>. QED
    BY <1>2, <2>3, <2>4 DEF Executor
<1>3. ASSUME NEW r \in Requests, RejectAtOnce(r) \/ WalletSigns(r) \/ AwaitRejects(r)
      PROVE  PromptInv'
  <2>1. \E below \in Seq(Frame) : Len(below) = 0 /\ stack' = Push(LoopFrame, below)
    <3>1. CASE RejectAtOnce(r)
      BY <1>0, <3>1, PopAlone DEF RejectAtOnce, Finish
    <3>2. CASE WalletSigns(r) \/ AwaitRejects(r)
      <4>1. Len(stack) = 0
        BY <3>2 DEF WalletSigns, AwaitRejects
      <4>. QED
        BY <1>0, <3>2, <4>1 DEF WalletSigns, AwaitRejects, Finish
    <3>. QED
      BY <1>3, <3>1, <3>2
  <2>2. Frames(stack') = {LoopFrame} /\ Len(stack') = 1
    BY <2>1, PushAlone, FrameFacts
  <2>3. ExecutorIsPrompt'
    BY <2>2, FrameFacts DEF ExecutorIsPrompt
  <2>4. PICK outcome \in Outcomes : status' = [status EXCEPT ![r] = outcome]
    BY <1>3, FinishServes
  <2>5. EndedIsSettled'
    BY <1>0, <1>3, <2>4, FinishServes DEF EndedIsSettled
  <2>. QED
    BY <2>3, <2>5 DEF PromptInv
<1>4. CASE NextRound
  <2>1. Tail(stack) \in Seq(Frame) /\ Len(Tail(stack)) = 0
    BY <1>0, <1>4, PopAlone DEF NextRound
  <2>2. ExecutorIsPrompt'
    BY <1>4, <2>1, RoundIsPrompt DEF NextRound, ExecutorIsPrompt
  <2>3. /\ \A q \in Requests : status'[q] = status[q] \/ status[q] = "pending"
        /\ \A q \in Requests : status[q] = "pending" => status'[q] \in {"pending", "signing"}
    BY <1>4, NoneSigning, RoundServes DEF NextRound, QueueInv
  <2>4. EndedIsSettled'
    BY <1>0, <1>4, <2>3 DEF EndedIsSettled, NextRound
  <2>. QED
    BY <2>2, <2>4 DEF PromptInv
<1>5. CASE CancelRemaining
  <2>1. Len(stack) = 0
    BY <1>0, <1>5 DEF CancelRemaining, CanCall
  <2>2. ExecutorIsPrompt'
    BY <1>5, <2>1 DEF CancelRemaining, ExecutorIsPrompt, Frames
  <2>3. EndedIsSettled'
    BY <1>0, <1>5 DEF CancelRemaining, EndedIsSettled, SettledAs
  <2>. QED
    BY <2>2, <2>3 DEF PromptInv
<1>6. ASSUME NEW r \in Requests, StartBuild(r)
      PROVE  PromptInv'
  <2>1. Len(stack') = 0
    BY <1>0, <1>6, PopAlone DEF StartBuild
  <2>. QED
    BY <1>0, <1>6, <2>1 DEF StartBuild, PromptInv, ExecutorIsPrompt, EndedIsSettled, Frames
<1>7. ASSUME NEW r \in Requests, OpenPopup(r)
      PROVE  PromptInv'
  BY <1>0, <1>7 DEF OpenPopup, PromptInv, ExecutorIsPrompt, EndedIsSettled, Frames
<1>8. CASE UNCHANGED queueVars
  BY <1>0, <1>8 DEF queueVars, PromptInv, ExecutorIsPrompt, EndedIsSettled, Frames
<1>. QED
  BY <1>1, <1>2, <1>3, <1>4, <1>5, <1>6, <1>7, <1>8 DEF QueueNext, Continue, Answer

(* When no listener calls the queue, enqueue() keeps its word: the promise *)
(* of a request that has ended is settled.                                 *)
THEOREM Settlement == MaxDepth = 1 => (QueueSpec => []EndedIsSettled)
<1> SUFFICES ASSUME MaxDepth = 1
             PROVE  QueueSpec => []EndedIsSettled
  OBVIOUS
<1>1. QueueInit => PromptInv
  BY DEF QueueInit, PromptInv, ExecutorIsPrompt, EndedIsSettled, Frames
<1>2. QueueInv /\ PromptInv /\ [QueueNext]_queueVars => PromptInv'
  BY PromptNext
<1>3. PromptInv => EndedIsSettled
  BY DEF PromptInv
<1>. QED
  BY <1>1, <1>2, <1>3, Invariance, PTL DEF QueueSpec
=============================================================================
