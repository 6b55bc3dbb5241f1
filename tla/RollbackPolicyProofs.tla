------------------------ MODULE RollbackPolicyProofs ------------------------
(* Proofs about RollbackPolicy for all builds, thresholds and clocks. *)
EXTENDS RollbackPolicy, TLAPS

-----------------------------------------------------------------------------
(* The inductive invariant *)

Latched(s) ==
  /\ s.consecutiveRollbacks <= MaxConsecutive + 1
  /\ s.consecutiveRollbacks > MaxConsecutive => s.breakerOpen

\* What the automation remembers is the same in both states.
SameMemory(s, t) ==
  /\ s.breakerOpen = t.breakerOpen
  /\ s.consecutiveRollbacks = t.consecutiveRollbacks
  /\ s.lastRollbackAt = t.lastRollbackAt
  /\ s.manualHoldUntil = t.manualHoldUntil

\* What an automatic rollback at s.lastRollbackAt found in the state t it judged.
Allowed(t, s) ==
  /\ ~t.breakerOpen
  /\ t.manualHoldUntil <= s.lastRollbackAt
  /\ t.lastRollbackAt # Never => s.lastRollbackAt - t.lastRollbackAt >= Cooldown

\* The run works on the state of the branch, until it judged it.
RunFollowsBranch ==
  /\ job.phase = "evaluating" => SameMemory(job.work, branch)
  /\ job.phase = "decided" =>
       /\ branch.breakerOpen /\ ~job.work.breakerOpen => job.mode \in {"force", "never"}
       /\ job.verdict = "degraded" /\ job.mode = "auto" => Allowed(branch, job.work)
  /\ job.phase = "rolling" => branch = job.work

BothLatched == Latched(branch) /\ Latched(job.work)

PolicyInv == TypeOK /\ RunFollowsBranch /\ BothLatched

\* Before the first promotion there is nothing to restore.
NothingBefore ==
  /\ serving = NoRef => /\ pending.ref = NoRef
                        /\ branch.currentRef = NoRef /\ job.work.currentRef = NoRef
                        /\ branch.lastKnownGoodRef = NoRef
                        /\ job.work.lastKnownGoodRef = NoRef
  /\ pending.ref # NoRef /\ pending.previous = NoRef =>
       branch.currentRef = NoRef /\ job.work.currentRef = NoRef
  /\ NoRef \notin withdrawn

\* The promotion that waits is in production as long as a run is in progress,
\* and the build it names as the one before is not withdrawn.
WaitingServes ==
  pending.ref # NoRef =>
    /\ job.phase # "idle" => serving = pending.ref
    /\ pending.previous # pending.ref
    /\ pending.previous \notin withdrawn

TargetsStand ==
  /\ serving \notin withdrawn
  /\ branch.lastKnownGoodRef \notin withdrawn
  /\ job.work.lastKnownGoodRef \notin withdrawn

TargetInv == TypeOK /\ RunFollowsBranch /\ NothingBefore /\ WaitingServes /\ TargetsStand

-----------------------------------------------------------------------------
(* The operators *)

LEMMA Empty == emptyState \in DeployState /\ Idle \in Jobs /\ NoRun.ref = NoRef
BY ThresholdAssumption DEF emptyState, DeployState, Stamps, Never, Idle, Jobs, Modes,
  Verdicts, NoRun, Trigger

\* Recording a promotion changes what is deployed and what to restore, and
\* leaves the memory of the automation alone.
LEMMA Recorded ==
  ASSUME NEW s \in DeployState, NEW ref \in Refs, NEW previous \in Refs \union {NoRef},
         NEW at \in Nat
  PROVE  LET t == recordPromotion(s, ref, previous, at)
         IN /\ t \in DeployState
            /\ SameMemory(t, s)
            /\ t.currentRef = ref
            /\ t.lastKnownGoodRef \in {previous, s.currentRef, s.lastKnownGoodRef}
            /\ previous # NoRef /\ previous # ref => t.lastKnownGoodRef = previous
            /\ previous = NoRef /\ s.currentRef = NoRef =>
                 t.lastKnownGoodRef = s.lastKnownGoodRef
BY RefAssumption DEF recordPromotion, DeployState, Stamps, SameMemory

LEMMA Decided ==
  ASSUME NEW s, NEW signals, NEW c, NEW mode
  PROVE  decide(s, signals, c, mode) \in Verdicts
BY DEF decide, Guards, evaluateSignals, Verdicts

\* The automation rolls back only when none of its guards hold it.
LEMMA Unguarded ==
  ASSUME NEW s \in DeployState, NEW signals, NEW c \in Nat,
         decide(s, signals, c, "auto") = "degraded"
  PROVE  /\ ~(c < s.manualHoldUntil)
         /\ ~s.breakerOpen
         /\ s.lastRollbackAt # Never => c - s.lastRollbackAt >= Cooldown
<1>1. Guards(s, c) = "none"
  BY DEF decide, Guards
<1>2. ~(s.lastRollbackAt # Never /\ c - s.lastRollbackAt < Cooldown)
  BY <1>1 DEF Guards
<1>3. s.lastRollbackAt \in Int
  BY DEF DeployState, Stamps, Never
<1> QED
  BY <1>1, <1>2, <1>3, ThresholdAssumption DEF Guards

LEMMA Updated ==
  ASSUME NEW s \in DeployState, NEW n \in Nat, NEW open \in BOOLEAN,
         NEW held \in Stamps, NEW rolled \in Stamps
  PROVE  [s EXCEPT !.consecutiveRollbacks = n, !.breakerOpen = open,
                   !.manualHoldUntil = held, !.lastRollbackAt = rolled] \in DeployState
BY DEF DeployState

LEMMA Applied ==
  ASSUME NEW s \in DeployState, NEW verdict \in Verdicts, NEW c \in Nat, NEW mode \in Modes
  PROVE  LET t == applyDecision(s, verdict, c, mode)
         IN /\ t \in DeployState
            /\ t.currentRef = s.currentRef
            /\ t.lastKnownGoodRef = s.lastKnownGoodRef
            /\ s.breakerOpen /\ ~t.breakerOpen /\ mode = "auto" => verdict = "degraded"
            /\ verdict = "degraded" => t.lastRollbackAt = c
<1> DEFINE t == applyDecision(s, verdict, c, mode)
           n == CountAfter(s, verdict, mode)
           open == OpenAfter(s, verdict, mode)
           held == IF verdict = "operator-never" THEN c + Cooldown ELSE s.manualHoldUntil
           rolled == IF verdict = "degraded" THEN c ELSE s.lastRollbackAt
<1>1. n \in Nat
  BY DEF CountAfter, DeployState
<1>2. open \in BOOLEAN
  <2> DEFINE past == s.consecutiveRollbacks + 1 > MaxConsecutive
             latched == s.breakerOpen \/ verdict = "latch"
  <2>1. past \in BOOLEAN /\ latched \in BOOLEAN
    BY ThresholdAssumption DEF DeployState
  <2> HIDE DEF past, latched
  <2>2. (IF TakesOver(verdict, mode) THEN FALSE
         ELSE IF verdict = "degraded" THEN past ELSE latched) \in BOOLEAN
    BY <2>1, Zenon
  <2> QED
    BY <2>2, Zenon DEF past, latched, OpenAfter
<1>3. held \in Stamps /\ rolled \in Stamps
  BY ThresholdAssumption DEF DeployState, Stamps
<1>4. t.currentRef = s.currentRef /\ t.lastKnownGoodRef = s.lastKnownGoodRef
  BY DEF applyDecision, DeployState
<1>5. t \in DeployState
  <2>1. t = [s EXCEPT !.consecutiveRollbacks = n, !.breakerOpen = open,
                      !.manualHoldUntil = held, !.lastRollbackAt = rolled]
    BY Zenon DEF applyDecision
  <2> HIDE DEF t, n, open, held, rolled
  <2> QED
    BY <1>1, <1>2, <1>3, <2>1, Updated
<1>6. s.breakerOpen /\ ~t.breakerOpen /\ mode = "auto" => verdict = "degraded"
  BY DEF applyDecision, DeployState, OpenAfter, TakesOver
<1>7. verdict = "degraded" => t.lastRollbackAt = c
  BY DEF applyDecision, DeployState
<1> QED
  BY <1>4, <1>5, <1>6, <1>7

\* A judgement keeps the count below the latch.
LEMMA AppliedLatched ==
  ASSUME NEW s \in DeployState, NEW signals, NEW c \in Nat, NEW mode \in Modes, Latched(s)
  PROVE  Latched(applyDecision(s, decide(s, signals, c, mode), c, mode))
<1> DEFINE verdict == decide(s, signals, c, mode)
           t == applyDecision(s, verdict, c, mode)
<1>1. s.consecutiveRollbacks \in Nat /\ s.breakerOpen \in BOOLEAN
  BY DEF DeployState
<1>2. CASE TakesOver(verdict, mode)
  <2>1. t.consecutiveRollbacks = 0
    BY <1>2 DEF applyDecision, DeployState, CountAfter, OpenAfter
  <2> QED
    BY <2>1, ThresholdAssumption DEF Latched
<1>3. CASE ~TakesOver(verdict, mode) /\ verdict = "degraded"
  <2>1. mode = "auto"
    BY <1>3 DEF TakesOver, CarriesMode, Modes
  <2>2. ~s.breakerOpen
    BY <1>3, <2>1, Unguarded
  <2>3. s.consecutiveRollbacks <= MaxConsecutive
    BY <1>1, <2>2, ThresholdAssumption DEF Latched
  <2>4. /\ t.consecutiveRollbacks = s.consecutiveRollbacks + 1
        /\ t.breakerOpen <=> s.consecutiveRollbacks + 1 > MaxConsecutive
    BY <1>3 DEF applyDecision, DeployState, CountAfter, OpenAfter
  <2> HIDE DEF t
  <2>5. Latched(t)
    BY <1>1, <2>3, <2>4, ThresholdAssumption DEF Latched
  <2> QED
    BY <2>5 DEF t
<1>4. CASE ~TakesOver(verdict, mode) /\ verdict # "degraded"
  <2>1. /\ t.consecutiveRollbacks \in {0, s.consecutiveRollbacks}
        /\ s.breakerOpen => t.breakerOpen
    BY <1>4 DEF applyDecision, DeployState, CountAfter, OpenAfter
  <2> HIDE DEF t
  <2>2. Latched(t)
    BY <1>1, <2>1, ThresholdAssumption DEF Latched
  <2> QED
    BY <2>2 DEF t
<1> QED
  BY <1>2, <1>3, <1>4

-----------------------------------------------------------------------------
(* Type correctness *)

LEMMA ClockType == ASSUME TypeOK, NEW c \in Clock PROVE c \in Nat
BY ClockAssumption DEF TypeOK, Clock

LEMMA TypeStep == TypeOK /\ [Next]_vars => TypeOK'
<1> SUFFICES ASSUME TypeOK, [Next]_vars PROVE TypeOK'
  OBVIOUS
<1>1. CASE UNCHANGED vars
  BY <1>1 DEF vars, TypeOK
<1>2. CASE Tick
  BY <1>2, ClockAssumption DEF Tick, TypeOK
<1>3. ASSUME NEW r \in Refs, NEW says \in SaysPrevious, Deploy(r, says)
      PROVE  TypeOK'
  BY <1>3 DEF Deploy, TypeOK, Trigger, Runs, Modes
<1>4. ASSUME NEW mode \in Modes, Request(mode)
      PROVE  TypeOK'
  BY <1>4 DEF Request, TypeOK, Trigger, Runs
<1>5. ASSUME NEW c \in Clock, Start(c)
      PROVE  TypeOK'
  <2>1. pending \in Runs
    BY <1>5 DEF Start, TypeOK
  <2>2. c \in Nat
    BY ClockType
  <2>3. CASE pending.ref = NoRef
    BY <1>5, <2>1, <2>3 DEF Start, TypeOK, Jobs, Runs, Verdicts
  <2>4. CASE pending.ref # NoRef
    <3>1. recordPromotion(branch, pending.ref, pending.previous, c) \in DeployState
      BY <2>1, <2>2, <2>4, Recorded DEF TypeOK, Runs
    <3> QED
      BY <1>5, <2>1, <2>4, <3>1 DEF Start, TypeOK, Jobs, Runs, Verdicts
  <2> QED
    BY <2>3, <2>4
<1>6. ASSUME NEW signals \in Signals \union {Unavailable}, NEW c \in Clock,
             Evaluate(signals, c)
      PROVE  TypeOK'
  <2> DEFINE verdict == decide(job.work, signals, c, job.mode)
  <2>1. verdict \in Verdicts /\ c \in Nat
    BY Decided, ClockType
  <2>2. applyDecision(job.work, verdict, c, job.mode) \in DeployState
    BY <2>1, Applied DEF TypeOK, Jobs
  <2> HIDE DEF verdict
  <2>3. job' = [job EXCEPT !.phase = "decided", !.verdict = verdict,
                           !.work = applyDecision(job.work, verdict, c, job.mode)]
    BY <1>6 DEF Evaluate, verdict
  <2>4. job' \in Jobs
    BY <2>1, <2>2, <2>3 DEF TypeOK, Jobs
  <2> QED
    BY <1>6, <2>4 DEF Evaluate, TypeOK
<1>7. CASE SignalsFail
  BY <1>7, Empty DEF SignalsFail, TypeOK
<1>8. CASE Push
  <2>1. job' \in Jobs /\ branch' \in DeployState
    BY <1>8, Empty DEF Push, TypeOK, Jobs
  <2> QED
    BY <1>8, <2>1 DEF Push, TypeOK
<1>9. CASE PushFails
  BY <1>9, Empty DEF PushFails, TypeOK
<1>10. CASE Restore
  <2>1. job.work.lastKnownGoodRef \in Refs
    BY <1>10 DEF Restore, TypeOK, Jobs, DeployState
  <2> QED
    BY <1>10, <2>1, Empty DEF Restore, TypeOK
<1>11. CASE RestoreFails
  BY <1>11, Empty DEF RestoreFails, TypeOK
<1> QED
  BY <1>1, <1>2, <1>3, <1>4, <1>5, <1>6, <1>7, <1>8, <1>9, <1>10, <1>11 DEF Next

LEMMA TypeInit == Init => TypeOK
BY Empty, ClockAssumption DEF Init, TypeOK

\* Type correctness of the workflow and of the deploy state.
THEOREM TypeCorrect == Spec => []TypeOK
BY TypeInit, TypeStep, PTL DEF Spec

-----------------------------------------------------------------------------
(* The guards of the automation *)

LEMMA PolicyInit == Init => PolicyInv
<1> SUFFICES ASSUME Init PROVE RunFollowsBranch /\ BothLatched
  BY TypeInit DEF PolicyInv
<1> QED
  BY ThresholdAssumption DEF Init, RunFollowsBranch, BothLatched, Latched, Idle, emptyState

LEMMA IdleStep ==
  ASSUME BothLatched, job' = Idle, branch' = branch
  PROVE  RunFollowsBranch' /\ BothLatched'
BY ThresholdAssumption DEF BothLatched, RunFollowsBranch, Idle, emptyState, Latched

LEMMA PolicyStep == PolicyInv /\ [Next]_vars => PolicyInv'
<1> SUFFICES ASSUME PolicyInv, [Next]_vars PROVE RunFollowsBranch' /\ BothLatched'
  BY TypeStep DEF PolicyInv
<1> USE DEF PolicyInv
<1>1. CASE UNCHANGED <<branch, job>>
  BY <1>1 DEF RunFollowsBranch, BothLatched
<1>2. ASSUME NEW c \in Clock, Start(c)
      PROVE  RunFollowsBranch' /\ BothLatched'
  <2>1. pending \in Runs /\ c \in Nat
    BY <1>2, ClockType DEF Start, TypeOK
  <2>2. SameMemory(job'.work, branch)
    <3>1. CASE pending.ref = NoRef
      BY <1>2, <3>1 DEF Start, SameMemory
    <3>2. CASE pending.ref # NoRef
      <4>1. SameMemory(recordPromotion(branch, pending.ref, pending.previous, c), branch)
        BY <2>1, <3>2, Recorded DEF TypeOK, Runs
      <4> QED
        BY <1>2, <3>2, <4>1 DEF Start
    <3> QED
      BY <3>1, <3>2
  <2>3. job'.phase = "evaluating" /\ branch' = branch
    BY <1>2 DEF Start
  <2> QED
    BY <2>2, <2>3 DEF RunFollowsBranch, BothLatched, Latched, SameMemory
<1>3. ASSUME NEW signals \in Signals \union {Unavailable}, NEW c \in Clock,
             Evaluate(signals, c)
      PROVE  RunFollowsBranch' /\ BothLatched'
  <2> DEFINE verdict == decide(job.work, signals, c, job.mode)
             result == applyDecision(job.work, verdict, c, job.mode)
  <2>1. /\ verdict \in Verdicts /\ c \in Nat
        /\ job.work \in DeployState /\ job.mode \in Modes /\ job.phase = "evaluating"
    BY <1>3, Decided, ClockType DEF Evaluate, TypeOK, Jobs
  <2>2. /\ job'.phase = "decided" /\ job'.verdict = verdict /\ job'.mode = job.mode
        /\ job'.work = result /\ branch' = branch
    BY <1>3 DEF Evaluate, TypeOK, Jobs
  <2>3. Latched(result)
    BY <2>1, AppliedLatched DEF BothLatched
  <2>4. /\ job.work.breakerOpen /\ ~result.breakerOpen /\ job.mode = "auto"
             => verdict = "degraded"
        /\ verdict = "degraded" => result.lastRollbackAt = c
    BY <2>1, Applied
  <2>5. verdict = "degraded" /\ job.mode = "auto" =>
          /\ ~(c < job.work.manualHoldUntil)
          /\ ~job.work.breakerOpen
          /\ job.work.lastRollbackAt # Never => c - job.work.lastRollbackAt >= Cooldown
    BY <2>1, Unguarded
  <2>6. SameMemory(job.work, branch)
    BY <2>1 DEF RunFollowsBranch
  <2>7. job.work.manualHoldUntil \in Int
    BY <2>1 DEF DeployState, Stamps, Never
  <2> HIDE DEF verdict, result
  <2>8. verdict = "degraded" /\ job.mode = "auto" => Allowed(branch, result)
    BY <2>1, <2>4, <2>5, <2>6, <2>7 DEF Allowed, SameMemory
  <2>9. branch.breakerOpen /\ ~result.breakerOpen => job.mode \in {"force", "never"}
    BY <2>1, <2>4, <2>5, <2>6 DEF SameMemory, Modes
  <2> QED
    BY <2>2, <2>3, <2>8, <2>9 DEF RunFollowsBranch, BothLatched
<1>4. CASE Push
  <2>1. branch' = job.work
    BY <1>4 DEF Push
  <2>2. CASE job.verdict = "degraded"
    <3>1. job'.phase = "rolling" /\ job'.work = job.work
      BY <1>4, <2>2 DEF Push, TypeOK, Jobs
    <3> QED
      BY <2>1, <3>1 DEF RunFollowsBranch, BothLatched
  <2>3. CASE job.verdict # "degraded"
    BY <1>4, <2>1, <2>3, ThresholdAssumption
      DEF Push, Idle, emptyState, RunFollowsBranch, BothLatched, Latched
  <2> QED
    BY <2>2, <2>3
<1>5. CASE SignalsFail \/ PushFails \/ Restore \/ RestoreFails
  <2>1. job' = Idle /\ branch' = branch
    BY <1>5 DEF SignalsFail, PushFails, Restore, RestoreFails
  <2> QED
    BY <2>1, IdleStep
<1>6. CASE Next
  BY <1>1, <1>2, <1>3, <1>4, <1>5, <1>6 DEF Next, Tick, Deploy, Request
<1> QED
  BY <1>1, <1>6 DEF vars

THEOREM PolicyHolds == Spec => []PolicyInv
BY PolicyInit, PolicyStep, PTL DEF Spec

\* Past the maximum of rollbacks in a row the breaker is open, for every maximum.
THEOREM Latches == Spec => []BreakerLatches
<1>1. PolicyInv => BreakerLatches
  BY DEF PolicyInv, BothLatched, Latched, BreakerLatches
<1> QED
  BY <1>1, PolicyHolds, PTL

\* Only the push of an operator's run closes an open breaker.
THEOREM OperatorOnly == Spec => OnlyAnOperatorResets
<1>1. PolicyInv /\ [Next]_vars =>
        [branch.breakerOpen /\ ~branch'.breakerOpen => job.mode \in {"force", "never"}]_vars
  <2> SUFFICES ASSUME PolicyInv, [Next]_vars, branch.breakerOpen, ~branch'.breakerOpen
               PROVE  job.mode \in {"force", "never"}
    OBVIOUS
  <2>1. Push
    BY DEF Next, Tick, Deploy, Request, Start, Evaluate, SignalsFail, PushFails, Restore,
           RestoreFails, vars
  <2> QED
    BY <2>1 DEF PolicyInv, RunFollowsBranch, Push
<1> QED
  BY <1>1, PolicyHolds, PTL DEF Spec, OnlyAnOperatorResets

\* The automation never moves production against the breaker, an operator's hold
\* or the cooldown, for every length of each.
THEOREM NeverFlaps == Spec => NoFlapping
<1>1. PolicyInv /\ [Next]_vars =>
        [(job.phase = "decided" /\ job'.phase = "rolling" /\ job.mode = "auto") =>
           /\ ~branch.breakerOpen
           /\ branch.manualHoldUntil <= job.work.lastRollbackAt
           /\ branch.lastRollbackAt # Never =>
                job.work.lastRollbackAt - branch.lastRollbackAt >= Cooldown]_vars
  <2> SUFFICES ASSUME PolicyInv, [Next]_vars, job.phase = "decided",
                      job'.phase = "rolling", job.mode = "auto"
               PROVE  Allowed(branch, job.work)
    BY DEF Allowed
  <2>1. CASE Push
    <3>1. job.verdict = "degraded"
      BY <2>1 DEF Push, Idle
    <3> QED
      BY <3>1 DEF PolicyInv, RunFollowsBranch
  <2>2. CASE ~Push
    BY <2>2 DEF Next, Tick, Deploy, Request, Start, Evaluate, SignalsFail, PushFails,
                Restore, RestoreFails, vars, Idle
  <2> QED
    BY <2>1, <2>2
<1> QED
  BY <1>1, PolicyHolds, PTL DEF Spec, NoFlapping

\* Every build that leaves production by a rollback leaves it on record.
THEOREM OnRecord == Spec => MovesAreOnRecord
<1>1. PolicyInv /\ [Next]_vars =>
        [withdrawn' \ withdrawn # {} =>
           /\ branch.lastRollbackAt = job.work.lastRollbackAt
           /\ branch.lastKnownGoodRef = serving']_vars
  <2> SUFFICES ASSUME PolicyInv, [Next]_vars, withdrawn' \ withdrawn # {}
               PROVE  /\ branch.lastRollbackAt = job.work.lastRollbackAt
                      /\ branch.lastKnownGoodRef = serving'
    OBVIOUS
  <2>1. Restore
    BY DEF Next, Tick, Deploy, Request, Start, Evaluate, SignalsFail, Push, PushFails,
           RestoreFails, vars
  <2> QED
    BY <2>1 DEF PolicyInv, RunFollowsBranch, Restore
<1> QED
  BY <1>1, PolicyHolds, PTL DEF Spec, MovesAreOnRecord

-----------------------------------------------------------------------------
(* The target of a rollback *)

LEMMA TargetInit == Init => TargetInv
<1> SUFFICES ASSUME Init PROVE TargetInv
  OBVIOUS
<1>1. TypeOK
  BY TypeInit
<1> QED
  BY <1>1 DEF Init, TargetInv, RunFollowsBranch, NothingBefore, WaitingServes, TargetsStand,
    Idle, emptyState, NoRun, Trigger

\* With the run over, what holds of the branch is all that is left to hold.
LEMMA TargetIdle ==
  ASSUME TargetInv, job' = Idle,
         UNCHANGED <<serving, pending, branch>>,
         withdrawn' = withdrawn
  PROVE  NothingBefore' /\ WaitingServes' /\ TargetsStand'
BY DEF TargetInv, NothingBefore, WaitingServes, TargetsStand, Idle, emptyState

LEMMA TargetStep ==
  ASSUME SaysPrevious \subseteq {TRUE}, TargetInv, RunFollowsBranch', [Next]_vars
  PROVE  TargetInv'
<1> SUFFICES NothingBefore' /\ WaitingServes' /\ TargetsStand'
  BY TypeStep DEF TargetInv
<1> USE DEF TargetInv
<1>1. CASE UNCHANGED <<serving, withdrawn, pending, branch, job>>
  BY <1>1 DEF NothingBefore, WaitingServes, TargetsStand
<1>2. ASSUME NEW r \in Refs, NEW says \in SaysPrevious, Deploy(r, says)
      PROVE  NothingBefore' /\ WaitingServes' /\ TargetsStand'
  <2>1. /\ r # serving /\ serving' = r /\ withdrawn' = withdrawn \ {r}
        /\ pending'.ref = r /\ pending'.previous = serving
        /\ branch' = branch /\ job' = job /\ r # NoRef
    BY <1>2, RefAssumption DEF Deploy, Trigger
  <2> QED
    BY <2>1 DEF NothingBefore, WaitingServes, TargetsStand
<1>3. ASSUME NEW mode \in Modes, Request(mode)
      PROVE  NothingBefore' /\ WaitingServes' /\ TargetsStand'
  BY <1>3 DEF Request, Trigger, NothingBefore, WaitingServes, TargetsStand
<1>4. ASSUME NEW c \in Clock, Start(c)
      PROVE  NothingBefore' /\ WaitingServes' /\ TargetsStand'
  <2>1. /\ pending \in Runs /\ c \in Nat /\ branch \in DeployState
        /\ pending'.ref = NoRef
        /\ UNCHANGED <<serving, withdrawn, branch>>
    BY <1>4, ClockType DEF Start, TypeOK, NoRun, Trigger
  <2>2. CASE pending.ref = NoRef
    <3>1. job'.work = branch
      BY <1>4, <2>2 DEF Start
    <3> QED
      BY <2>1, <3>1 DEF NothingBefore, WaitingServes, TargetsStand
  <2>3. CASE pending.ref # NoRef
    <3> DEFINE t == recordPromotion(branch, pending.ref, pending.previous, c)
    <3>1. job'.work = t
      BY <1>4, <2>3 DEF Start
    <3>2. /\ pending.previous # NoRef /\ pending.previous # pending.ref =>
               t.lastKnownGoodRef = pending.previous
          /\ pending.previous = NoRef /\ branch.currentRef = NoRef =>
               t.lastKnownGoodRef = branch.lastKnownGoodRef
      BY <2>1, <2>3, Recorded DEF Runs
    <3> HIDE DEF t
    <3>3. t.lastKnownGoodRef \notin withdrawn
      BY <2>3, <3>2 DEF NothingBefore, WaitingServes, TargetsStand
    <3>4. serving # NoRef
      BY <2>3 DEF NothingBefore
    <3> QED
      BY <2>1, <3>1, <3>3, <3>4 DEF NothingBefore, WaitingServes, TargetsStand
  <2> QED
    BY <2>2, <2>3
<1>5. ASSUME NEW signals \in Signals \union {Unavailable}, NEW c \in Clock,
             Evaluate(signals, c)
      PROVE  NothingBefore' /\ WaitingServes' /\ TargetsStand'
  <2> DEFINE verdict == decide(job.work, signals, c, job.mode)
  <2>1. /\ verdict \in Verdicts /\ c \in Nat
        /\ job.work \in DeployState /\ job.mode \in Modes
    BY <1>5, Decided, ClockType DEF TypeOK, Jobs
  <2>2. /\ applyDecision(job.work, verdict, c, job.mode).currentRef = job.work.currentRef
        /\ applyDecision(job.work, verdict, c, job.mode).lastKnownGoodRef
             = job.work.lastKnownGoodRef
    BY <2>1, Applied
  <2>3. /\ job'.work.currentRef = job.work.currentRef
        /\ job'.work.lastKnownGoodRef = job.work.lastKnownGoodRef
        /\ job.phase # "idle"
        /\ UNCHANGED <<serving, withdrawn, pending, branch>>
    BY <1>5, <2>2 DEF Evaluate, TypeOK, Jobs
  <2> QED
    BY <2>3 DEF NothingBefore, WaitingServes, TargetsStand
<1>6. CASE SignalsFail \/ PushFails \/ RestoreFails
  <2>1. job' = Idle /\ UNCHANGED <<serving, withdrawn, pending, branch>>
    BY <1>6 DEF SignalsFail, PushFails, RestoreFails
  <2> QED
    BY <2>1, TargetIdle DEF NothingBefore
<1>7. CASE Push
  <2>1. /\ branch' = job.work /\ job.phase = "decided"
        /\ UNCHANGED <<serving, withdrawn, pending>>
    BY <1>7 DEF Push
  <2>2. CASE job' = Idle
    BY <2>1, <2>2 DEF NothingBefore, WaitingServes, TargetsStand, Idle, emptyState
  <2>3. CASE job' = [job EXCEPT !.phase = "rolling"]
    <3>1. job'.work = job.work
      BY <2>3 DEF TypeOK, Jobs
    <3> QED
      BY <2>1, <3>1 DEF NothingBefore, WaitingServes, TargetsStand
  <2> QED
    BY <1>7, <2>2, <2>3 DEF Push
<1>8. CASE Restore
  <2> DEFINE target == job.work.lastKnownGoodRef
  <2>1. /\ job.phase = "rolling" /\ target # NoRef
        /\ serving' = target
        /\ withdrawn' = (withdrawn \union {serving}) \ {target}
        /\ job' = Idle /\ UNCHANGED <<pending, branch>>
    BY <1>8 DEF Restore
  <2>2. branch.lastKnownGoodRef = target
    BY <2>1 DEF RunFollowsBranch
  <2>3. serving # NoRef
    BY <2>1 DEF NothingBefore
  <2>4. pending.ref # NoRef =>
          serving = pending.ref /\ pending.previous # pending.ref
            /\ pending.previous \notin withdrawn
    BY <2>1 DEF WaitingServes
  <2> HIDE DEF target
  <2> QED
    BY <2>1, <2>2, <2>3, <2>4 DEF NothingBefore, WaitingServes, TargetsStand, Idle, emptyState
<1>9. CASE Next
  BY <1>1, <1>2, <1>3, <1>4, <1>5, <1>6, <1>7, <1>8, <1>9 DEF Next, Tick
<1> QED
  BY <1>1, <1>9 DEF vars

\* A pipeline that always names the build it replaced never makes a withdrawn
\* build the target of the next rollback.
THEOREM TargetServed == SaysPrevious \subseteq {TRUE} => (Spec => []TargetNotWithdrawn)
<1> SUFFICES ASSUME SaysPrevious \subseteq {TRUE} PROVE Spec => []TargetNotWithdrawn
  OBVIOUS
<1>1. TargetInv /\ PolicyInv' /\ [Next]_vars => TargetInv'
  BY TargetStep DEF PolicyInv
<1>2. TargetInv => TargetNotWithdrawn
  BY DEF TargetInv, TargetsStand, TargetNotWithdrawn
<1> QED
  BY <1>1, <1>2, TargetInit, PolicyHolds, PTL DEF Spec
=============================================================================
