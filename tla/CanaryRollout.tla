--------------------------- MODULE CanaryRollout ----------------------------
(***************************************************************************)
(* The canary rollout of scripts/deploy/canary-controller.mjs.  A pipeline *)
(* starts a rolling release of a fresh deployment on the hosting platform  *)
(* and runs one controller for it.  The controller polls: it reads the     *)
(* release, probes the canary, fetches user signals, asks canary-policy    *)
(* what to do, and asks the platform to approve the next stage, to         *)
(* complete the release or to put the base deployment back.  It holds no   *)
(* lock: between the read and the request, and while the request is under  *)
(* way, operators (the override workflow, the dashboard) act on the same   *)
(* release.  Any call may fail, and then the controller exits.             *)
(*                                                                         *)
(* The unit of time is the poll interval.  Ages stop counting once they    *)
(* are past every threshold.  The three web vitals, judged alike, are one. *)
(* Of the list of probes the model keeps the end, which is all decide()    *)
(* looks at.  Every deployment is released at most once.                   *)
(***************************************************************************)
EXTENDS Integers, Sequences, FiniteSets

CONSTANTS
  Canaries,             \* the deployments to release
  Old,                  \* the deployment in production before them
  NoDeployment,         \* null, where a deployment is expected
  Broken,               \* the canaries whose probes all fail: a drill, or a dead build
  Stages,               \* the stages that split the traffic: 0 .. Stages - 1
  Bake, MaxStage,       \* bakeMinutes, maxStageMinutes
  ConsecutiveFailures, Window, MinProbes,
  FailedNum, FailedDen, \* maxFailureRatio, a fraction
  MaxRate, RateRatio,   \* errorRate.max, errorRate.maxRatioToBaseline
  Good, Poor, VitalRatio,
  Levels                \* the levels a rate or a vital may have

ASSUME DeploymentAssumption ==
  /\ Old \notin Canaries /\ NoDeployment \notin Canaries \union {Old}
  /\ Broken \subseteq Canaries
\* What a policy file must hold.  The least numbers of requests and samples are
\* left out: which signals are there is the environment's choice in RumSignals.
validatePolicy ==
  /\ Bake \in Nat
  /\ ConsecutiveFailures \in Nat \ {0} /\ Window \in Nat \ {0} /\ MinProbes \in Nat \ {0}
  /\ FailedNum \in Nat /\ FailedDen \in Nat \ {0}
  /\ MaxRate \in Nat /\ RateRatio \in Nat \ {0}
  /\ Good \in Nat /\ Poor \in Nat /\ VitalRatio \in Nat \ {0}
\* A valid policy, and a maxStageMinutes, which validatePolicy() forgets.
ASSUME PolicyAssumption ==
  /\ validatePolicy
  /\ MaxStage \in Nat /\ Stages \in Nat \ {0} /\ Levels \subseteq Nat

VARIABLES
  serving,  \* the deployment that serves all traffic not split off to a canary
  rel,      \* the platform's last rolling release
  ctl,      \* the controller of each canary
  op        \* the run of the override workflow

vars == <<serving, rel, ctl, op>>

Deployments == Canaries \union {Old}
Unseen == -1  \* stageIndex before the first poll
Few == -1     \* a sample too small to judge

Smaller(a, b) == IF a < b THEN a ELSE b
Larger(a, b) == IF a < b THEN b ELSE a

Releases ==
  [state : {"NONE", "ACTIVE", "COMPLETE", "ABORTED"},
   canary : Canaries \union {NoDeployment}, base : Deployments \union {NoDeployment},
   stage : 0 .. Stages - 1, age : 0 .. Bake]
NoRelease ==
  [state |-> "NONE", canary |-> NoDeployment, base |-> NoDeployment, stage |-> 0, age |-> 0]

Phases == {"off", "poll", "observe", "act", "sleep", "done"}
Outcomes == {"none", "promoted", "rolled-back", "aborted-externally", "superseded", "failed"}
Controllers ==
  [phase : Phases, stage : {Unseen} \union (0 .. Stages - 1), age : 0 .. MaxStage + 1,
   probes : Seq(BOOLEAN), base : Deployments \union {NoDeployment},
   decision : {"none", "rollback", "advance", "wait"}, outcome : Outcomes]
Fresh(phase, outcome) ==
  [phase |-> phase, stage |-> Unseen, age |-> 0, probes |-> <<>>, base |-> NoDeployment,
   decision |-> "none", outcome |-> outcome]
Off == Fresh("off", "none")
Ended(outcome) == Fresh("done", outcome)

NoOverride == [command |-> "none", target |-> NoDeployment]
Overrides ==
  [command : {"none", "promote", "rollback"}, target : Deployments \union {NoDeployment}]

-----------------------------------------------------------------------------
(* canary-policy.mjs *)

\* What the signals endpoint says of one deployment; no answer reads like Few.
RumSignals == [rate : Levels \union {Few}, vital : Levels \union {Few}]
NoSignals == [rate |-> Few, vital |-> Few]

\* The last n elements of s, slice(-n).
LastOf(s, n) == IF Len(s) <= n THEN s ELSE [i \in 1 .. n |-> s[Len(s) - n + i]]

Failures(probes) == {i \in DOMAIN probes : ~probes[i]}

Streak(probes) ==
  /\ Len(probes) >= ConsecutiveFailures
  /\ \A i \in Len(probes) - ConsecutiveFailures + 1 .. Len(probes) : ~probes[i]

TooManyFailed(recent) ==
  /\ Len(recent) >= MinProbes
  /\ Cardinality(Failures(recent)) * FailedDen > FailedNum * Len(recent)

\* Above the ceiling and worse than what production does anyway.
RateTooHigh(rate, base) ==
  /\ rate # Few /\ rate > MaxRate
  /\ base = Few \/ rate > base * RateRatio

\* Poor, or worse than production once it has left the good range.
VitalTooHigh(vital, base) ==
  /\ vital # Few
  /\ vital > Poor \/ (base # Few /\ vital > Good /\ vital > base * VitalRatio)

\* The canary is worse for its users than the base allows.
Regressed(canary, base) ==
  RateTooHigh(canary.rate, base.rate) \/ VitalTooHigh(canary.vital, base.vital)

\* The answers the rules on user signals can give (no base, no base signals).
Answers(base) ==
  {Regressed(x, y) : x \in RumSignals,
                     y \in IF base = NoDeployment THEN {NoSignals} ELSE RumSignals}

Unhealthy(probes, regressed) ==
  \/ Streak(probes)
  \/ TooManyFailed(LastOf(probes, Window))
  \/ regressed

BakedFirst(elapsed, probes, regressed) ==
  IF elapsed >= Bake /\ Len(LastOf(probes, Window)) >= MinProbes THEN "advance"
  ELSE IF Unhealthy(probes, regressed) THEN "rollback"
  ELSE "wait"

decide(elapsed, probes, regressed) ==
  IF Unhealthy(probes, regressed) THEN "rollback"
  ELSE IF elapsed < Bake \/ Len(LastOf(probes, Window)) < MinProbes THEN "wait"
  ELSE "advance"

-----------------------------------------------------------------------------
(* The platform, as the controller's adapter uses it *)

ApproveStage(c, next) ==
  /\ rel.state = "ACTIVE" /\ rel.canary = c /\ next = rel.stage + 1
  /\ rel' = [rel EXCEPT !.stage = next, !.age = 0]
  /\ UNCHANGED serving

Complete(c) ==
  /\ rel.state = "ACTIVE" /\ rel.canary = c
  /\ rel' = [rel EXCEPT !.state = "COMPLETE"]
  /\ serving' = c

\* Instant rollback: works with and without a release under way.
Rollback(to) ==
  /\ to # NoDeployment
  /\ rel' = IF rel.state = "ACTIVE" THEN [rel EXCEPT !.state = "ABORTED"] ELSE rel
  /\ serving' = to

\* The dashboard: abort, or approve the next stage by hand.
DashboardAbort ==
  /\ rel.state = "ACTIVE"
  /\ rel' = [rel EXCEPT !.state = "ABORTED"]
  /\ UNCHANGED <<serving, ctl, op>>

DashboardApprove ==
  /\ rel.stage + 1 < Stages
  /\ ApproveStage(rel.canary, rel.stage + 1)
  /\ UNCHANGED <<ctl, op>>

\* A poll interval passes; the controllers that slept wake up.
Tick ==
  /\ rel' = [rel EXCEPT !.age = IF rel.state = "ACTIVE" THEN Smaller(@ + 1, Bake) ELSE @]
  /\ ctl' = [c \in Canaries |->
       IF ctl[c].phase \in {"off", "done"} THEN ctl[c]
       ELSE [ctl[c] EXCEPT
               !.age = IF ctl[c].stage = Unseen THEN @ ELSE Smaller(@ + 1, MaxStage + 1),
               !.phase = IF @ = "sleep" THEN "poll" ELSE @]]
  /\ UNCHANGED <<serving, op>>

-----------------------------------------------------------------------------
(* canary-controller.mjs *)

Init ==
  /\ serving = Old
  /\ rel = NoRelease
  /\ ctl = [c \in Canaries |-> Off]
  /\ op = NoOverride

Finish(c, outcome) == ctl' = [ctl EXCEPT ![c] = Ended(outcome)]

\* `start`, then `run`, as the pipeline calls them for a fresh deployment.
StartRelease(c) ==
  /\ ctl[c].phase = "off"
  /\ rel.state # "ACTIVE"
  /\ rel' = [NoRelease EXCEPT !.state = "ACTIVE", !.canary = c, !.base = serving]
  /\ ctl' = [ctl EXCEPT ![c] = Fresh("poll", "none")]
  /\ UNCHANGED <<serving, op>>

\* A stage seen for the first time starts a new record.
KeepsRecord(k, stage) == [k EXCEPT !.stage = stage]
RestartsClock(k, stage) ==
  [k EXCEPT !.stage = stage, !.age = 0, !.probes = IF k.stage = stage THEN @ ELSE <<>>]
EnterStage(k, stage) ==
  IF k.stage = stage THEN k ELSE [k EXCEPT !.stage = stage, !.age = 0, !.probes = <<>>]

\* getRelease() and the exits that follow it, in the order of the code.
Read(c) ==
  /\ ctl[c].phase = "poll"
  /\ IF rel.state \in {"NONE", "COMPLETE"} THEN Finish(c, "promoted")
     ELSE IF rel.state = "ABORTED" THEN Finish(c, "aborted-externally")
     ELSE IF rel.canary # c THEN Finish(c, "superseded")
     ELSE ctl' = [ctl EXCEPT ![c] =
            [EnterStage(ctl[c], rel.stage) EXCEPT !.phase = "observe", !.base = rel.base]]
  /\ UNCHANGED <<serving, rel, op>>

\* Any answer below 400 in time is healthy; the path of a drill has none.
ProbeAnswers(c) == IF c \in Broken THEN {FALSE} ELSE BOOLEAN

\* One probe, the signals of the canary and of its base, and the decision.
Observe(c, ok, regressed) ==
  LET k      == ctl[c]
      probes == LastOf(Append(k.probes, ok), Larger(Window, ConsecutiveFailures))
      said   == decide(k.age, probes, regressed)
      does   == IF said = "wait" /\ k.age > MaxStage THEN "rollback" ELSE said
  IN /\ k.phase = "observe"
     /\ ok \in ProbeAnswers(c)
     /\ regressed \in Answers(k.base)
     /\ ctl' = [ctl EXCEPT ![c] = [k EXCEPT
          !.probes = probes, !.decision = does,
          !.phase = IF does = "wait" THEN "sleep" ELSE "act"]]
     /\ UNCHANGED <<serving, rel, op>>

\* The request a decision sends: the last stage to split traffic is followed by
\* the final one, which completes the release.
NextIsFinal(k) == k.stage + 1 = Stages

Request(c, k) ==
  \/ k.decision = "rollback" /\ Rollback(k.base)
  \/ k.decision = "advance" /\ NextIsFinal(k) /\ Complete(c)
  \/ k.decision = "advance" /\ ~NextIsFinal(k) /\ ApproveStage(c, k.stage + 1)

Act(c) ==
  /\ ctl[c].phase = "act"
  /\ Request(c, ctl[c])
  /\ IF ctl[c].decision = "rollback" THEN Finish(c, "rolled-back")
     ELSE IF NextIsFinal(ctl[c]) THEN Finish(c, "promoted")
     ELSE ctl' = [ctl EXCEPT ![c].phase = "poll", ![c].decision = "none"]
  /\ UNCHANGED op

\* getRelease() throws, or the job is cancelled: the controller exits.
PollFails(c) ==
  /\ ctl[c].phase \in {"poll", "observe", "sleep"}
  /\ Finish(c, "failed")
  /\ UNCHANGED <<serving, rel, op>>

\* There is no base, the platform refuses the request, or its answer is lost.
ActFails(c) ==
  /\ ctl[c].phase = "act"
  /\ Request(c, ctl[c]) \/ UNCHANGED <<serving, rel>>
  /\ Finish(c, "failed")
  /\ UNCHANGED op

\* The override workflow: `rollback` or `promote` reads the release first.  Once
\* the release has ended, only a rollback to a deployment named by the operator,
\* the one that served before, is left.
OverrideRead(command) ==
  LET active == rel.state = "ACTIVE"
      target == IF active /\ command = "promote" THEN rel.canary ELSE rel.base
  IN /\ op = NoOverride
     /\ ~active => command = "rollback"
     /\ target # NoDeployment
     /\ op' = [command |-> command, target |-> target]
     /\ UNCHANGED <<serving, rel, ctl>>

OverrideActs ==
  /\ \/ op.command = "promote" /\ Complete(op.target)
     \/ op.command = "rollback" /\ Rollback(op.target)
  /\ op' = NoOverride
  /\ UNCHANGED ctl

OverrideFails ==
  /\ op # NoOverride
  /\ op' = NoOverride
  /\ UNCHANGED <<serving, rel, ctl>>

Step(c) ==
  \/ Read(c)
  \/ PollFails(c)
  \/ \E ok, regressed \in BOOLEAN : Observe(c, ok, regressed)
  \/ Act(c)
  \/ ActFails(c)

Next ==
  \/ Tick
  \/ DashboardAbort
  \/ DashboardApprove
  \/ \E c \in Canaries : StartRelease(c) \/ Step(c)
  \/ \E command \in {"promote", "rollback"} : OverrideRead(command)
  \/ OverrideActs
  \/ OverrideFails

Spec == Init /\ [][Next]_vars

\* Time passes, and a controller that runs goes on.
FairSpec == Spec /\ WF_vars(Tick) /\ \A c \in Canaries : WF_vars(Step(c))

-----------------------------------------------------------------------------
(* Properties *)

TypeOK ==
  /\ serving \in Deployments \union {NoDeployment}
  /\ rel \in Releases
  /\ ctl \in [Canaries -> Controllers]
  /\ op \in Overrides

\* The controller of c takes its release a stage further, or to the end.
Advances(c) ==
  /\ ctl[c].phase = "act" /\ ctl[c].decision = "advance"
  /\ ctl'[c].phase # "act"
  /\ rel' # rel

\* No stage is cut short: whatever operators did between the controller's read
\* and its request, the stage it ends is the one it judged, has really had its
\* traffic for the bake time, and was probed often enough in that stage.
StageIsBaked ==
  [][\A c \in Canaries : Advances(c) =>
       /\ rel.canary = c /\ rel.stage = ctl[c].stage
       /\ rel.age >= Bake
       /\ Len(LastOf(ctl[c].probes, Window)) >= MinProbes]_vars

\* A canary whose probes all fail, as in a drill, gets no further stage from
\* the controller ("It must 404, which counts as a failed probe").
BrokenNeverAdvances == [][\A c \in Broken : ~Advances(c)]_vars

\* Every rollout ends: a running controller comes to an outcome.
RolloutEnds == \A c \in Canaries : ctl[c].phase = "poll" ~> ctl[c].phase = "done"
=============================================================================
