------------------------ MODULE CanaryRolloutProofs -------------------------
(***************************************************************************)
(* What holds of the canary rollout for every policy, every number of      *)
(* stages and every set of canaries, whatever operators and the network do *)
(* between a controller's read and its request.                            *)
(***************************************************************************)
EXTENDS CanaryRollout, FiniteSetTheorems, TLAPS

(* The policy is valid: PolicyAssumption is read with what that means.     *)
USE DEF validatePolicy

(* A controller that has not run has no record, and the release is not for *)
(* its canary.                                                             *)
OffIsFresh == \A c \in Canaries : ctl[c].phase = "off" => ctl[c] = Off /\ rel.canary # c

(* A controller that probes or acts has read a stage.                      *)
BusyHasStage == \A c \in Canaries : ctl[c].phase \in {"observe", "act"} => ctl[c].stage # Unseen

(* What it read may be out of date, never ahead.                           *)
NeverAhead == \A c \in Canaries :
  ctl[c].stage # Unseen /\ rel.canary = c => ctl[c].stage <= rel.stage

(* The stage it times is at least as old as it thinks.                     *)
TimesTheStage == \A c \in Canaries :
  rel.state = "ACTIVE" /\ rel.canary = c /\ ctl[c].stage = rel.stage =>
    Smaller(ctl[c].age, Bake) <= rel.age

(* A decision to advance rests on enough time and probes.                  *)
AdvanceHasEvidence == \A c \in Canaries :
  ctl[c].phase = "act" /\ ctl[c].decision = "advance" =>
    ctl[c].age >= Bake /\ Len(LastOf(ctl[c].probes, Window)) >= MinProbes

RolloutInv ==
  TypeOK /\ OffIsFresh /\ BusyHasStage /\ NeverAhead /\ TimesTheStage /\ AdvanceHasEvidence

(* A broken canary has failed probes only, and, where the policy does not   *)
(* put up with a ratio of one, no decision to advance.                     *)
BrokenInv == \A c \in Broken :
  /\ \A i \in DOMAIN ctl[c].probes : ~ctl[c].probes[i]
  /\ FailedNum < FailedDen /\ ctl[c].phase = "act" => ctl[c].decision # "advance"

-----------------------------------------------------------------------------
(* Operators *)

(* The end of a sequence is a sequence, no longer than asked for.          *)
LEMMA LastOfType ==
  ASSUME NEW s \in Seq(BOOLEAN), NEW n \in Nat
  PROVE  /\ LastOf(s, n) \in Seq(BOOLEAN)
         /\ Len(LastOf(s, n)) = Smaller(Len(s), n)
  BY DEF LastOf, Smaller

(* The end of a list of failures is a list of failures.                    *)
LEMMA LastOfFailures ==
  ASSUME NEW s \in Seq(BOOLEAN), NEW n \in Nat, \A i \in DOMAIN s : ~s[i]
  PROVE  \A i \in DOMAIN LastOf(s, n) : ~LastOf(s, n)[i]
  BY DEF LastOf

(* Where all recent probes failed, and a ratio below one is allowed, the   *)
(* ratio rule fires as soon as it looks at all.                            *)
LEMMA AllFailedIsTooMany ==
  ASSUME NEW s \in Seq(BOOLEAN), \A i \in DOMAIN s : ~s[i],
         Len(s) >= MinProbes, FailedNum < FailedDen
  PROVE  TooManyFailed(s)
<1>1. Failures(s) = 1 .. Len(s)
  BY DEF Failures
<1>2. Cardinality(Failures(s)) = Len(s)
  BY <1>1, FS_Interval
<1>3. Len(s) \in Nat \ {0}
  BY PolicyAssumption
<1>4. Len(s) * FailedDen > FailedNum * Len(s)
  BY <1>3, PolicyAssumption
<1> QED
  BY <1>2, <1>4 DEF TooManyFailed

(* A controller's record keeps its type through every change of it.        *)
LEMMA EndedType ==
  ASSUME NEW o \in Outcomes
  PROVE  Ended(o) \in Controllers /\ Ended(o).phase = "done" /\ Ended(o).stage = Unseen
         /\ Ended(o).probes = <<>>
<1>1. <<>> \in Seq(BOOLEAN) /\ 0 \in 0 .. MaxStage + 1
  BY PolicyAssumption
<1>2. Ended(o) = [phase |-> "done", stage |-> Unseen, age |-> 0, probes |-> <<>>,
                  base |-> NoDeployment, decision |-> "none", outcome |-> o]
  BY DEF Ended, Fresh
<1> QED
  BY <1>1, <1>2 DEF Controllers, Phases, Outcomes

LEMMA EnterStageType ==
  ASSUME NEW k \in Controllers, NEW stage \in 0 .. Stages - 1
  PROVE  /\ EnterStage(k, stage) \in Controllers
         /\ EnterStage(k, stage).stage = stage
         /\ EnterStage(k, stage) = k \/ EnterStage(k, stage).age = 0
         /\ EnterStage(k, stage).probes \in {k.probes, <<>>}
<1>1. <<>> \in Seq(BOOLEAN) /\ 0 \in 0 .. MaxStage + 1
  BY PolicyAssumption
<1>2. CASE k.stage = stage
  BY <1>2 DEF EnterStage
<1>3. CASE k.stage # stage
  <2>1. EnterStage(k, stage) =
          [phase |-> k.phase, stage |-> stage, age |-> 0, probes |-> <<>>,
           base |-> k.base, decision |-> k.decision, outcome |-> k.outcome]
    BY <1>3 DEF EnterStage, Controllers
  <2> QED
    BY <1>1, <2>1 DEF Controllers
<1> QED
  BY <1>2, <1>3

(* Probing adds one answer to the end of the record.                       *)
LEMMA ProbesType ==
  ASSUME NEW s \in Seq(BOOLEAN), NEW ok \in BOOLEAN
  PROVE  /\ LastOf(Append(s, ok), Larger(Window, ConsecutiveFailures)) \in Seq(BOOLEAN)
         /\ (~ok /\ \A i \in DOMAIN s : ~s[i]) =>
              \A i \in DOMAIN LastOf(Append(s, ok), Larger(Window, ConsecutiveFailures)) :
                ~LastOf(Append(s, ok), Larger(Window, ConsecutiveFailures))[i]
<1> DEFINE n == Larger(Window, ConsecutiveFailures)
<1>1. n \in Nat
  BY PolicyAssumption DEF Larger
<1>2. Append(s, ok) \in Seq(BOOLEAN)
  OBVIOUS
<1>3. ASSUME ~ok, \A i \in DOMAIN s : ~s[i]
      PROVE  \A i \in DOMAIN Append(s, ok) : ~Append(s, ok)[i]
  BY <1>3
<1> HIDE DEF n
<1>4. /\ LastOf(Append(s, ok), n) \in Seq(BOOLEAN)
      /\ (\A i \in DOMAIN Append(s, ok) : ~Append(s, ok)[i]) =>
           \A i \in DOMAIN LastOf(Append(s, ok), n) : ~LastOf(Append(s, ok), n)[i]
  BY <1>1, <1>2, LastOfType, LastOfFailures
<1> QED
  BY <1>3, <1>4 DEF n

-----------------------------------------------------------------------------
(* The invariant *)

LEMMA InitInv == Init => RolloutInv /\ BrokenInv
<1> SUFFICES ASSUME Init PROVE RolloutInv /\ BrokenInv
  OBVIOUS
<1>1. <<>> \in Seq(BOOLEAN) /\ 0 \in 0 .. MaxStage + 1 /\ 0 \in 0 .. Bake /\ 0 \in 0 .. Stages - 1
  BY PolicyAssumption
<1>2. TypeOK
  BY <1>1 DEF Init, TypeOK, NoRelease, Releases, NoOverride, Overrides, Off, Fresh,
              Controllers, Phases, Outcomes, Deployments
<1>3. \A c \in Canaries : ctl[c] = Off /\ rel.canary # c
  BY DeploymentAssumption DEF Init, NoRelease
<1>4. OffIsFresh /\ BusyHasStage /\ NeverAhead /\ TimesTheStage /\ AdvanceHasEvidence
  BY <1>3 DEF OffIsFresh, BusyHasStage, NeverAhead, TimesTheStage, AdvanceHasEvidence, Off, Fresh
<1>5. BrokenInv
  BY <1>3, DeploymentAssumption DEF BrokenInv, Off, Fresh
<1> QED
  BY <1>2, <1>4, <1>5 DEF RolloutInv

(* What a request to the platform may do to the release: end it, or take   *)
(* it to a later stage.                                                    *)
Moves ==
  /\ rel' \in Releases
  /\ serving' \in Deployments \union {NoDeployment}
  /\ rel'.canary = rel.canary
  /\ rel'.stage >= rel.stage
  /\ rel'.state = "ACTIVE" /\ rel'.stage = rel.stage => rel.state = "ACTIVE" /\ rel'.age = rel.age

(* What most steps do to a controller: leave it, end it, or send it back   *)
(* to its poll after a request.                                            *)
Keeps(d) ==
  \/ ctl'[d] = ctl[d]
  \/ ctl[d].phase # "off" /\ \E o \in Outcomes : ctl'[d] = Ended(o)
  \/ /\ ctl[d].phase = "act" /\ ctl'[d].phase = "poll" /\ ctl'[d] \in Controllers
     /\ ctl'[d].stage = ctl[d].stage /\ ctl'[d].age = ctl[d].age
     /\ ctl'[d].probes = ctl[d].probes

LEMMA PlatformMoves ==
  ASSUME TypeOK
  PROVE  /\ \A c, n : n <= Stages - 1 /\ ApproveStage(c, n) => Moves
         /\ \A c \in Canaries : Complete(c) => Moves
         /\ \A to \in Deployments \union {NoDeployment} : Rollback(to) => Moves
         /\ UNCHANGED <<serving, rel>> => Moves
<1>1. /\ rel \in Releases /\ serving \in Deployments \union {NoDeployment}
      /\ rel.stage \in 0 .. Stages - 1 /\ rel.age \in 0 .. Bake /\ 0 \in 0 .. Bake
  BY PolicyAssumption DEF TypeOK, Releases
<1>2. ASSUME NEW c, NEW n, n <= Stages - 1, ApproveStage(c, n) PROVE Moves
  <2>1. n = rel.stage + 1 /\ n \in 0 .. Stages - 1
    BY <1>1, <1>2, PolicyAssumption DEF ApproveStage
  <2>2. rel' = [rel EXCEPT !.stage = n, !.age = 0] /\ serving' = serving
    BY <1>2 DEF ApproveStage
  <2>3. /\ rel' \in Releases /\ rel'.canary = rel.canary
        /\ rel'.stage = n
    BY <1>1, <2>1, <2>2 DEF Releases
  <2> QED
    BY <1>1, <2>1, <2>2, <2>3, PolicyAssumption DEF Moves
<1>3. ASSUME NEW c \in Canaries, Complete(c) PROVE Moves
  BY <1>1, <1>3, PolicyAssumption DEF Complete, Moves, Releases, Deployments
<1>4. ASSUME NEW to \in Deployments \union {NoDeployment}, Rollback(to) PROVE Moves
  BY <1>1, <1>4, PolicyAssumption DEF Rollback, Moves, Releases
<1>5. ASSUME UNCHANGED <<serving, rel>> PROVE Moves
  BY <1>1, <1>5, PolicyAssumption DEF Moves
<1> QED
  BY <1>2, <1>3, <1>4, <1>5

LEMMA QuietStep ==
  ASSUME RolloutInv, BrokenInv, Moves, op' \in Overrides,
         ctl' \in [Canaries -> Controllers], \A d \in Canaries : Keeps(d)
  PROVE  RolloutInv' /\ BrokenInv'
<1>1. TypeOK'
  BY DEF TypeOK, Moves
<1>2. /\ \A d \in Canaries : ctl[d] \in Controllers /\ ctl'[d] \in Controllers
      /\ \A d \in Canaries : ctl[d].stage \in {Unseen} \union (0 .. Stages - 1)
      /\ rel.stage \in 0 .. Stages - 1 /\ rel'.stage \in 0 .. Stages - 1
  BY DEF RolloutInv, TypeOK, Moves, Releases, Controllers
<1>3. ASSUME NEW d \in Canaries, ctl'[d] # ctl[d], ctl'[d].phase # "poll"
      PROVE  ctl'[d].phase = "done" /\ ctl'[d].stage = Unseen /\ ctl'[d].probes = <<>>
  <2>1. Keeps(d)
    OBVIOUS
  <2>2. PICK o \in Outcomes : ctl'[d] = Ended(o)
    BY <1>3, <2>1 DEF Keeps
  <2> QED
    BY <2>2, EndedType
<1>4. ASSUME NEW d \in Canaries, ctl'[d] # ctl[d], ctl'[d].phase = "poll"
      PROVE  /\ ctl[d].phase = "act" /\ ctl'[d].stage = ctl[d].stage
             /\ ctl'[d].age = ctl[d].age /\ ctl'[d].probes = ctl[d].probes
  BY <1>4, EndedType DEF Keeps
<1>5. OffIsFresh'
  BY <1>3, <1>4 DEF OffIsFresh, RolloutInv, Moves
<1>6. BusyHasStage'
  BY <1>3, <1>4 DEF BusyHasStage, RolloutInv
<1>7. NeverAhead'
  BY <1>2, <1>3, <1>4 DEF NeverAhead, RolloutInv, Moves
<1>8. TimesTheStage'
  <2> SUFFICES ASSUME NEW d \in Canaries, rel'.state = "ACTIVE", rel'.canary = d,
                      ctl'[d].stage = rel'.stage
               PROVE  Smaller(ctl'[d].age, Bake) <= rel'.age
    BY DEF TimesTheStage
  <2>1. ctl'[d].stage # Unseen
    BY <1>2 DEF Unseen
  <2>2. ctl'[d].stage = ctl[d].stage /\ ctl'[d].age = ctl[d].age
    BY <1>3, <1>4, <2>1
  <2>3. rel'.stage = rel.stage
    BY <1>2, <2>1, <2>2 DEF RolloutInv, NeverAhead, Moves
  <2> QED
    BY <2>2, <2>3 DEF RolloutInv, TimesTheStage, Moves
<1>9. AdvanceHasEvidence'
  BY <1>3, <1>4 DEF AdvanceHasEvidence, RolloutInv
<1>10. BrokenInv'
  BY <1>3, <1>4, DeploymentAssumption DEF BrokenInv
<1> QED
  BY <1>1, <1>5, <1>6, <1>7, <1>8, <1>9, <1>10 DEF RolloutInv

(* The request of a controller, and the end of one, are quiet.             *)
LEMMA RequestMoves ==
  ASSUME TypeOK, NEW c \in Canaries, Request(c, ctl[c])
  PROVE  Moves
<1>1. ctl[c] \in Controllers
  BY DEF TypeOK
<1>2. /\ ctl[c].base \in Deployments \union {NoDeployment}
      /\ ctl[c].stage \in {Unseen} \union (0 .. Stages - 1)
  BY <1>1 DEF Controllers
<1>3. CASE Rollback(ctl[c].base)
  BY <1>2, <1>3, PlatformMoves
<1>4. CASE Complete(c)
  BY <1>4, PlatformMoves
<1>5. CASE ~NextIsFinal(ctl[c]) /\ ApproveStage(c, ctl[c].stage + 1)
  <2>1. ctl[c].stage + 1 <= Stages - 1
    BY <1>2, <1>5, PolicyAssumption DEF NextIsFinal, Unseen
  <2> QED
    BY <1>5, <2>1, PlatformMoves
<1> QED
  BY <1>3, <1>4, <1>5 DEF Request

LEMMA FinishKeeps ==
  ASSUME TypeOK, NEW c \in Canaries, NEW o \in Outcomes, Finish(c, o), ctl[c].phase # "off"
  PROVE  ctl' \in [Canaries -> Controllers] /\ \A d \in Canaries : Keeps(d)
<1>1. Ended(o) \in Controllers
  BY EndedType
<1> QED
  BY <1>1 DEF Finish, TypeOK, Keeps

-----------------------------------------------------------------------------
(* The steps that are not quiet *)

LEMMA TickStep ==
  ASSUME RolloutInv, BrokenInv, Tick
  PROVE  RolloutInv' /\ BrokenInv'
<1>1. /\ TypeOK /\ rel \in Releases /\ rel.age \in 0 .. Bake
      /\ \A d \in Canaries : ctl[d] \in Controllers
      /\ \A d \in Canaries : /\ ctl[d].age \in 0 .. MaxStage + 1
                           /\ ctl[d].stage \in {Unseen} \union (0 .. Stages - 1)
      /\ rel.stage \in 0 .. Stages - 1
  BY DEF RolloutInv, TypeOK, Releases, Controllers
<1>2. /\ rel' \in Releases /\ rel'.canary = rel.canary /\ rel'.state = rel.state
      /\ rel'.stage = rel.stage
      /\ rel.state = "ACTIVE" => rel'.age = Smaller(rel.age + 1, Bake)
  <2>1. Smaller(rel.age + 1, Bake) \in 0 .. Bake
    BY <1>1, PolicyAssumption DEF Smaller
  <2> QED
    BY <1>1, <2>1 DEF Tick, Releases
<1>3. ASSUME NEW d \in Canaries
      PROVE  /\ ctl'[d] \in Controllers
             /\ ctl[d].phase \in {"off", "done"} => ctl'[d] = ctl[d]
             /\ ctl'[d].phase = ctl[d].phase \/ (ctl[d].phase = "sleep" /\ ctl'[d].phase = "poll")
             /\ ctl'[d].stage = ctl[d].stage /\ ctl'[d].probes = ctl[d].probes
             /\ ctl'[d].decision = ctl[d].decision
             /\ ctl'[d].age = ctl[d].age
                  \/ (ctl[d].stage # Unseen /\ ctl'[d].age = Smaller(ctl[d].age + 1, MaxStage + 1))
  <2>1. CASE ctl[d].phase \in {"off", "done"}
    BY <1>1, <2>1 DEF Tick
  <2>2. CASE ctl[d].phase \notin {"off", "done"}
    <3> DEFINE older == IF ctl[d].stage = Unseen THEN ctl[d].age
                        ELSE Smaller(ctl[d].age + 1, MaxStage + 1)
               woken == IF ctl[d].phase = "sleep" THEN "poll" ELSE ctl[d].phase
    <3>1. ctl'[d] = [ctl[d] EXCEPT !.age = older, !.phase = woken]
      BY <2>2 DEF Tick
    <3>2. older \in 0 .. MaxStage + 1 /\ woken \in Phases
      <4>1. older \in 0 .. MaxStage + 1
        BY <1>1, PolicyAssumption DEF Smaller
      <4>2. woken \in Phases
        BY <1>1 DEF Controllers, Phases
      <4> QED
        BY <4>1, <4>2
    <3>3. /\ ctl'[d] \in Controllers /\ ctl'[d].age = older /\ ctl'[d].phase = woken
          /\ ctl'[d].stage = ctl[d].stage /\ ctl'[d].probes = ctl[d].probes
          /\ ctl'[d].decision = ctl[d].decision
      <4> HIDE DEF older, woken
      <4> QED
        BY <1>1, <3>1, <3>2 DEF Controllers
    <3> QED
      BY <2>2, <3>3
  <2> QED
    BY <2>1, <2>2
<1>4. TypeOK'
  <2>1. ctl' \in [Canaries -> Controllers]
    BY <1>3 DEF Tick
  <2> QED
    BY <1>1, <1>2, <2>1 DEF TypeOK, Tick
<1>5. OffIsFresh' /\ BusyHasStage' /\ NeverAhead'
  BY <1>2, <1>3 DEF OffIsFresh, BusyHasStage, NeverAhead, RolloutInv
<1>6. TimesTheStage'
  <2> SUFFICES ASSUME NEW d \in Canaries, rel'.state = "ACTIVE", rel'.canary = d,
                      ctl'[d].stage = rel'.stage
               PROVE  Smaller(ctl'[d].age, Bake) <= rel'.age
    BY DEF TimesTheStage
  <2>1. Smaller(ctl[d].age, Bake) <= rel.age /\ rel'.age = Smaller(rel.age + 1, Bake)
    BY <1>2, <1>3 DEF RolloutInv, TimesTheStage
  <2>2. ctl'[d].age = ctl[d].age \/ ctl'[d].age = Smaller(ctl[d].age + 1, MaxStage + 1)
    BY <1>3
  <2> QED
    BY <1>1, <2>1, <2>2, PolicyAssumption DEF Smaller
<1>7. AdvanceHasEvidence'
  <2> SUFFICES ASSUME NEW d \in Canaries, ctl'[d].phase = "act", ctl'[d].decision = "advance"
               PROVE  /\ ctl'[d].age >= Bake
                      /\ Len(LastOf(ctl'[d].probes, Window)) >= MinProbes
    BY DEF AdvanceHasEvidence
  <2>1. /\ ctl[d].age >= Bake /\ ctl'[d].probes = ctl[d].probes
        /\ Len(LastOf(ctl[d].probes, Window)) >= MinProbes
    BY <1>3 DEF RolloutInv, AdvanceHasEvidence
  <2>2. ctl'[d].age >= ctl[d].age
    BY <1>1, <1>3, PolicyAssumption DEF Smaller
  <2> QED
    BY <1>1, <2>1, <2>2, <1>3, PolicyAssumption DEF Controllers
<1>8. BrokenInv'
  BY <1>3, DeploymentAssumption DEF BrokenInv
<1> QED
  BY <1>4, <1>5, <1>6, <1>7, <1>8 DEF RolloutInv

LEMMA StartStep ==
  ASSUME RolloutInv, BrokenInv, NEW c \in Canaries, StartRelease(c)
  PROVE  RolloutInv' /\ BrokenInv'
<1> DEFINE new == Fresh("poll", "none")
<1>1. <<>> \in Seq(BOOLEAN) /\ 0 \in 0 .. MaxStage + 1 /\ 0 \in 0 .. Bake /\ 0 \in 0 .. Stages - 1
  BY PolicyAssumption
<1>2. /\ new \in Controllers /\ new.phase = "poll" /\ new.stage = Unseen
      /\ new.probes = <<>>
  BY <1>1 DEF Fresh, Controllers, Phases, Outcomes
<1>3. rel' = [state |-> "ACTIVE", canary |-> c, base |-> serving, stage |-> 0, age |-> 0]
  BY DEF StartRelease, NoRelease
<1> HIDE DEF new
<1>4. ctl' = [ctl EXCEPT ![c] = new]
  BY DEF StartRelease, new
<1>5. TypeOK'
  <2>1. rel' \in Releases
    BY <1>1, <1>3 DEF RolloutInv, TypeOK, Releases
  <2> QED
    BY <1>2, <1>4, <2>1 DEF RolloutInv, TypeOK, StartRelease
<1>6. /\ ctl'[c] = new /\ rel'.canary = c
      /\ \A d \in Canaries \ {c} : ctl'[d] = ctl[d]
  BY <1>3, <1>4 DEF RolloutInv, TypeOK
<1>7. OffIsFresh' /\ BusyHasStage' /\ AdvanceHasEvidence'
  BY <1>2, <1>6 DEF OffIsFresh, BusyHasStage, AdvanceHasEvidence, RolloutInv
<1>8. NeverAhead'
  BY <1>2, <1>6 DEF NeverAhead
<1>9. TimesTheStage'
  <2>1. Unseen # rel'.stage
    BY <1>3 DEF Unseen
  <2> QED
    BY <1>2, <1>6, <2>1 DEF TimesTheStage
<1>10. BrokenInv'
  BY <1>2, <1>6, DeploymentAssumption DEF BrokenInv
<1> QED
  BY <1>5, <1>7, <1>8, <1>9, <1>10 DEF RolloutInv

LEMMA ReadStep ==
  ASSUME RolloutInv, BrokenInv, NEW c \in Canaries, Read(c)
  PROVE  RolloutInv' /\ BrokenInv'
<1>0. TypeOK /\ ctl[c] \in Controllers /\ ctl[c].phase = "poll"
  BY DEF RolloutInv, TypeOK, Read
<1>1. CASE \E o \in Outcomes : Finish(c, o)
  BY <1>0, <1>1, FinishKeeps, PlatformMoves, QuietStep DEF Read, TypeOK
<1>2. CASE ~ \E o \in Outcomes : Finish(c, o)
  <2> DEFINE k == EnterStage(ctl[c], rel.stage)
             new == [k EXCEPT !.phase = "observe", !.base = rel.base]
  <2>1. /\ rel.state = "ACTIVE" /\ rel.canary = c /\ UNCHANGED <<serving, rel, op>>
        /\ ctl' = [ctl EXCEPT ![c] = new]
    BY <1>0, <1>2 DEF Read, Outcomes, TypeOK, Releases
  <2>2. rel.stage \in 0 .. Stages - 1 /\ rel.base \in Deployments \union {NoDeployment}
        /\ rel.age \in 0 .. Bake
    BY <1>0 DEF TypeOK, Releases
  <2>3. /\ k \in Controllers /\ k.stage = rel.stage
        /\ k = ctl[c] \/ k.age = 0
        /\ k.probes \in {ctl[c].probes, <<>>}
    BY <1>0, <2>2, EnterStageType
  <2> HIDE DEF k
  <2>4. /\ new \in Controllers /\ new.phase = "observe" /\ new.stage = rel.stage
        /\ new.age = k.age /\ new.probes = k.probes
    BY <2>2, <2>3 DEF Controllers, Phases
  <2> HIDE DEF new
  <2>5. TypeOK'
    BY <1>0, <2>1, <2>4 DEF TypeOK
  <2>6. ctl'[c] = new /\ \A d \in Canaries \ {c} : ctl'[d] = ctl[d]
    BY <1>0, <2>1 DEF TypeOK
  <2>7. OffIsFresh' /\ AdvanceHasEvidence'
    BY <2>1, <2>4, <2>6 DEF OffIsFresh, AdvanceHasEvidence, RolloutInv
  <2>8. BusyHasStage'
    BY <2>2, <2>4, <2>6 DEF BusyHasStage, RolloutInv, Unseen
  <2>9. NeverAhead'
    BY <2>1, <2>2, <2>4, <2>6 DEF NeverAhead
  <2>10. TimesTheStage'
    <3>1. Smaller(new.age, Bake) <= rel.age
      <4>1. CASE k = ctl[c]
        BY <2>1, <2>3, <2>4, <4>1 DEF RolloutInv, TimesTheStage
      <4>2. CASE k.age = 0
        BY <2>2, <2>4, <4>2, PolicyAssumption DEF Smaller
      <4> QED
        BY <2>3, <4>1, <4>2
    <3> QED
      BY <2>1, <2>6, <3>1 DEF TimesTheStage
  <2>11. BrokenInv'
    BY <2>3, <2>4, <2>6, DeploymentAssumption DEF BrokenInv
  <2> QED
    BY <2>5, <2>7, <2>8, <2>9, <2>10, <2>11 DEF RolloutInv
<1> QED
  BY <1>1, <1>2

LEMMA ObserveStep ==
  ASSUME RolloutInv, BrokenInv,
         NEW c \in Canaries, NEW ok \in BOOLEAN, NEW regressed \in BOOLEAN,
         Observe(c, ok, regressed)
  PROVE  RolloutInv' /\ BrokenInv'
<1> DEFINE k      == ctl[c]
           probes == LastOf(Append(k.probes, ok), Larger(Window, ConsecutiveFailures))
           said   == decide(k.age, probes, regressed)
           does   == IF said = "wait" /\ k.age > MaxStage THEN "rollback" ELSE said
           next   == IF does = "wait" THEN "sleep" ELSE "act"
           new    == [k EXCEPT !.probes = probes, !.decision = does, !.phase = next]
<1>1. /\ TypeOK /\ k \in Controllers /\ k.phase = "observe" /\ (ok => c \notin Broken)
      /\ ctl' = [ctl EXCEPT ![c] = new] /\ UNCHANGED <<serving, rel, op>>
  BY DEF RolloutInv, TypeOK, Observe, ProbeAnswers
<1>2. k.probes \in Seq(BOOLEAN) /\ k.age \in 0 .. MaxStage + 1
  BY <1>1 DEF Controllers
<1>3. /\ probes \in Seq(BOOLEAN)
      /\ (~ok /\ \A i \in DOMAIN k.probes : ~k.probes[i]) => \A i \in DOMAIN probes : ~probes[i]
  BY <1>2, ProbesType
<1> HIDE DEF probes
<1>4. /\ does \in {"rollback", "advance", "wait"}
      /\ next \in {"sleep", "act"}
      /\ does = "advance" =>
           /\ k.age >= Bake /\ Len(LastOf(probes, Window)) >= MinProbes
           /\ ~TooManyFailed(LastOf(probes, Window))
  BY <1>2, PolicyAssumption DEF decide, Unhealthy
<1> HIDE DEF does, next
<1>5. /\ new \in Controllers /\ new.phase = next /\ new.stage = k.stage /\ new.age = k.age
      /\ new.probes = probes /\ new.decision = does
  BY <1>1, <1>3, <1>4 DEF Controllers, Phases
<1> HIDE DEF new
<1>6. TypeOK'
  BY <1>1, <1>5 DEF TypeOK
<1>7. ctl'[c] = new /\ \A d \in Canaries \ {c} : ctl'[d] = ctl[d]
  BY <1>1 DEF TypeOK
<1>8. OffIsFresh'
  BY <1>1, <1>4, <1>5, <1>7 DEF OffIsFresh, RolloutInv
<1>9. BusyHasStage' /\ NeverAhead' /\ TimesTheStage'
  BY <1>1, <1>5, <1>7 DEF BusyHasStage, NeverAhead, TimesTheStage, RolloutInv
<1>10. AdvanceHasEvidence'
  BY <1>4, <1>5, <1>7 DEF AdvanceHasEvidence, RolloutInv
<1>11. BrokenInv'
  <2>1. ASSUME c \in Broken PROVE \A i \in DOMAIN probes : ~probes[i]
    BY <1>1, <1>3, <2>1 DEF BrokenInv
  <2>2. ASSUME c \in Broken, FailedNum < FailedDen PROVE does # "advance"
    <3>1. /\ LastOf(probes, Window) \in Seq(BOOLEAN)
          /\ \A i \in DOMAIN LastOf(probes, Window) : ~LastOf(probes, Window)[i]
      BY <1>3, <2>1, <2>2, LastOfType, LastOfFailures, PolicyAssumption
    <3> QED
      BY <1>4, <2>2, <3>1, AllFailedIsTooMany
  <2> QED
    BY <1>5, <1>7, <2>1, <2>2, DeploymentAssumption DEF BrokenInv
<1> QED
  BY <1>6, <1>8, <1>9, <1>10, <1>11 DEF RolloutInv

LEMMA ActStep ==
  ASSUME RolloutInv, BrokenInv, NEW c \in Canaries, Act(c)
  PROVE  RolloutInv' /\ BrokenInv'
<1>1. TypeOK /\ ctl[c] \in Controllers /\ ctl[c].phase = "act"
  BY DEF RolloutInv, TypeOK, Act
<1>2. Moves /\ op' \in Overrides
  BY <1>1, RequestMoves DEF Act, TypeOK
<1>3. CASE \E o \in Outcomes : Finish(c, o)
  BY <1>1, <1>2, <1>3, FinishKeeps, QuietStep
<1>4. CASE ~ \E o \in Outcomes : Finish(c, o)
  <2> DEFINE new == [ctl[c] EXCEPT !.phase = "poll", !.decision = "none"]
  <2>1. ctl' = [ctl EXCEPT ![c] = new]
    BY <1>1, <1>4 DEF Act, Outcomes, TypeOK
  <2>2. /\ new \in Controllers /\ new.phase = "poll" /\ new.stage = ctl[c].stage
        /\ new.age = ctl[c].age /\ new.probes = ctl[c].probes
    BY <1>1 DEF Controllers, Phases
  <2> HIDE DEF new
  <2>3. ctl' \in [Canaries -> Controllers] /\ \A d \in Canaries : Keeps(d)
    BY <1>1, <2>1, <2>2 DEF TypeOK, Keeps
  <2> QED
    BY <1>2, <2>3, QuietStep
<1> QED
  BY <1>3, <1>4

(* Every step keeps the invariant.                                         *)
LEMMA StepInv == RolloutInv /\ BrokenInv /\ [Next]_vars => RolloutInv' /\ BrokenInv'
<1> SUFFICES ASSUME RolloutInv, BrokenInv, [Next]_vars PROVE RolloutInv' /\ BrokenInv'
  OBVIOUS
<1>1. /\ TypeOK /\ ctl \in [Canaries -> Controllers] /\ op \in Overrides
      /\ UNCHANGED ctl => ctl' \in [Canaries -> Controllers] /\ \A d \in Canaries : Keeps(d)
  BY DEF RolloutInv, TypeOK, Keeps
<1>2. "failed" \in Outcomes
  BY DEF Outcomes
<1>3. CASE Tick
  BY <1>3, TickStep
<1>4. CASE DashboardAbort
  <2>1. Moves
    BY <1>1, <1>4, PolicyAssumption DEF DashboardAbort, Moves, TypeOK, Releases
  <2> QED
    BY <1>1, <1>4, <2>1, QuietStep DEF DashboardAbort
<1>5. CASE DashboardApprove
  <2>1. rel.stage + 1 <= Stages - 1
    BY <1>1, <1>5, PolicyAssumption DEF DashboardApprove, TypeOK, Releases
  <2>2. Moves
    BY <1>1, <1>5, <2>1, PlatformMoves DEF DashboardApprove
  <2> QED
    BY <1>1, <1>5, <2>2, QuietStep DEF DashboardApprove
<1>6. ASSUME NEW c \in Canaries, StartRelease(c) PROVE RolloutInv' /\ BrokenInv'
  BY <1>6, StartStep
<1>7. ASSUME NEW c \in Canaries, Step(c) PROVE RolloutInv' /\ BrokenInv'
  <2>1. CASE Read(c)
    BY <2>1, ReadStep
  <2>2. CASE PollFails(c)
    <3>1. Moves
      BY <1>1, <2>2, PlatformMoves DEF PollFails
    <3> QED
      BY <1>1, <1>2, <2>2, <3>1, FinishKeeps, QuietStep DEF PollFails
  <2>3. ASSUME NEW ok \in BOOLEAN, NEW regressed \in BOOLEAN, Observe(c, ok, regressed)
        PROVE  RolloutInv' /\ BrokenInv'
    BY <2>3, ObserveStep
  <2>4. CASE Act(c)
    BY <2>4, ActStep
  <2>5. CASE ActFails(c)
    <3>1. Moves
      BY <1>1, <2>5, PlatformMoves, RequestMoves DEF ActFails
    <3> QED
      BY <1>1, <1>2, <2>5, <3>1, FinishKeeps, QuietStep DEF ActFails
  <2> QED
    BY <1>7, <2>1, <2>2, <2>3, <2>4, <2>5 DEF Step
<1>8. ASSUME NEW command \in {"promote", "rollback"}, OverrideRead(command)
      PROVE  RolloutInv' /\ BrokenInv'
  <2>1. op' \in Overrides
    <3>1. rel.canary \in Deployments \union {NoDeployment}
      BY <1>1 DEF TypeOK, Releases, Deployments
    <3> QED
      BY <1>1, <1>8, <3>1 DEF OverrideRead, Overrides, TypeOK, Releases
  <2>2. Moves
    BY <1>1, <1>8, PlatformMoves DEF OverrideRead
  <2> QED
    BY <1>1, <1>8, <2>1, <2>2, QuietStep DEF OverrideRead
<1>9. CASE OverrideActs
  <2>1. op' \in Overrides
    BY <1>9 DEF OverrideActs, Overrides, NoOverride
  <2>2. Moves
    <3>1. op.target \in Deployments \union {NoDeployment}
      BY <1>1 DEF Overrides
    <3>2. CASE Complete(op.target)
      <4>1. op.target = rel.canary /\ rel.state = "ACTIVE"
        BY <3>2 DEF Complete
      <4> QED
        BY <1>1, <3>1, <3>2, <4>1, PolicyAssumption DEF Complete, Moves, TypeOK, Releases
    <3>3. CASE Rollback(op.target)
      BY <1>1, <3>1, <3>3, PlatformMoves
    <3> QED
      BY <1>9, <3>2, <3>3 DEF OverrideActs
  <2> QED
    BY <1>1, <1>9, <2>1, <2>2, QuietStep DEF OverrideActs
<1>10. CASE OverrideFails
  <2>1. op' \in Overrides
    BY <1>10 DEF OverrideFails, Overrides, NoOverride
  <2>2. Moves
    BY <1>1, <1>10, PlatformMoves DEF OverrideFails
  <2> QED
    BY <1>1, <1>10, <2>1, <2>2, QuietStep DEF OverrideFails
<1>11. CASE UNCHANGED vars
  <2>1. Moves
    BY <1>1, <1>11, PlatformMoves DEF vars
  <2> QED
    BY <1>1, <1>11, <2>1, QuietStep DEF vars
<1> QED
  BY <1>3, <1>4, <1>5, <1>6, <1>7, <1>8, <1>9, <1>10, <1>11 DEF Next

-----------------------------------------------------------------------------
(* What an advance rests on *)

(* Only the request of c, answered or not, advances its release.           *)
LEMMA AdvanceIsRequest ==
  ASSUME TypeOK, [Next]_vars, NEW c \in Canaries, Advances(c)
  PROVE  Request(c, ctl[c])
<1>1. /\ ctl \in [Canaries -> Controllers] /\ ctl[c].phase = "act"
      /\ ctl'[c].phase # "act" /\ rel' # rel
  BY DEF TypeOK, Advances
<1>2. ~Tick
  <2> SUFFICES ASSUME Tick PROVE FALSE
    OBVIOUS
  <2> DEFINE older == IF ctl[c].stage = Unseen THEN ctl[c].age
                      ELSE Smaller(ctl[c].age + 1, MaxStage + 1)
  <2>1. ctl'[c] = [ctl[c] EXCEPT !.age = older, !.phase = "act"]
    BY <1>1 DEF Tick
  <2> HIDE DEF older
  <2>2. ctl'[c].phase = "act"
    BY <1>1, <2>1 DEF Controllers
  <2> QED
    BY <1>1, <2>2
<1>3. ASSUME NEW d \in Canaries, StartRelease(d) \/ Step(d) PROVE Request(c, ctl[c])
  <2>1. Act(d) \/ ActFails(d)
    BY <1>1, <1>3 DEF StartRelease, Step, Read, PollFails, Observe
  <2>2. d = c
    BY <1>1, <2>1 DEF Act, ActFails, Finish
  <2> QED
    BY <1>1, <2>1, <2>2 DEF Act, ActFails
<1> QED
  BY <1>1, <1>2, <1>3
  DEF Next, vars, DashboardAbort, DashboardApprove, OverrideRead, OverrideActs, OverrideFails

LEMMA BakedStep ==
  ASSUME RolloutInv, [Next]_vars, NEW c \in Canaries, Advances(c)
  PROVE  /\ rel.canary = c /\ rel.stage = ctl[c].stage
         /\ rel.age >= Bake
         /\ Len(LastOf(ctl[c].probes, Window)) >= MinProbes
<1>1. /\ TypeOK /\ ctl[c] \in Controllers /\ rel \in Releases
      /\ ctl[c].phase = "act" /\ ctl[c].decision = "advance"
  BY DEF RolloutInv, TypeOK, Advances
<1>2. /\ ctl[c].stage \in 0 .. Stages - 1 /\ ctl[c].age \in 0 .. MaxStage + 1
      /\ rel.stage \in 0 .. Stages - 1 /\ rel.age \in 0 .. Bake
  BY <1>1 DEF Controllers, Releases, RolloutInv, BusyHasStage
<1>3. \/ NextIsFinal(ctl[c]) /\ Complete(c)
      \/ ~NextIsFinal(ctl[c]) /\ ApproveStage(c, ctl[c].stage + 1)
  BY <1>1, AdvanceIsRequest DEF Request
<1>4. rel.state = "ACTIVE" /\ rel.canary = c
  BY <1>3 DEF Complete, ApproveStage
<1>5. ctl[c].stage <= rel.stage
  BY <1>2, <1>4 DEF RolloutInv, NeverAhead, Unseen
<1>6. rel.stage = ctl[c].stage
  BY <1>2, <1>3, <1>5, PolicyAssumption DEF NextIsFinal, ApproveStage
<1>7. Smaller(ctl[c].age, Bake) <= rel.age /\ ctl[c].age >= Bake
  BY <1>1, <1>4, <1>6 DEF RolloutInv, TimesTheStage, AdvanceHasEvidence
<1> QED
  BY <1>1, <1>2, <1>4, <1>6, <1>7, PolicyAssumption DEF Smaller, RolloutInv, AdvanceHasEvidence

-----------------------------------------------------------------------------
(* Theorems *)

(* The invariant holds for every policy and every set of canaries.         *)
THEOREM Invariant == Spec => [](RolloutInv /\ BrokenInv)
  BY InitInv, StepInv, PTL DEF Spec

(* Release, controllers and override keep their types.                     *)
THEOREM TypeCorrect == Spec => []TypeOK
<1>1. RolloutInv /\ BrokenInv => TypeOK
  BY DEF RolloutInv
<1> QED
  BY <1>1, Invariant, PTL

(* However operators interfere, a controller ends only a stage that it     *)
(* judged itself, that had its traffic for the bake time and its probes.   *)
THEOREM StagesAreBaked == Spec => StageIsBaked
<1> DEFINE Baked == \A c \in Canaries : Advances(c) =>
       /\ rel.canary = c /\ rel.stage = ctl[c].stage
       /\ rel.age >= Bake
       /\ Len(LastOf(ctl[c].probes, Window)) >= MinProbes
<1>1. RolloutInv /\ [Next]_vars => Baked
  BY BakedStep
<1>2. RolloutInv /\ [Next]_vars => [Baked]_vars
  BY <1>1
<1> QED
  BY <1>2, Invariant, PTL DEF Spec, StageIsBaked

(* With a failure ratio below one, a drill or a dead canary never gets a   *)
(* further stage, whatever the other thresholds are.                       *)
THEOREM BrokenStays ==
  ASSUME FailedNum < FailedDen
  PROVE  Spec => BrokenNeverAdvances
<1> DEFINE Stays == \A c \in Broken : ~Advances(c)
<1>1. BrokenInv => Stays
  BY DEF BrokenInv, Advances
<1>2. BrokenInv => [Stays]_vars
  BY <1>1
<1> QED
  BY <1>2, Invariant, PTL DEF BrokenNeverAdvances
=============================================================================
