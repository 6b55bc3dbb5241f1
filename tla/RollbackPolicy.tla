--------------------------- MODULE RollbackPolicy ---------------------------
(***************************************************************************)
(* The automated rollback of a production deploy.  A deploy pipeline (not  *)
(* part of the repository) puts a build in production and dispatches       *)
(* deploy_completed; a sweep every five minutes, or an operator, starts    *)
(* the same workflow (.github/workflows/rollback.yml).  A run checks the   *)
(* deploy state out of its branch, records the promotion it was dispatched *)
(* for, collects health signals, lets scripts/deploy/rollback-policy.mjs   *)
(* decide, pushes the new state, and only then asks the platform to serve  *)
(* the previous build.  Any of these steps may fail and end the run.       *)
(*                                                                         *)
(* Left out: the history list and the reason texts of the state, and the   *)
(* numbers behind a health signal (each signal is too small a sample, fine *)
(* or over its threshold).  parseState keeps every field the workflow      *)
(* itself wrote, so it shows only in the state the first run starts from.  *)
(***************************************************************************)
EXTENDS Integers

CONSTANTS
  Refs,            \* the builds a pipeline may promote
  NoRef,           \* null, where a build is expected
  Window,          \* observationWindowMinutes
  Cooldown,        \* cooldownMinutes
  MaxConsecutive,  \* maxConsecutiveRollbacks
  SaysPrevious,    \* may deploy_completed carry previous_ref (TRUE), omit it (FALSE)?
  Skew,            \* how far ahead of the time a runner's clock may be
  MaxTime          \* bound: the last instant of the model

ASSUME RefAssumption == NoRef \notin Refs
ASSUME ThresholdAssumption ==
  Window \in Nat /\ Cooldown \in Nat /\ MaxConsecutive \in Nat
ASSUME ClockAssumption == Skew \in Nat /\ MaxTime \in Nat
ASSUME PipelineAssumption == SaysPrevious \subseteq BOOLEAN

VARIABLES
  now,        \* the time
  serving,    \* the build production serves
  withdrawn,  \* history: the builds a rollback took out of production, not promoted since
  pending,    \* the run waiting for its turn in the concurrency group
  branch,     \* state.json on the deploy-state branch
  job         \* the run in progress

vars == <<now, serving, withdrawn, pending, branch, job>>

Never == -1   \* null, where a timestamp is expected
Stamps == Nat \union {Never}
Modes == {"auto", "force", "never"}
Samples == {"few", "ok", "bad"}
Signals == [errors : Samples, synthetic : Samples]
Unavailable == [errors |-> "none", synthetic |-> "none"]
Verdicts ==
  {"none", "operator-never", "no-promotion", "clock-skew", "manual-hold",
   "breaker-open", "latch", "cooldown", "observation-window", "no-signals",
   "degraded", "insufficient-data", "healthy"}

DeployState ==
  [currentRef : Refs \union {NoRef}, lastPromotedAt : Stamps,
   lastKnownGoodRef : Refs \union {NoRef}, lastRollbackAt : Stamps,
   consecutiveRollbacks : Nat, breakerOpen : BOOLEAN, manualHoldUntil : Stamps]

emptyState ==
  [currentRef |-> NoRef, lastPromotedAt |-> Never, lastKnownGoodRef |-> NoRef,
   lastRollbackAt |-> Never, consecutiveRollbacks |-> 0, breakerOpen |-> FALSE,
   manualHoldUntil |-> Never]

\* A run to start: the promotion it records (NoRef: none) and its mode.
Trigger(mode, ref, previous) == [mode |-> mode, ref |-> ref, previous |-> previous]
NoRun == Trigger("none", NoRef, NoRef)
Runs == [mode : Modes, ref : Refs \union {NoRef}, previous : Refs \union {NoRef}]

Idle == [phase |-> "idle", mode |-> "auto", work |-> emptyState, verdict |-> "none"]
Jobs == [phase : {"idle", "evaluating", "decided", "rolling"}, mode : Modes,
         work : DeployState, verdict : Verdicts]

Clock == now .. now + Skew

-----------------------------------------------------------------------------
(* rollback-policy.mjs *)

ForgetBreaker(s, ref, previous, at) ==
  [s EXCEPT !.currentRef = ref, !.lastPromotedAt = at,
            !.lastKnownGoodRef = IF previous # NoRef /\ previous # ref THEN previous ELSE @,
            !.consecutiveRollbacks = 0, !.breakerOpen = FALSE]

TargetOwnMemory(s, ref, previous, at) ==
  [s EXCEPT !.currentRef = ref, !.lastPromotedAt = at,
            !.lastKnownGoodRef = IF s.currentRef \notin {NoRef, ref} THEN s.currentRef
                                 ELSE IF previous \notin {NoRef, ref} THEN previous ELSE @]

\* The build a rollback will restore: what the pipeline says served before,
\* else, when the promotion replaces another build, that one.
recordPromotion(s, ref, previous, at) ==
  LET replaced == s.currentRef \notin {NoRef, ref}
      target   == IF replaced
                  THEN IF previous # NoRef THEN previous ELSE s.currentRef
                  ELSE IF previous \notin {NoRef, ref} THEN previous
                  ELSE s.lastKnownGoodRef
  IN [s EXCEPT !.currentRef = ref, !.lastPromotedAt = at, !.lastKnownGoodRef = target]

Degraded(signals) == "bad" \in {signals.errors, signals.synthetic}
TooFewSamples(signals) == "few" \in {signals.errors, signals.synthetic}

evaluateSignals(signals) ==
  IF Degraded(signals) THEN "degraded"
  ELSE IF TooFewSamples(signals) THEN "insufficient-data"
  ELSE "healthy"

\* The rejected build was promoted again within the cooldown of its rollback.
RePromoted(s) ==
  /\ s.lastRollbackAt # Never
  /\ s.lastPromotedAt - s.lastRollbackAt \in 0 .. Cooldown - 1

GuardsNoCooldown(s, c) ==
  IF c < s.manualHoldUntil THEN "manual-hold"
  ELSE IF s.breakerOpen THEN "breaker-open"
  ELSE IF RePromoted(s) THEN "latch"
  ELSE IF c - s.lastPromotedAt < Window THEN "observation-window"
  ELSE "none"

\* The guards that only bind the automation, in the order the code asks them.
Guards(s, c) ==
  IF c < s.manualHoldUntil THEN "manual-hold"
  ELSE IF s.breakerOpen THEN "breaker-open"
  ELSE IF RePromoted(s) THEN "latch"
  ELSE IF s.lastRollbackAt # Never /\ c - s.lastRollbackAt < Cooldown THEN "cooldown"
  ELSE IF c - s.lastPromotedAt < Window THEN "observation-window"
  ELSE "none"

decide(s, signals, c, mode) ==
  IF mode = "never" THEN "operator-never"
  ELSE IF s.lastPromotedAt = Never \/ s.currentRef = NoRef THEN "no-promotion"
  ELSE IF c < s.lastPromotedAt THEN "clock-skew"
  ELSE IF mode = "auto" /\ Guards(s, c) # "none" THEN Guards(s, c)
  ELSE IF signals = Unavailable THEN "no-signals"
  ELSE evaluateSignals(signals)

\* The verdicts that carry the mode into the state: only with them does an
\* operator's run clear the memory of the automation.
CarriesMode == {"operator-never", "latch", "degraded", "insufficient-data", "healthy"}
TakesOver(verdict, mode) == mode \in {"force", "never"} /\ verdict \in CarriesMode

CountAfter(s, verdict, mode) ==
  IF TakesOver(verdict, mode) \/ verdict = "healthy" THEN 0
  ELSE IF verdict = "degraded" THEN s.consecutiveRollbacks + 1
  ELSE s.consecutiveRollbacks

OpenAfter(s, verdict, mode) ==
  IF TakesOver(verdict, mode) THEN FALSE
  ELSE IF verdict = "degraded" THEN s.consecutiveRollbacks + 1 > MaxConsecutive
  ELSE s.breakerOpen \/ verdict = "latch"

applyDecision(s, verdict, c, mode) ==
  [s EXCEPT !.consecutiveRollbacks = CountAfter(s, verdict, mode),
            !.breakerOpen = OpenAfter(s, verdict, mode),
            !.manualHoldUntil = IF verdict = "operator-never" THEN c + Cooldown ELSE @,
            !.lastRollbackAt = IF verdict = "degraded" THEN c ELSE @]

-----------------------------------------------------------------------------
(* rollback.yml *)

Init ==
  /\ now = 0
  /\ serving = NoRef
  /\ withdrawn = {}
  /\ pending = NoRun
  /\ branch = emptyState
  /\ job = Idle

Tick ==
  /\ now < MaxTime
  /\ now' = now + 1
  /\ UNCHANGED <<serving, withdrawn, pending, branch, job>>

\* The pipeline promotes another build than the one in production and dispatches
\* deploy_completed.  The group keeps one waiting run: a newer one takes the
\* place of an older.
Deploy(r, says) ==
  /\ r # serving
  /\ serving' = r
  /\ withdrawn' = withdrawn \ {r}
  /\ pending' = Trigger("auto", r, IF says THEN serving ELSE NoRef)
  /\ UNCHANGED <<now, branch, job>>

\* The sweep (auto), or an operator with workflow_dispatch.
Request(mode) ==
  /\ pending' = Trigger(mode, NoRef, NoRef)
  /\ UNCHANGED <<now, serving, withdrawn, branch, job>>

\* The group lets the next run go: check the state out, record the promotion.
Start(c) ==
  /\ job.phase = "idle"
  /\ pending # NoRun
  /\ job' = [phase |-> "evaluating", mode |-> pending.mode, verdict |-> "none",
             work |-> IF pending.ref = NoRef THEN branch
                      ELSE recordPromotion(branch, pending.ref, pending.previous, c)]
  /\ pending' = NoRun
  /\ UNCHANGED <<now, serving, withdrawn, branch>>

Evaluate(signals, c) ==
  /\ job.phase = "evaluating"
  /\ LET verdict == decide(job.work, signals, c, job.mode)
     IN job' = [job EXCEPT !.phase = "decided", !.verdict = verdict,
                           !.work = applyDecision(job.work, verdict, c, job.mode)]
  /\ UNCHANGED <<now, serving, withdrawn, pending, branch>>

\* No signal source, or no answer from it: the step fails and the run ends.
SignalsFail ==
  /\ job.phase = "evaluating"
  /\ job.mode # "never"
  /\ job' = Idle
  /\ UNCHANGED <<now, serving, withdrawn, pending, branch>>

Push ==
  /\ job.phase = "decided"
  /\ branch' = job.work
  /\ job' = IF job.verdict = "degraded" THEN [job EXCEPT !.phase = "rolling"] ELSE Idle
  /\ UNCHANGED <<now, serving, withdrawn, pending>>

RollUnpushed ==
  /\ job.phase = "decided"
  /\ job' = IF job.verdict = "degraded" THEN [job EXCEPT !.phase = "rolling"] ELSE Idle
  /\ UNCHANGED <<now, serving, withdrawn, pending, branch>>

\* The state could not be pushed: the run ends before the rollback job.
PushFails ==
  /\ job.phase = "decided"
  /\ job' = Idle
  /\ UNCHANGED <<now, serving, withdrawn, pending, branch>>

\* The platform serves the target, whether or not its answer arrives.
Restore ==
  LET target == job.work.lastKnownGoodRef
  IN /\ job.phase = "rolling"
     /\ target # NoRef
     /\ serving' = target
     /\ withdrawn' = (withdrawn \union {serving}) \ {target}
     /\ job' = Idle
     /\ UNCHANGED <<now, pending, branch>>

\* No target on record, no hook, or the hook refused.
RestoreFails ==
  /\ job.phase = "rolling"
  /\ job' = Idle
  /\ UNCHANGED <<now, serving, withdrawn, pending, branch>>

Next ==
  \/ Tick
  \/ \E r \in Refs, says \in SaysPrevious : Deploy(r, says)
  \/ \E mode \in Modes : Request(mode)
  \/ \E c \in Clock : Start(c)
  \/ \E signals \in Signals \union {Unavailable}, c \in Clock : Evaluate(signals, c)
  \/ SignalsFail
  \/ Push
  \/ PushFails
  \/ Restore
  \/ RestoreFails

Spec == Init /\ [][Next]_vars

-----------------------------------------------------------------------------
(* Properties *)

TypeOK ==
  /\ now \in 0 .. MaxTime
  /\ serving \in Refs \union {NoRef}
  /\ withdrawn \subseteq Refs \union {NoRef}
  /\ pending \in Runs \union {NoRun}
  /\ branch \in DeployState
  /\ job \in Jobs

\* "The breaker is cleared only by an operator, never by a deploy": a push that
\* closes an open breaker belongs to a run in mode force or never, whatever
\* promotions, failures and rollbacks came between.
OnlyAnOperatorResets ==
  [][branch.breakerOpen /\ ~branch'.breakerOpen => job.mode \in {"force", "never"}]_vars

\* The count of rollbacks in a row never runs past the latch: past the maximum
\* the breaker is open, so the count stops one above it.
BreakerLatches ==
  /\ branch.consecutiveRollbacks <= MaxConsecutive + 1
  /\ branch.consecutiveRollbacks > MaxConsecutive => branch.breakerOpen

\* No flapping: when the automation goes on to move production, the branch as it
\* stood before this run had a closed breaker, no operator hold in force, and no
\* rollback younger than the cooldown.
NoFlapping ==
  [][(job.phase = "decided" /\ job'.phase = "rolling" /\ job.mode = "auto") =>
       /\ ~branch.breakerOpen
       /\ branch.manualHoldUntil <= job.work.lastRollbackAt
       /\ branch.lastRollbackAt # Never =>
            job.work.lastRollbackAt - branch.lastRollbackAt >= Cooldown]_vars

\* Production is taken off a build only after the branch has the rollback and
\* its target on record, so that no failure can hide a rollback from the guards.
MovesAreOnRecord ==
  [][withdrawn' \ withdrawn # {} =>
       /\ branch.lastRollbackAt = job.work.lastRollbackAt
       /\ branch.lastKnownGoodRef = serving']_vars

\* The build a rollback would restore is never one that a rollback took out of
\* production and nobody promoted since (recordPromotion: "the artifact that was
\* serving successfully immediately before this promotion").
TargetNotWithdrawn == branch.lastKnownGoodRef \notin withdrawn
=============================================================================
